---------------------------- MODULE MCThreadPool ----------------------------
\* ThreadPool with three workers and two tasks.
EXTENDS ThreadPool

CONSTANTS w1, w2, w3, t1, t2
=============================================================================
