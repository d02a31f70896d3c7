--------------------------- MODULE MCTimerManager ---------------------------
\* TimerManager on wheels of two slots: the levels span 1, 2, 4, 8 and 16
\* ticks, and 32 is the first interval AddNode refuses.
EXTENDS TimerManager, TLC

MCCounts == {-1, 1}
MCIntervals == {0, 1, 18, 32}
MCElapsed == {5}

\* For the liveness run.
FewCounts == {0, 2}
FewIntervals == {1, 5}

Symmetric == Permutations(Events)
=============================================================================
