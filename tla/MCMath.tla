------------------------------- MODULE MCMath -------------------------------
\* Every argument of the functions of Math, one state each.
EXTENDS Math

VARIABLE num

Spec == num = 0 /\ [][num < 2^(Bits - 2) - 1 /\ num' = num + 1]_num

\* RoundupAgrees: GetRoundupPowerOfTwo returns what the loop beside it, which
\* it replaces, would have returned: the least power of two that is not below
\* its argument.
RoundupAgrees == GetRoundupPowerOfTwo(num) = LoopRoundup(num)
=============================================================================
