-------------------------------- MODULE Math --------------------------------
(***************************************************************************)
(* The functions on unsigned integers of utilities/math.cpp.  Bits is the  *)
(* width of uint32_t; a shift by that width or more is undefined, so the   *)
(* roundup is defined for numbers below 2^(Bits - 2) only.                 *)
(***************************************************************************)
EXTENDS Integers

CONSTANT Bits   \* at least 2

Word == 2^Bits

\* sizeof(num) * CHAR_BIT - __builtin_clz(num)
BitLength(num) == CHOOSE n \in 0..Bits : num < 2^n /\ (n = 0 \/ num >= 2^(n - 1))

GetRoundupPowerOfTwo(num) == IF num = 0 THEN 1 ELSE 2^(BitLength(num) + 1)

\* The loop the function keeps under #if 0: the first i with 1 << i >= num.
LoopRoundup(num) == 2^(CHOOSE i \in 0..Bits : 2^i >= num /\ (i = 0 \/ 2^(i - 1) < num))
=============================================================================
