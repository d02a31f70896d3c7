SPECIFICATION Spec
CONSTANT Bits = 8
INVARIANT RoundupAgrees
CHECK_DEADLOCK FALSE
