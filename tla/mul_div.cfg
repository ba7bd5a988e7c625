CONSTANT HalfBits = 2
SPECIFICATION Spec
INVARIANT MulDivExact
CHECK_DEADLOCK FALSE
