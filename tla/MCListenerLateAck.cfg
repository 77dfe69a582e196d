SPECIFICATION Spec
CONSTANTS
    Names = {n1}
    NoName = none
    MaxSends = 3
INVARIANT ReturnsOnceAcked
CHECK_DEADLOCK FALSE
