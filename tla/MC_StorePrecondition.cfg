\* Two stored boxes, one box of the client's own.
CONSTANTS
    Buf = {b1, b2}
    OwnBox = {x1}
    MaxGets = 3
SPECIFICATION Spec
INVARIANT LenWithinSize
CHECK_DEADLOCK FALSE
