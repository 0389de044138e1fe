CONSTANTS
    Times = {1, 2}
    Waits = {0, 1}
    ConnBytes = {1}
    MaxAppends = 3
SPECIFICATION Spec
INVARIANTS
    SlowestOperatorWaits
    ZoneBytesAccounted
CHECK_DEADLOCK FALSE
