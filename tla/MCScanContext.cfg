CONSTANTS
    Instances = {i1, i2}
    Streams = {s1}
    Receiver = Receiver
    NsPerMs = 2
    Amounts = {1}
    MaxRecords = 2
SPECIFICATION Spec
INVARIANTS
    MergedRowsExact
    MergedTimeWithinTruncation
    RoundTripTruncates
CHECK_DEADLOCK FALSE
