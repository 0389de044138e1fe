CONSTANTS
    ByteMax = 4
    CodecFlagNil = 0
    CodecFlagBytes = 1
    CodecFlagInt = 2
    CodecFlagMax = 3
    IntWidth = 1
    NullData = NullData
    FIRST_SEGMENT_ID = 1
    MaxSegmentId = 4
SPECIFICATION Spec
CHECK_DEADLOCK FALSE
INVARIANT SegmentsPartitionKeySpace
