CONSTANTS
    ByteMax = 4
    CodecFlagNil = 0
    CodecFlagBytes = 1
    CodecFlagInt = 2
    CodecFlagMax = 3
    IntWidth = 2
    NullData = NullData
    RangeInts = {0, 1, 12, 23, 24}
    CommonColumnSize = 2
SPECIFICATION Spec
INVARIANT ShrinkIsIntersection
INVARIANT MergeCoversBoth
INVARIANT NoneIffEmpty
INVARIANT IntersectIffCommonKey
INVARIANT IncludedIffSubset
INVARIANT DeserializeRestoresRange
INVARIANT FromHandleRangeExact
INVARIANT RegionRangeWithinTable
INVARIANT BuildRowKeyRangeExact
