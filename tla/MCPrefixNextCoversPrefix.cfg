CONSTANTS
    ByteMax = 4
    CodecFlagNil = 0
    CodecFlagBytes = 1
    CodecFlagInt = 2
    CodecFlagMax = 3
    IntWidth = 2
    MaxLen = 3
    NullData = NullData
SPECIFICATION Spec
INVARIANT PrefixNextCoversPrefix
