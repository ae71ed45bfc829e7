SPECIFICATION FairSpec
CONSTANTS
    empty = empty  small = small  large = large
    Messages = {empty, small, large}
    BodyLen <- MCBodyLen
    ZipLen <- MCZipLen
    HEADER_LEN = 2
    COMPRESSION_LIMIT = 1
    COMPRESSION_BIT = 16
    MaxSends = 3
INVARIANTS TypeOK WireIntact InOrder NothingLost NeverCutAboveSecure
PROPERTIES AllReceived
