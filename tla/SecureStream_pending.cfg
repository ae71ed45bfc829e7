SPECIFICATION Spec
CONSTANTS
    HEADER_LEN = 2
    Plain = {1, 2}
    NONCE_LEN = 1
    TagLen = 1
    Chunk = 2
    MaxRecords = 2
INVARIANTS PendingIsHarmless
