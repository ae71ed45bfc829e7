SPECIFICATION FairSpec
CONSTANTS
    MaxStreams = 2
    MaxWrites = 3
    ConnCap = 2
    StreamCap = 1
    NetCap = 1
INVARIANTS TypeOK Conserved InOrder
PROPERTIES ReadsReturn
