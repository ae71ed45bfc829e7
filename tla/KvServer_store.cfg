SPECIFICATION Spec
CONSTANTS
    c1 = c1  c2 = c2  c3 = c3  t1 = t1  t2 = t2  k1 = k1
    v0 = v0  v1 = v1  v2 = v2  sh1 = sh1
    Clients = {c1, c2, c3}
    Tables = {t1, t2}
    Keys = {k1}
    Vals = {v0, v1, v2}
    DefaultVal = v0
    NoValue = NoValue
    NoWriter = NoWriter
    NoTable = NoTable
    Shards = {sh1}
    ShardOf <- OneShard
    Requests <- StorageRequests
    MaxCalls = 1
    BeforeSend <- MarkMessage
INVARIANTS ShardExclusion NoOrphanLock
PROPERTIES NothingLost Linearizable
SYMMETRY Symmetry
