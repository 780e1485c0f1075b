SPECIFICATION Spec
CONSTANTS
    DcReaders = {r1}
    DcKeys = {k1}
    DcSizeOf <- CacheSizes
    DcSettings <- Settings
    DcMaxTime = 1
    DcMaxInstances = 1
    DcNoOne = DcNoOne
    LcTasks = {"t1", "t2"}
    LcPrefixes = {"r", "ra"}
    LcKeys = {"ra/x"}
    LcBelow <- Below
    LcTtl = 1
    LcMaxTime = 1
    LcMaxCalls = 3
INVARIANTS
    LcPerIdentity
