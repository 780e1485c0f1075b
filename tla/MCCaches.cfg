SPECIFICATION Spec
CONSTANTS
    DcReaders = {r1, r2, r3}
    DcKeys = {k1, k2}
    DcSizeOf <- CacheSizes
    DcSettings <- Settings
    DcMaxTime = 2
    DcMaxInstances = 2
    DcNoOne = DcNoOne
    LcTasks = {"t1", "t2"}
    LcPrefixes = {"r", "ra"}
    LcKeys = {"ra/x"}
    LcBelow <- Below
    LcTtl = 1
    LcMaxTime = 1
    LcMaxCalls = 3
SYMMETRY CallSymmetry
INVARIANTS
    CachesTypeOK
    DcSingleFetch
    DcMonotonicReads
    LcRightListing
PROPERTIES
    DcKeepsLimits
