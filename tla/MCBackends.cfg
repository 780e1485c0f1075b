SPECIFICATION Spec
CONSTANTS
    MbCallers = {c1, c2}
    MbItems = {i1, i2}
    MbNone = MbNone
    SrThreads = {t1, t2}
    SrItems = 1
    StNodes = {"r", "d1", "d2", "f", "g", "h"}
    StParent <- Parents
    StRoot = "r"
    StDirs = {"r", "d1", "d2"}
    StSlots = 2
    HtTasks = {"t1", "t2", "t3"}
    FpTasks = {"t1", "t2"}
    FpMaxResets = 1
    HwNames = {"a", "b"}
    HwDepth = 2
    HwMaxLinks = 2
    AiTasks = {"t1", "t2"}
    AiMaxCalls = 2
    AiMaxOthers = 2
    PmThreads = {"t1", "t2"}
    PmBuiltin = {"art", "https", "ssh"}
    PmMissing = {"ssh"}
    PmMatch = "art"
    PmHttp = "https"
    PmMaxCalls = 2
    PaUsers <- Users
    PaQualified = {"art.example", "other.example"}
    PaNames = {"x", "y", ".."}
    PaDepth = 6
INVARIANTS
    BackendsTypeOK
    MbAnswersMatch
    HtVerifiedOnce
    FpSharedSafely
    HwWalksTree
    AiNotMisled
    PaDerives
PROPERTIES
    MbEveryCallAnswered
    SrBlocksAndReturns
    StEndsSettled
    PmKeepsClasses
