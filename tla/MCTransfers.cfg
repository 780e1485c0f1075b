SPECIFICATION Spec
CONSTANTS
    RdMaxVersion = 3
    RdMaxSize = 3
    RdWindow = 2
    RdMaxStarts = 4
    RdHasIdentity = TRUE
    RtSize <- RangedSizes
    RtToken <- RangedTokens
    RtStreams = 2
    p1 = p1
    p2 = p2
    p3 = p3
    CpCalls = {c1, c2}
    CpPaths = {p1, p2, p3}
    CpEntries = {p1, p2, p3}
    CpEntryOf <- NoAlias
    CpFileSize = 2
    CpVersions = 2
    CpKinds <- AllKinds
    MvKind <- Places
    MvWrites = 2
    TrDirs <- TreeDirs
    TrRoot = "r"
    TrIn <- TreeFiles
    TrLate = {"n"}
    CfHandles = {h1, h2}
    CfFirst <- Content
    CfChunk = 2
    CfMaxLen = 3
    CmNames = {"a", "b"}
    CmSources = 2
    CmWorkers = 2
    PgSize = 3
    RfTasks = {"t1", "t2"}
    RfPaths = {"a", "b"}
    RfOps <- RfAllOps
    RfMaxCalls = 2
    TkServices = {"x", "y"}
    TkObjects = {"p", "q"}
    TkMaxSteps = 4
INVARIANTS
    TransfersTypeOK
    RdResumesRight
    RtConsistent
    CpKeepsFiles
    TrKeepsTree
    CfNeverMixed
    CmReportsTruly
    RfKeepsFiles
    TkRightToken
PROPERTIES
    MvKeepsContent
    PgConsistent
