SPECIFICATION CpSpec
CONSTANTS
    p1 = p1
    p2 = p2
    p3 = p3
    CpCalls = {c1}
    CpPaths = {p1, p2}
    CpEntries = {p1}
    CpEntryOf <- Alias
    CpFileSize = 2
    CpVersions = 2
    CpKinds <- AtomicMove
INVARIANT CpNothingLost
