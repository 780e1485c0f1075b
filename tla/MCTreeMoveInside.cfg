SPECIFICATION TrSpec
CONSTANTS
    TrDirs <- TreeDirs
    TrRoot = "r"
    TrIn <- TreeFiles
    TrLate = {}
INVARIANT TrNeverLost
