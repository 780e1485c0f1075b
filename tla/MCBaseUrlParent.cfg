SPECIFICATION PaSpec
CONSTANTS
    PaUsers <- Users
    PaQualified = {"art.example", "other.example"}
    PaNames = {"x", "y", ".."}
    PaDepth = 6
PROPERTY PaParentAbove
