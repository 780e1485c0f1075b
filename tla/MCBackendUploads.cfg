SPECIFICATION UploadsSpec
CONSTANTS
    Files = {a, b}
    Floor = 2
    Ceiling = 2
    PerFileCap = 2
    MaxParts = 2
SYMMETRY WriterSymmetry
INVARIANTS
    ServerInStep
PROPERTIES
    UploadIsAtomic
