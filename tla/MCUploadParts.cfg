SPECIFICATION StableSpec
CONSTANTS
    Files = {f1, f2}
    Floor = 2
    Ceiling = 2
    PerFileCap = 2
    MaxParts = 2
INVARIANTS
    TypeOK
    BudgetExact
    OneReader
    NumberedInSourceOrder
    CompleteWhenOk
    NothingLeftBehind
PROPERTIES
    EveryUploadReturns
