SPECIFICATION FairSpec
CONSTANTS
    Items = {a, b, c}
    MaxWorkers = 2
    Stop = Stop
    Nothing = Nothing
    Commands <- AllCommands
    Folders <- AllFolders
    MaxVersion = 2
    MaxChanges = 1
INVARIANTS
    EveryItemRunOnce
    ExitZeroMeansCopied
    DeletedWasAbsent
PROPERTIES
    EndsUnlessInterrupted
