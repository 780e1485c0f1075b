SPECIFICATION Spec
CONSTANTS
    Items = {a, b, c}
    MaxWorkers = 2
    Stop = Stop
    Nothing = Nothing
    Commands <- DeleteCommand
    Folders <- AllFolders
    MaxVersion = 1
    MaxChanges = 0
INVARIANT DeletesOnlyExtra
