SPECIFICATION Spec
CONSTANTS
    Items = {a, b, c}
    MaxWorkers = 2
    Stop = Stop
    Nothing = Nothing
    Commands <- AllCommands
    Folders = {}
    MaxVersion = 2
    MaxChanges = 1
INVARIANT DeletesOnlyExtra
