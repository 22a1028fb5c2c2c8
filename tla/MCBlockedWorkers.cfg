CONSTANTS
    Sizes = {1, 2, 3}
    MaxTasks = 3
    MaxWorkers = 4
    NoRam = NoRam
SPECIFICATION ListSpec
INVARIANT BlockedIsMinimal
CHECK_DEADLOCK FALSE
