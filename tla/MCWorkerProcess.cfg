CONSTANTS
    Connections = {c1, c2}
    Names = {"a"}
    NameOf <- MCNameOf
    None = None
    cpu = cpu
    interactive = interactive
    v1 = v1
    v2 = v2
    Tasks = {cpu, interactive, v1, v2}
    JobType <- MCJobType
    Concurrency = 2
    MaxLate = 3
    MaxOrphans = 2
SYMMETRY MCSymmetry
SPECIFICATION ProcessSpec
INVARIANTS
    RegisteredIsConnected
    AcceptedIsRegistered
    NeverRefused
    EndsAgree
    PendingIsRegistered
    ExclusiveWhileConnected
CHECK_DEADLOCK FALSE
