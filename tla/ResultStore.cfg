CONSTANTS
    Groups = {"g1", "g2", "g3"}
    Rejected = {"g3"}
    MaxRetries = 1
    MaxCrashes = 2
    None = None

SPECIFICATION FairStoreSpec

INVARIANTS
    AcceptedIsDurable
    OwedIsPursued
    FinishedIsDeleted

PROPERTY OwedIsSettled

CHECK_DEADLOCK FALSE
