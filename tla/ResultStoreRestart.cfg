CONSTANTS
    Groups = {"g1", "g2"}
    Rejected = {"g2"}
    MaxRetries = 2
    MaxCrashes = 2
    None = None
SPECIFICATION StoreSpec
INVARIANT RestartResumes
CHECK_DEADLOCK FALSE
