CONSTANTS
    MaxCalls = 2
    EarlyCalls = TRUE

SPECIFICATION FairRPCSpec

INVARIANTS
    ClosedOnlyAfterTimeout
    RepliesAreExpected

PROPERTIES
    FiresOnce
    CallsEnd

CHECK_DEADLOCK FALSE
