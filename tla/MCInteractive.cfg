CONSTANTS
    Commands = {0, 1, 2}
    MaxProcesses = 2
    Jobs <- MCJobs
    None = None

SPECIFICATION FairInteractiveSpec
CHECK_DEADLOCK FALSE

INVARIANTS
    EndReachesPeer
    DescriptorsReturned
    EndsStayOpen
    KilledIsReported
    VerdictHasABasis

PROPERTY InteractionEnds
