CONSTANTS
    Workers <- MCWorkers
    Tasks <- MCTasks
    Contests = {"A", "B"}
    Concurrency <- MCConcurrency
    TotalRam <- MCTotalRam
    CpuEnabled <- MCCpuEnabled
    RealCpu <- MCRealCpu
    Ram <- MCRam
    Priority <- MCPriority
    ContestOf <- MCContestOf
    ContestPriorities = {0, 1}
    None = None
    Groups <- MCGroups
    Members <- MCMembers
    ContestOfGroup <- MCContestOfGroup
    MaxTaskRam = 2
SPECIFICATION Spec
INVARIANTS
    NothingRaised
    ManagersAgree
    StatisticsFresh
    NoMissedWakeup
PROPERTIES
    SchedSpec
    ReservationsProtected
    ImplementsService
