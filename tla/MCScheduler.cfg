CONSTANTS
    Workers <- MCWorkers
    Tasks <- MCTasks
    Contests = {"A", "B"}
    Concurrency <- MCConcurrency
    TotalRam <- MCTotalRam
    CpuEnabled <- MCCpuEnabled
    RealCpu <- MCRealCpu
    Ram <- MCRam
    Priority <- MCPriority
    ContestOf <- MCContestOf
    ContestPriorities = {0}
    None = None
SPECIFICATION SchedSpec
INVARIANTS
    TaskPlacement
    CountersMatchTasks
    WorkerQueuesMatchCounters
    RealCpuExclusive
    WithinCapacity
    AssertionsHold
PROPERTIES
    ArrivalOrder
