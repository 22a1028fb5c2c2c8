CONSTANTS
    Workers <- MCWorkers
    Tasks <- MCTasks
    Contests = {"A"}
    Concurrency <- MCConcurrency
    TotalRam <- MCTotalRam
    CpuEnabled <- MCCpuEnabled
    RealCpu <- MCRealCpu
    Ram <- MCRam
    Priority <- MCPriority
    ContestOf <- MCContestOf
    ContestPriorities = {0}
    None = None
    Groups <- MCGroups
    Members <- MCMembers
    ContestOfGroup <- MCContestOfGroup
    MaxTaskRam = 4
SPECIFICATION FairSpec
PROPERTIES
    GroupsAnswered
    RealCpuServed
