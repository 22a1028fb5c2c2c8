CONSTANTS
    Processes = {"p", "q"}
    Threads <- MCThreads
    ProcessOf <- MCProcessOf
    Sandboxes = {"tool", "chroot"}
    Orders <- EnterOrders
    MaxDeaths = 1
    None = None

SPECIFICATION SandboxSpec

INVARIANTS
    InstallerIsAlone
    UsersSeeWhole
    NoDeadlock
