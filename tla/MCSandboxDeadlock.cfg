CONSTANTS
    Processes = {"p", "q"}
    Threads <- MCThreads
    ProcessOf <- MCProcessOf
    Sandboxes = {"tool", "chroot"}
    Orders <- CompoundOrders
    MaxDeaths = 0
    None = None

SPECIFICATION SandboxSpec

INVARIANT NoDeadlock
