CONSTANTS
    Thread = {t1, t2}
    Slots = 7
    Objects = 7
    Handles = 7
    MaxDesc = 2
    MaxQueue = 1
    MaxCalls = 4
    MaxStray = 1
    MakeArgs <- MCMakeArgs
    SendArgs <- MCSendArgs
    WaitArgs <- MCWaitArgs
    ConnectArgs <- MCConnectArgs
    RecvArgs <- MCRecvArgs
    Faults <- MCFaults
SYMMETRY Threads
SPECIFICATION Spec
INVARIANTS
    RefsExact
    HandlesKept
    DeliveredRight
