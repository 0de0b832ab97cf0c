\* Callers on any thread, two stop() calls, user_stop() on either process, and a
\* second run().  STOP_KILL is left to the runs with daemons: a child that exits by
\* itself may do so at any time anyway.
SPECIFICATION Spec
CONSTANTS
    p1 = p1
    p2 = p2
    s1 = s1
    s2 = s2
    Procs = {p1, p2}
    Slots = {s1, s2}
    Streams = {"out"}
    MaxChunks = 1
    CtlCap = 4
    SigCap = 1
    MaxStops = 2
    Flags = {"STOP_WAIT", "STOP_USER"}
    KillNums = {9}
    MaxRuns = 2
    UserStops = {p1, p2}
    MayFail = {}
    Daemons = {}
    Leavers = {}
    Threaded = TRUE
    Rehash = FALSE
SYMMETRY Symmetry
INVARIANT OnStopExactlyOnce
INVARIANT ActivePidsValid
PROPERTY ImplementsQueue
INVARIANT StopAnswered
INVARIANT JobsHaveBytes
INVARIANT IInv
PROPERTY ReturnsWhenAllStopped
PROPERTY UserStopHasCause
PROPERTY AssertsHold
PROPERTY ImplementsLifecycle
