\* More output than one read takes is left in the pipe when the child exits.
SPECIFICATION Spec
CONSTANTS
    p1 = p1
    s1 = s1
    Procs = {p1}
    Slots = {s1}
    Streams = {"out"}
    MaxChunks = 2
    CtlCap = 4
    SigCap = 2
    MaxStops = 1
    Flags = {"STOP_WAIT"}
    KillNums = {9}
    MaxRuns = 1
    UserStops = {}
    MayFail = {}
    Daemons = {}
    Leavers = {}
    Threaded = TRUE
    Rehash = FALSE
INVARIANT RestIsRead
