\* user_stop() comes after the process ended and its numbers were used again.
SPECIFICATION Spec
CONSTANTS
    p1 = p1
    p2 = p2
    s1 = s1
    s2 = s2
    Procs = {p1, p2}
    Slots = {s1, s2}
    Streams = {"out"}
    MaxChunks = 1
    CtlCap = 4
    SigCap = 2
    MaxStops = 1
    Flags = {"STOP_WAIT"}
    KillNums = {9}
    MaxRuns = 1
    UserStops = {p1}
    MayFail = {}
    Daemons = {}
    Leavers = {}
    Threaded = TRUE
    Rehash = FALSE
INVARIANT UserStopsOwnProc
