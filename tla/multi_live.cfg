\* One child exits by itself, may leave the process group, and may not be created
\* at all; the other exits only when it is killed.  Insertions may rehash the
\* select map.
SPECIFICATION FairSpec
CONSTANTS
    p1 = p1
    p2 = p2
    s1 = s1
    s2 = s2
    Procs = {p1, p2}
    Slots = {s1, s2}
    Streams = {"out"}
    MaxChunks = 1
    CtlCap = 4
    SigCap = 2
    MaxStops = 1
    Flags = {"STOP_WAIT", "STOP_USER", "STOP_KILL"}
    KillNums = {9}
    MaxRuns = 1
    UserStops = {}
    MayFail = {p1}
    Daemons = {p2}
    Leavers = {p1}
    Threaded = TRUE
    Rehash = TRUE
PROPERTY ExitNoticed
PROPERTY StopReturns
PROPERTY JobsTaken
PROPERTY ConsistentUntilEarly
