\* Another child of the program exits.
SPECIFICATION Spec
CONSTANTS
    c1 = c1
    o1 = o1
    Calls = {c1}
    Others = {o1}
    Streams = {"out"}
    MaxChunks = 1
    SigCap = 1
    ObjectOf <- OwnObjects
    Codes = {0}
    KillSignals = {}
    Broken = {}
    BrokenCodes = {}
    Daemons = {}
    Pausing = {}
    Fails = {}
    UserStops = {}
INVARIANT StoppedHasExited
