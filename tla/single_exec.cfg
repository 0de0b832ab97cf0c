\* One call's command cannot be executed, the other's need not exit; both may be
\* stopped and continued.  user_stop() on either, failures before and after the
\* handler is set and of the reset, and another child of the program.  The calls share
\* a pexec<> object; a call may never return.
SPECIFICATION FairSpec
CHECK_DEADLOCK FALSE
CONSTANTS
    c1 = c1
    c2 = c2
    o1 = o1
    Calls = {c1, c2}
    Others = {o1}
    Streams = {"out", "err"}
    MaxChunks = 2
    SigCap = 1
    ObjectOf <- OneObject
    Codes = {0, 100}
    KillSignals = {9}
    Broken = {c1}
    BrokenCodes = {106}
    Daemons = {c2}
    Pausing = {c1, c2}
    Fails = {"args", "pipes", "sigaction", "fork", "reset"}
    UserStops = {c1, c2}
INVARIANT StoppedOrTold
INVARIANT StatusTrue
INVARIANT ForkErrorsTold
INVARIANT ExitPending
INVARIANT HandlerRestored
INVARIANT IInv
PROPERTY ExitEnds
PROPERTY StopEnds
PROPERTY ImplementsLifecycle
