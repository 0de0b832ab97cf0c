SPECIFICATION FairSpec
CONSTANTS
    Jobs = {j1, j2}
    NoJob = none
    Callers = {p, q}
    Loops = {a, b}
    MaxClears = 1
    MaxSpurious = 1
INVARIANT JobInOnePlace
INVARIANT NoLostWakeup
INVARIANT IInv
PROPERTY ImplementsFifo
PROPERTY Drained
