SPECIFICATION FairSpec
CONSTANTS
    Objects = {"default", "external", "failing"}
    External = {"external"}
    Failing = {"failing","external"}
    MaxRuns <- Twice
    MaxChildren = 3
    MaxPipes = 6
    SigCap = 1
INVARIANT HandlerHasPipe
INVARIANT Armed
INVARIANT Restored
INVARIANT NoLostExit
INVARIANT IInv
PROPERTY BatchEnds
