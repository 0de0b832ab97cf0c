SPECIFICATION FairSpec
CONSTANTS
    Objects = {"external"}
    External = {"external"}
    Failing = {}
    MaxRuns <- Twice
    MaxChildren = 1
    MaxPipes = 2
    SigCap = 1
PROPERTY EveryBatchEnds
