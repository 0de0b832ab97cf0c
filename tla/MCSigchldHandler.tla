-------------------------- MODULE MCSigchldHandler --------------------------
(* Values of MaxRuns for model-checking SigchldHandler.                    *)
EXTENDS SigchldHandler

Twice == [o \in Objects |-> 2]
=============================================================================
