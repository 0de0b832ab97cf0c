---------------------------- MODULE MCPexecSingle ----------------------------
(* PexecSingle for TLC: which calls share a pexec<> object.                *)
EXTENDS PexecSingle

OneObject == [c \in Calls |-> "object"]
OwnObjects == [c \in Calls |-> c]     \* pexec::exec
==============================================================================
