----------------------------- MODULE SelectPass -----------------------------
(***************************************************************************)
(* What a pass of select_event::loop() promises: after ::select the        *)
(* callback of every watch it found readable is called once, unless the    *)
(* watch is removed before or a callback cuts the pass short.  A watch     *)
(* that is added during the pass may have the number of one that was       *)
(* found readable, and be called on its behalf.                            *)
(***************************************************************************)
CONSTANT Fds

VARIABLES
    watched,   \* descriptors with a callback
    due,       \* those whose callback the pass owes
    added,     \* those watched since ::select
    calling,   \* the one whose callback runs, a set of at most one
    phase

vars == <<watched, due, added, calling, phase>>

Init == /\ watched \in SUBSET Fds
        /\ due = {} /\ added = {} /\ calling = {} /\ phase = "select"

Select == /\ phase = "select" /\ phase' = "pass"
          /\ due' \in SUBSET watched /\ due' # {}
          /\ added' = {}
          /\ UNCHANGED <<watched, calling>>

Call(f) == /\ phase = "pass" /\ phase' = "callback"
           /\ f \in due \/ f \in added
           /\ due' = due \ {f} /\ calling' = {f}
           /\ UNCHANGED <<watched, added>>

Add(f) == /\ phase = "callback" /\ f \notin watched
          /\ watched' = watched \cup {f} /\ added' = added \cup {f}
          /\ UNCHANGED <<due, calling, phase>>

Remove(f) == /\ phase = "callback" /\ f \in watched
             /\ watched' = watched \ {f}
             /\ due' = due \ {f} /\ added' = added \ {f}
             /\ UNCHANGED <<calling, phase>>

Return == /\ phase = "callback" /\ phase' = "pass"
          /\ calling' = {}
          /\ UNCHANGED <<watched, due, added>>

Cut(next) == /\ phase = "callback" /\ phase' = next
             /\ due' = {} /\ calling' = {}
             /\ UNCHANGED <<watched, added>>

EndPass == /\ phase = "pass" /\ phase' = "select"
           /\ due = {}
           /\ UNCHANGED <<watched, due, added, calling>>

Fail == /\ phase = "select" /\ phase' = "ended"
        /\ UNCHANGED <<watched, due, added, calling>>

Next == \/ Select \/ Return \/ EndPass \/ Fail \/ Cut("select") \/ Cut("ended")
        \/ \E f \in Fds : Call(f) \/ Add(f) \/ Remove(f)

Spec == Init /\ [][Next]_vars
=============================================================================
