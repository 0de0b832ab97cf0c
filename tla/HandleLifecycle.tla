--------------------------- MODULE HandleLifecycle ---------------------------
(***************************************************************************)
(* What the states of proc_status promise to the user of a process handle, *)
(* whichever of the two engines runs it: a handle is STARTED at most once  *)
(* and only with a child, it ends in one of three states and stays there,  *)
(* its end is reported once, and it is STOPPED only when its child has     *)
(* been reaped, or an error was reported.  PexecMulti and PexecSingle      *)
(* implement it, so that the theorems at the end hold of both.             *)
(***************************************************************************)
EXTENDS Integers, TLAPS

CONSTANT Procs     \* the handles

VARIABLES
    state,    \* what state_cb_ was called with last, "NONE" before
    on_stop,  \* how often an end was reported
    child,    \* the child of the handle: none, running, zombie, reaped
    told      \* handles with a reported error

vars == <<state, on_stop, child, told>>

Final == {"STOPPED", "USER_STOPPED", "FAIL_STOPPED"}

Init == /\ state = [p \in Procs |-> "NONE"] /\ on_stop = [p \in Procs |-> 0]
        /\ child = [p \in Procs |-> "none"] /\ told = {}

Start(p) ==
    /\ state[p] = "NONE" /\ child[p] = "none"
    /\ state' = [state EXCEPT ![p] = "STARTED"]
    /\ child' = [child EXCEPT ![p] = "running"]
    /\ UNCHANGED <<on_stop, told>>

End(p, final) == /\ state' = [state EXCEPT ![p] = final]
                 /\ on_stop' = [on_stop EXCEPT ![p] = @ + 1]

MayTell(p) == told' \in {told, told \cup {p}}

FailToStart(p) ==
    /\ state[p] = "NONE"
    /\ End(p, "FAIL_STOPPED")
    /\ MayTell(p)
    /\ UNCHANGED child

ChildExits(p) ==
    /\ child[p] = "running"
    /\ child' = [child EXCEPT ![p] = "zombie"]
    /\ UNCHANGED <<state, on_stop, told>>

Reap(p) == /\ child[p] = "zombie"
           /\ child' = [child EXCEPT ![p] = "reaped"]

ReapOrTell(p) == /\ Reap(p) \/ UNCHANGED child
                 /\ MayTell(p)
                 /\ UNCHANGED <<state, on_stop>>

Stop(p) ==
    /\ state[p] = "STARTED"
    /\ End(p, "STOPPED")
    /\ Reap(p) \/ ((child[p] = "reaped" \/ p \in told) /\ UNCHANGED child)
    /\ MayTell(p)

GiveUp(p, final) ==
    /\ state[p] = "STARTED"
    /\ End(p, final)
    /\ MayTell(p)
    /\ UNCHANGED child

Next == \E p \in Procs :
            \/ Start(p) \/ FailToStart(p) \/ ChildExits(p) \/ ReapOrTell(p) \/ Stop(p)
            \/ GiveUp(p, "USER_STOPPED") \/ GiveUp(p, "FAIL_STOPPED")

Spec == Init /\ [][Next]_vars

-----------------------------------------------------------------------------
(* What the user of either engine may rely on.                             *)

\* Whatever ends a handle, its end is reported exactly once.
EndsOnce == \A p \in Procs : on_stop[p] = IF state[p] \in Final THEN 1 ELSE 0

\* STOPPED says that the child has been reaped, unless an error was reported too.
StoppedIsTold == \A p \in Procs : state[p] = "STOPPED" => child[p] = "reaped" \/ p \in told

\* A handle that has ended stays as it ended, one that has started is not started
\* again, and no child takes the place of another.
Onward(p) == /\ state[p] \in Final => state'[p] = state[p]
             /\ state[p] = "STARTED" => state'[p] # "NONE"
             /\ child[p] # "none" => child'[p] # "none"
             /\ child[p] \in {"zombie", "reaped"} => child'[p] \in {child[p], "reaped"}
NeverBack == [][\A p \in Procs : Onward(p)]_vars

\* The inductive invariant.
IInv == /\ state \in [Procs -> {"NONE", "STARTED"} \cup Final]
        /\ on_stop \in [Procs -> Nat]
        /\ child \in [Procs -> {"none", "running", "zombie", "reaped"}]
        /\ EndsOnce /\ StoppedIsTold

\* Every step of a handle or of its child keeps the invariant.
LEMMA NextIInv == IInv /\ [Next]_vars => IInv'
  <1> SUFFICES ASSUME IInv, [Next]_vars PROVE IInv'
    OBVIOUS
  <1> USE DEF IInv, EndsOnce, StoppedIsTold, Final
  <1>1. ASSUME NEW p \in Procs, Start(p) PROVE IInv'
    BY <1>1 DEF Start
  <1>2. ASSUME NEW p \in Procs, FailToStart(p) PROVE IInv'
    BY <1>2 DEF FailToStart, End, MayTell
  <1>3. ASSUME NEW p \in Procs, ChildExits(p) PROVE IInv'
    BY <1>3 DEF ChildExits
  <1>4. ASSUME NEW p \in Procs, ReapOrTell(p) PROVE IInv'
    BY <1>4 DEF ReapOrTell, Reap, MayTell
  <1>5. ASSUME NEW p \in Procs, Stop(p) PROVE IInv'
    BY <1>5 DEF Stop, End, Reap, MayTell
  <1>6. ASSUME NEW p \in Procs, NEW final \in Final \ {"STOPPED"}, GiveUp(p, final)
        PROVE  IInv'
    BY <1>6 DEF GiveUp, End, MayTell
  <1>7. CASE UNCHANGED vars
    BY <1>7 DEF vars
  <1> QED BY <1>1, <1>2, <1>3, <1>4, <1>5, <1>6, <1>7 DEF Next

\* It holds from the start.
LEMMA Inductive == Spec => []IInv
  <1>1. Init => IInv
    BY DEF Init, IInv, EndsOnce, StoppedIsTold, Final
  <1> QED BY <1>1, NextIInv, PTL DEF Spec

\* The end of a handle is reported once, whatever ends it.
THEOREM EndReportedOnce == Spec => []EndsOnce
  <1>1. IInv => EndsOnce
    BY DEF IInv
  <1> QED BY <1>1, Inductive, PTL

\* No handle is STOPPED over the head of its child without an error.
THEOREM StoppedMeansTold == Spec => []StoppedIsTold
  <1>1. IInv => StoppedIsTold
    BY DEF IInv
  <1> QED BY <1>1, Inductive, PTL

\* The states of a handle and of its child only go forward.
THEOREM OnlyOnward == Spec => NeverBack
  <1>1. IInv /\ [Next]_vars => [\A p \in Procs : Onward(p)]_vars
    <2> SUFFICES ASSUME IInv, Next, NEW p \in Procs PROVE Onward(p)
      BY DEF vars
    <2> USE DEF IInv, Onward, Final
    <2>1. ASSUME NEW q \in Procs, Start(q) PROVE Onward(p)
      BY <2>1 DEF Start
    <2>2. ASSUME NEW q \in Procs, FailToStart(q) PROVE Onward(p)
      BY <2>2 DEF FailToStart, End
    <2>3. ASSUME NEW q \in Procs, ChildExits(q) PROVE Onward(p)
      BY <2>3 DEF ChildExits
    <2>4. ASSUME NEW q \in Procs, ReapOrTell(q) PROVE Onward(p)
      BY <2>4 DEF ReapOrTell, Reap
    <2>5. ASSUME NEW q \in Procs, Stop(q) PROVE Onward(p)
      BY <2>5 DEF Stop, End, Reap
    <2>6. ASSUME NEW q \in Procs, NEW final \in Final, GiveUp(q, final) PROVE Onward(p)
      BY <2>6 DEF GiveUp, End
    <2> QED BY <2>1, <2>2, <2>3, <2>4, <2>5, <2>6 DEF Next
  <1> QED BY <1>1, Inductive, PTL DEF Spec, NeverBack
==============================================================================
