------------------------- MODULE SelectEventProofs -------------------------
(***************************************************************************)
(* The pass of select_event keeps its iterator valid, and its promise, for *)
(* any descriptors, any order of the map and any callbacks that add and    *)
(* remove watches.                                                         *)
(***************************************************************************)
EXTENDS SelectEvent, TLAPS

USE SelectEventAssumption DEF vars, passVars

-----------------------------------------------------------------------------
(* The inductive invariant.                                                *)

\* An empty pass, before the first ::select, satisfies the invariant.
LEMMA InitIInv == Init => IInv
  <1> SUFFICES ASSUME Init PROVE IInv
    OBVIOUS
  <1>1. TypeOK
    <2>1. cbs \subseteq Fds /\ Wake \in cbs
      BY DEF Init
    <2>2. iter = {} /\ current = {} /\ ahead = {} /\ read_fds = {} /\ added = {} /\ ready = {}
      BY DEF Init
    <2>3. deleted \in BOOLEAN /\ pc \in {"select", "pass", "callback", "ended"}
      BY DEF Init
    <2>4. adds \in 0..MaxAdds /\ skips \in 0..MaxSkips
      BY DEF Init
    <2> QED BY <2>1, <2>2, <2>3, <2>4 DEF TypeOK
  <1>2. IteratorValid /\ FlagTells /\ AtTheEnd /\ added \subseteq cbs
    BY DEF Init, IteratorValid, FlagTells, AtTheEnd
  <1> QED BY <1>1, <1>2 DEF IInv

\* Every step of the loop, of a callback and of the kernel keeps it.
LEMMA NextIInv == IInv /\ [Next]_vars => IInv'
  <1> SUFFICES ASSUME IInv, [Next]_vars PROVE IInv'
    OBVIOUS
  <1> USE DEF IInv, TypeOK, IteratorValid, FlagTells, AtTheEnd
  <1>1. CASE Select
    BY <1>1 DEF Select, MoveTo
  <1>2. CASE SelectFails
    BY <1>2 DEF SelectFails
  <1>3. CASE PassOver
    BY <1>3 DEF PassOver, Increment, MoveTo
  <1>4. CASE EndOfMap
    BY <1>4 DEF EndOfMap
  <1>5. CASE Nothing
    <2>1. CASE deleted
      BY <1>5, <2>1 DEF Nothing, Increment
    <2>2. CASE ~deleted /\ ahead = {}
      BY <1>5, <2>2 DEF Nothing, Increment, MoveTo
    <2>3. CASE ~deleted /\ ahead # {}
      <3>1. PICK f \in ahead : iter' = {f} /\ ahead' = ahead \ {f}
        BY <1>5, <2>3 DEF Nothing, Increment, MoveTo
      <3> QED BY <1>5, <2>3, <3>1 DEF Nothing, Increment
    <2> QED BY <2>1, <2>2, <2>3
  <1>6. CASE SkipOtherFd
    BY <1>6 DEF SkipOtherFd
  <1>7. CASE StopLoop
    BY <1>7 DEF StopLoop
  <1>8. ASSUME NEW f \in Fds, Call(f) PROVE IInv'
    BY <1>8 DEF Call
  <1>9. ASSUME NEW f \in Fds, AddReadEvent(f) PROVE IInv'
    <2>1. ahead' = ahead \/ (iter # {} /\ ahead' = ahead \cup {f})
      BY <1>9 DEF AddReadEvent
    <2> QED BY <1>9, <2>1 DEF AddReadEvent
  <1>10. ASSUME NEW f \in Fds, RemoveReadEvent(f) PROVE IInv'
    <2>1. CASE f \in iter
      <3>1. iter = {f} /\ deleted' = TRUE /\ MoveTo(ahead)
        BY <1>10, <2>1 DEF RemoveReadEvent, Erase
      <3>2. iter' \cup ahead' = ahead /\ iter' \cap ahead' = {}
        BY <3>1 DEF MoveTo
      <3>3. iter' \in {{}} \cup {{g} : g \in Fds} /\ (iter' = {} => ahead' = {})
        BY <3>1 DEF MoveTo
      <3>4. cbs' \cap current \subseteq added'
        BY <1>10, <3>1 DEF RemoveReadEvent
      <3> QED BY <1>10, <3>1, <3>2, <3>3, <3>4 DEF RemoveReadEvent, Removable
    <2>2. CASE f \notin iter
      BY <1>10, <2>2 DEF RemoveReadEvent, Removable, Erase
    <2> QED BY <2>1, <2>2
  <1>11. ASSUME NEW f \in Fds, Arrive(f) PROVE IInv'
    BY <1>11 DEF Arrive
  <1>12. CASE Ended \/ UNCHANGED vars
    BY <1>12 DEF Ended
  <1> QED BY <1>1, <1>2, <1>3, <1>4, <1>5, <1>6, <1>7, <1>8, <1>9, <1>10, <1>11, <1>12
          DEF Next, Step

\* The inductive invariant holds for ever, for any number of descriptors.
THEOREM Inductive == Spec => []IInv
  BY InitIInv, NextIInv, PTL DEF Spec

\* The iterator never points at a watch that was removed.
THEOREM IteratorKept == Spec => []IteratorValid
  <1>1. IInv => IteratorValid
    BY DEF IInv
  <1> QED BY <1>1, Inductive, PTL

-----------------------------------------------------------------------------
(* The refinement.                                                         *)

\* A step from watch to watch passes over none that is due.
LEMMA PassOverStutters == ASSUME IInv, PassOver PROVE UNCHANGED Pass!vars
  <1> USE DEF IInv, TypeOK, IteratorValid, FlagTells, AtTheEnd
  <1>1. MoveTo(ahead) /\ current = {} /\ iter \cap read_fds = {}
    BY DEF PassOver, Increment
  <1>2. iter' \cup ahead' = ahead
    BY <1>1 DEF MoveTo
  <1>3. Due' = Due
    BY <1>1, <1>2 DEF PassOver, Due
  <1> QED BY <1>3 DEF PassOver, Pass!vars

\* When the callback returns, the pass is where the removals have left it.
LEMMA NothingReturns == ASSUME IInv, Nothing PROVE Pass!Return
  <1> USE DEF IInv, TypeOK, IteratorValid, FlagTells, AtTheEnd
  <1>1. CASE deleted
    <2>1. iter \cap current \subseteq added /\ current' = {}
          /\ UNCHANGED <<iter, ahead, read_fds, added>>
      BY <1>1 DEF Nothing, Increment
    <2>2. Due' = Due
      BY <2>1 DEF Due
    <2> QED BY <2>2 DEF Nothing, Pass!Return
  <1>2. CASE ~deleted
    <2>1. iter = current /\ iter' \cup ahead' = ahead /\ current' = {}
          /\ UNCHANGED <<read_fds, added>>
      BY <1>2 DEF Nothing, Increment, MoveTo
    <2>2. Due' = Due
      BY <2>1 DEF Due
    <2> QED BY <2>2 DEF Nothing, Pass!Return
  <1> QED BY <1>1, <1>2

\* The removal of a watch takes it, and no other, from those that are due.
LEMMA RemovalRemoves ==
    ASSUME IInv, NEW f \in Fds, RemoveReadEvent(f) PROVE Pass!Remove(f)
  <1> USE DEF IInv, TypeOK, IteratorValid, FlagTells, AtTheEnd
  <1>1. f \in cbs /\ cbs' = cbs \ {f} /\ added' = added \ {f}
        /\ UNCHANGED <<read_fds, current, pc>> /\ pc = "callback"
    BY DEF RemoveReadEvent, Removable
  <1>2. Due' = Due \ {f}
    <2>1. CASE f \in iter
      <3>1. iter = {f} /\ iter' \cup ahead' = ahead /\ f \notin ahead
        BY <2>1 DEF RemoveReadEvent, Erase, MoveTo
      <3>2. \A g \in current : g \in ahead => g \in added \/ g = f
        OBVIOUS
      <3> QED BY <1>1, <3>1, <3>2 DEF Due
    <2>2. CASE f \notin iter
      <3>1. iter' = iter /\ ahead' = ahead \ {f}
        BY <2>2 DEF RemoveReadEvent, Erase
      <3> QED BY <1>1, <2>2, <3>1 DEF Due
    <2> QED BY <2>1, <2>2
  <1> QED BY <1>1, <1>2 DEF Pass!Remove

\* Every pass over the map is one that SelectPass allows.
THEOREM PassImplemented == Spec => ImplementsPass
  <1>1. Init => Pass!Init
    BY DEF Init, Pass!Init, Due
  <1>2. IInv /\ [Next]_vars => [Pass!Next]_Pass!vars
    <2> SUFFICES ASSUME IInv, [Next]_vars PROVE Pass!Next \/ UNCHANGED Pass!vars
      OBVIOUS
    <2> USE DEF IInv, TypeOK, IteratorValid, FlagTells, AtTheEnd
    <2>1. CASE Select
      <3>1. current' = {} /\ iter' \cup ahead' = cbs /\ added' = {} /\ read_fds' \subseteq cbs
        BY <2>1 DEF Select, MoveTo
      <3>2. Due' = read_fds'
        BY <3>1 DEF Due
      <3>3. Pass!Select
        BY <2>1, <3>2 DEF Select, Pass!Select
      <3> QED BY <3>3 DEF Pass!Next
    <2>2. CASE SelectFails
      BY <2>2 DEF SelectFails, Pass!Next, Pass!Fail, Due
    <2>3. CASE PassOver
      BY <2>3, PassOverStutters
    <2>4. CASE EndOfMap
      <3>1. Due = {} /\ Due' = {}
        BY <2>4 DEF EndOfMap, Due
      <3> QED BY <2>4, <3>1 DEF EndOfMap, Pass!Next, Pass!EndPass
    <2>5. CASE Nothing
      BY <2>5, NothingReturns DEF Pass!Next
    <2>6. CASE SkipOtherFd \/ StopLoop
      <3>1. Due' = {}
        BY <2>6 DEF SkipOtherFd, StopLoop, Due
      <3> QED BY <2>6, <3>1 DEF SkipOtherFd, StopLoop, Pass!Next, Pass!Cut
    <2>7. ASSUME NEW f \in Fds, Call(f) PROVE Pass!Next
      <3>1. iter = {f} /\ f \in read_fds /\ current = {} /\ current' = {f} /\ f \notin ahead
        BY <2>7 DEF Call
      <3>2. Due' = Due \ {f} /\ (f \in Due \/ f \in added)
        BY <2>7, <3>1 DEF Call, Due
      <3>3. Pass!Call(f)
        BY <2>7, <3>2 DEF Call, Pass!Call
      <3> QED BY <3>3 DEF Pass!Next
    <2>8. ASSUME NEW f \in Fds, AddReadEvent(f) PROVE Pass!Next
      <3>1. ahead' \ {f} = ahead /\ f \notin ahead /\ f \notin iter /\ added' = added \cup {f}
        BY <2>8 DEF AddReadEvent
      <3>2. Due' = Due
        BY <2>8, <3>1 DEF AddReadEvent, Due
      <3>3. Pass!Add(f)
        BY <2>8, <3>2 DEF AddReadEvent, Pass!Add
      <3> QED BY <3>3 DEF Pass!Next
    <2>9. ASSUME NEW f \in Fds, RemoveReadEvent(f) PROVE Pass!Next
      BY <2>9, RemovalRemoves DEF Pass!Next
    <2>10. ASSUME NEW f \in Fds, Arrive(f) PROVE UNCHANGED Pass!vars
      BY <2>10 DEF Arrive, Pass!vars, Due
    <2>11. CASE Ended \/ UNCHANGED vars
      BY <2>11 DEF Ended, Pass!vars, Due
    <2> QED BY <2>1, <2>2, <2>3, <2>4, <2>5, <2>6, <2>7, <2>8, <2>9, <2>10, <2>11
            DEF Next, Step
  <1> QED BY <1>1, <1>2, Inductive, PTL DEF Spec, ImplementsPass, Pass!Spec
=============================================================================
