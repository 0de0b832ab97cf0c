---------------------------- MODULE SelectEvent ----------------------------
(***************************************************************************)
(* select_event::loop(), and what its callbacks do to it while it goes     *)
(* through the map of watches.  The map is unordered: which watch comes    *)
(* next is not known before the iterator gets there, and a watch that is   *)
(* added comes before or after the iterator.  An insertion that rehashes   *)
(* the map is the subject of PexecMulti, with Rehash.                      *)
(*                                                                         *)
(* The descriptor Wake is that of the loop's own pipe, always watched.     *)
(***************************************************************************)
EXTENDS Naturals

CONSTANTS
    Fds,        \* descriptor numbers
    Wake,
    MaxAdds,    \* bound on calls of add_read_event in callbacks
    MaxSkips    \* bound on the passes that a callback cuts short

ASSUME SelectEventAssumption ==
    Wake \in Fds /\ MaxAdds \in Nat /\ MaxSkips \in Nat

VARIABLES
    cbs,        \* domain of cbs_
    iter,       \* where actual_iterator_cbs_ is, {} at the end of the map
    ahead,      \* the watches behind it, which the pass has not come to
    deleted,    \* actual_iterator_deleted_
    read_fds,   \* bits that ::select left set
    current,    \* the watch whose callback runs
    added,      \* watches added in this pass
    ready,      \* descriptors with data
    pc, adds, skips

passVars == <<iter, ahead, deleted>>
vars == <<cbs, passVars, read_fds, current, added, ready, pc, adds, skips>>

Init ==
    /\ cbs \in SUBSET Fds /\ Wake \in cbs
    /\ iter = {} /\ ahead = {} /\ deleted = FALSE
    /\ read_fds = {} /\ current = {} /\ added = {} /\ ready = {}
    /\ pc = "select" /\ adds = 0 /\ skips = 0

-----------------------------------------------------------------------------
(* The iterator.                                                           *)

\* One of the watches of rest, or the end of the map when there is none.
MoveTo(rest) ==
    \/ rest = {} /\ iter' = {} /\ ahead' = {}
    \/ \E f \in rest : iter' = {f} /\ ahead' = rest \ {f}

\* Not incremented when it has moved on with the removal of its watch.
AlwaysIncrement == MoveTo(ahead) /\ deleted' = FALSE
FlagKept == IF deleted THEN UNCHANGED passVars ELSE MoveTo(ahead) /\ UNCHANGED deleted
Increment == IF deleted THEN deleted' = FALSE /\ UNCHANGED <<iter, ahead>>
             ELSE MoveTo(ahead) /\ UNCHANGED deleted

-----------------------------------------------------------------------------
(* The loop.                                                               *)

\* ::select, again for as long as a signal interrupts it.
Select ==
    /\ pc = "select"
    /\ cbs \cap ready # {}
    /\ read_fds' = cbs \cap ready
    /\ MoveTo(cbs)
    /\ added' = {}
    /\ pc' = "pass"
    /\ UNCHANGED <<cbs, deleted, current, ready, adds, skips>>

\* With another error on_select_error_ is called, and the loop ends.
SelectFails ==
    /\ pc = "select"
    /\ pc' = "ended"
    /\ UNCHANGED <<cbs, passVars, read_fds, current, added, ready, adds, skips>>

PassOver ==
    /\ pc = "pass"
    /\ iter # {} /\ iter \cap read_fds = {}
    /\ Increment
    /\ UNCHANGED <<cbs, read_fds, current, added, ready, pc, adds, skips>>

\* The callback reads what is there, or some of it.
Call(f) ==
    /\ pc = "pass"
    /\ f \in iter \cap read_fds
    /\ current' = {f}
    /\ ready' \in {ready, ready \ {f}}
    /\ pc' = "callback"
    /\ UNCHANGED <<cbs, passVars, read_fds, added, adds, skips>>

EndOfMap ==
    /\ pc = "pass"
    /\ iter = {}
    /\ pc' = "select"
    /\ UNCHANGED <<cbs, passVars, read_fds, current, added, ready, adds, skips>>

-----------------------------------------------------------------------------
(* What a callback does.                                                   *)

AddReadEvent(f) ==
    /\ pc = "callback"
    /\ f \notin cbs
    /\ adds < MaxAdds
    /\ adds' = adds + 1
    /\ cbs' = cbs \cup {f} /\ added' = added \cup {f}
    /\ ahead' \in IF iter = {} THEN {ahead} ELSE {ahead, ahead \cup {f}}
    /\ UNCHANGED <<iter, deleted, read_fds, current, ready, pc, skips>>

\* The erased iterator is replaced with the next one.
EraseOnly(f) == ahead' = ahead \ {f} /\ UNCHANGED <<iter, deleted>>
Erase(f) == IF f \in iter THEN deleted' = TRUE /\ MoveTo(ahead)
            ELSE ahead' = ahead \ {f} /\ UNCHANGED <<iter, deleted>>

Removable == cbs \ {Wake}

\* The pipe of a watch that is removed is closed.
RemoveReadEvent(f) ==
    /\ pc = "callback"
    /\ f \in Removable
    /\ cbs' = cbs \ {f} /\ added' = added \ {f}
    /\ Erase(f)
    /\ ready' = ready \ {f}
    /\ UNCHANGED <<read_fds, current, pc, adds, skips>>

Nothing ==
    /\ pc = "callback"
    /\ Increment
    /\ current' = {}
    /\ pc' = "pass"
    /\ UNCHANGED <<cbs, read_fds, added, ready, adds, skips>>

\* The callbacks that skip the others have removed no watch.
SkipOtherFd ==
    /\ pc = "callback"
    /\ ~deleted
    /\ skips < MaxSkips
    /\ skips' = skips + 1
    /\ current' = {} /\ iter' = {} /\ ahead' = {}
    /\ pc' = "select"
    /\ UNCHANGED <<cbs, deleted, read_fds, added, ready, adds>>

\* The flag is left as it is; the loop is not called again.
StopLoop ==
    /\ pc = "callback"
    /\ current' = {} /\ iter' = {} /\ ahead' = {}
    /\ pc' = "ended"
    /\ UNCHANGED <<cbs, deleted, read_fds, added, ready, adds, skips>>

-----------------------------------------------------------------------------

\* Data arrives; for Wake it is the byte of interrupt().
Arrive(f) ==
    /\ f \in cbs \ ready
    /\ ready' = ready \cup {f}
    /\ UNCHANGED <<cbs, passVars, read_fds, current, added, pc, adds, skips>>

Ended == pc = "ended" /\ UNCHANGED vars

Step == \/ Select \/ PassOver \/ EndOfMap \/ Nothing \/ SkipOtherFd \/ StopLoop
        \/ \E f \in Fds : Call(f)

Next == \/ Step \/ SelectFails \/ Ended
        \/ \E f \in Fds : AddReadEvent(f) \/ RemoveReadEvent(f) \/ Arrive(f)

Spec == Init /\ [][Next]_vars

(* The loop's thread runs, and every callback returns.                     *)
FairSpec == Spec /\ WF_vars(Step)

-----------------------------------------------------------------------------
(* Properties the code is to have.                                         *)

\* Every variable keeps its type.
TypeOK ==
    /\ cbs \subseteq Fds /\ Wake \in cbs
    /\ iter \in {{}} \cup {{f} : f \in Fds}
    /\ ahead \subseteq Fds
    /\ deleted \in BOOLEAN
    /\ read_fds \subseteq Fds /\ added \subseteq Fds /\ ready \subseteq Fds
    /\ current \in {{}} \cup {{f} : f \in Fds}
    /\ pc \in {"select", "pass", "callback", "ended"}
    /\ adds \in 0..MaxAdds /\ skips \in 0..MaxSkips

\* Whatever the callbacks remove, the iterator and what follows it are of the map.
IteratorValid == iter \subseteq cbs /\ ahead \subseteq cbs \ iter

\* A watch with data is served, unless it is removed or the loop ends.
Served == \A f \in Fds : f \in cbs \cap ready
                         ~> f \in current \/ f \notin cbs \/ pc = "ended"

-----------------------------------------------------------------------------
(* The abstract specification.                                             *)

Due == (read_fds \cap (ahead \cup (iter \ current))) \ added

Pass == INSTANCE SelectPass
        WITH watched <- cbs, due <- Due, calling <- current, phase <- pc

\* The iterator and its flag visit every watch that is due, and none twice.
ImplementsPass == Pass!Spec

-----------------------------------------------------------------------------
(* The inductive invariant of SelectEventProofs.                           *)

\* The iterator is at the watch whose callback runs, or that watch is gone and the
\* flag is up; a watch of its number is a new one.  Between callbacks it is down, unless the
\* loop has ended.
FlagTells ==
    /\ pc = "callback" <=> current # {}
    /\ pc = "callback" /\ ~deleted => iter = current
    /\ deleted /\ pc # "ended" => pc = "callback" /\ cbs \cap current \subseteq added

\* There is nothing ahead of the end, and no iterator outside of a pass.
AtTheEnd == /\ iter = {} => ahead = {}
            /\ pc \in {"select", "ended"} => iter = {}

IInv == TypeOK /\ IteratorValid /\ FlagTells /\ AtTheEnd /\ added \subseteq cbs
=============================================================================
