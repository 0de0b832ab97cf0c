------------------------------ MODULE JobQueue ------------------------------
(***************************************************************************)
(* What queue_buffer promises to its callers: the jobs leave in the order  *)
(* in which they came, each to one caller of remove() (README, "processed  *)
(* in the same order as called").  QueueBuffer implements it, and          *)
(* PexecMulti, which does not clear its queue, OnwardSpec.                 *)
(***************************************************************************)
EXTENDS Sequences

CONSTANTS Jobs, Loops, NoJob

VARIABLES
    queue,     \* the jobs, the oldest first
    got        \* the job that a remove() about to return has taken

vars == <<queue, got>>

Init == queue = <<>> /\ got = [c \in Loops |-> NoJob]

Add(j) == queue' = Append(queue, j) /\ UNCHANGED got

Clear == queue' = <<>> /\ UNCHANGED got

ClearAdd(j) == queue' = <<j>> /\ UNCHANGED got

Take(c) == /\ got[c] = NoJob
           /\ queue # <<>>
           /\ got' = [got EXCEPT ![c] = Head(queue)]
           /\ queue' = Tail(queue)

Return(c) == got' = [got EXCEPT ![c] = NoJob] /\ UNCHANGED queue

\* What happens as long as no caller clears the queue: no job is dropped.
Onward == \/ \E j \in Jobs : Add(j)
          \/ \E c \in Loops : Take(c) \/ Return(c)

Next == \/ Onward
        \/ Clear
        \/ \E j \in Jobs : ClearAdd(j)

OnwardSpec == Init /\ [][Onward]_vars
Spec == Init /\ [][Next]_vars
=============================================================================
