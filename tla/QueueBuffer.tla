---------------------------- MODULE QueueBuffer ----------------------------
(***************************************************************************)
(* queue_buffer: a deque behind one mutex and one condition variable, on   *)
(* which add(), clear(), clear_add() and remove() all notify, and remove() *)
(* waits.  Threads that add or clear and threads that remove interleave    *)
(* between lock, check, copy, pop, unlock and notify.                      *)
(*                                                                         *)
(* size_ is the largest unsigned long: add() finds room and never waits.   *)
(* state(), which nobody calls, changes nothing and is left out.           *)
(***************************************************************************)
EXTENDS Sequences, Naturals

CONSTANTS
    Jobs,        \* the jobs, each added once
    NoJob,
    Callers,     \* threads that add and clear
    Loops,       \* threads that remove: pexec_multi has one
    MaxClears,   \* bound on calls of clear()
    MaxSpurious  \* bound on wake-ups without a notification

Threads == Callers \cup Loops

ASSUME QueueBufferAssumption ==
    /\ Callers \cap Loops = {}
    /\ NoJob \notin Jobs
    /\ MaxClears \in Nat /\ MaxSpurious \in Nat

VARIABLES
    buffer,      \* buffer_
    mu,          \* the thread that holds mu_, a set of at most one
    waiting,     \* threads asleep on cond_
    at,          \* where each thread is
    op,          \* the operation each of Callers is in
    job,         \* and its argument
    back,        \* remove()'s copy of the front
    left,        \* jobs not added yet
    clears, spurious

callVars == <<op, job, left, clears>>
vars == <<buffer, mu, waiting, at, callVars, back, spurious>>

Ops == {"add", "clear", "clear_add"}
Places == {"idle", "lock", "check", "front", "unlock", "notify", "asleep"}

Init ==
    /\ buffer = <<>> /\ mu = {} /\ waiting = {}
    /\ at = [t \in Threads |-> "idle"]
    /\ op = [t \in Callers |-> "add"] /\ job = [t \in Callers |-> NoJob]
    /\ back = [c \in Loops |-> NoJob]
    /\ left = Jobs /\ clears = 0 /\ spurious = 0

GoTo(t, place) == at' = [at EXCEPT ![t] = place]

-----------------------------------------------------------------------------

CallWith(t, o, j) ==
    /\ at[t] = "idle"
    /\ j \in left
    /\ op' = [op EXCEPT ![t] = o] /\ job' = [job EXCEPT ![t] = j]
    /\ left' = left \ {j}
    /\ GoTo(t, "lock")
    /\ UNCHANGED <<buffer, mu, waiting, back, clears, spurious>>

CallClear(t) ==
    /\ at[t] = "idle"
    /\ clears < MaxClears
    /\ clears' = clears + 1
    /\ op' = [op EXCEPT ![t] = "clear"]
    /\ GoTo(t, "lock")
    /\ UNCHANGED <<buffer, mu, waiting, back, job, left, spurious>>

CallRemove(c) ==
    /\ at[c] = "idle"
    /\ GoTo(c, "lock")
    /\ UNCHANGED <<buffer, mu, waiting, back, callVars, spurious>>

\* unique_lock, on entry and when cond_.wait() returns.
LockTaken(t) == TRUE
LockFree(t) == mu = {}

Lock(t) ==
    /\ at[t] = "lock" /\ LockFree(t)
    /\ mu' = {t}
    /\ GoTo(t, "check")
    /\ UNCHANGED <<buffer, waiting, back, callVars, spurious>>

\* What the operation of a caller makes of the deque.
Contents(t) == CASE op[t] = "add"       -> Append(buffer, job[t])
                 [] op[t] = "clear"     -> <<>>
                 [] op[t] = "clear_add" -> <<job[t]>>

Update(t) ==
    /\ at[t] = "check"
    /\ buffer' = Contents(t)
    /\ GoTo(t, "unlock")
    /\ UNCHANGED <<mu, waiting, back, callVars, spurious>>

\* cond_.wait() gives the mutex back and sleeps in one step.
Wait(c) ==
    /\ at[c] = "check"
    /\ buffer = <<>>
    /\ mu' = {}
    /\ waiting' = waiting \cup {c}
    /\ GoTo(c, "asleep")
    /\ UNCHANGED <<buffer, back, callVars, spurious>>

Front(c) ==
    /\ at[c] = "check"
    /\ buffer # <<>>
    /\ back' = [back EXCEPT ![c] = Head(buffer)]
    /\ GoTo(c, "front")
    /\ UNCHANGED <<buffer, mu, waiting, callVars, spurious>>

\* pop_front().
WithoutBack(jobs) == SubSeq(jobs, 1, Len(jobs) - 1)
WithoutFront(jobs) == Tail(jobs)

PopFront(c) ==
    /\ at[c] = "front"
    /\ buffer' = WithoutFront(buffer)
    /\ GoTo(c, "unlock")
    /\ UNCHANGED <<mu, waiting, back, callVars, spurious>>

Unlock(t) ==
    /\ at[t] = "unlock"
    /\ mu' = {}
    /\ GoTo(t, "notify")
    /\ UNCHANGED <<buffer, waiting, back, callVars, spurious>>

\* cond_.notify_one() wakes a thread that sleeps, if any; the call returns.
NotifyNone(t) == waiting' = waiting /\ GoTo(t, "idle")
NotifyOne(t) ==
    \/ waiting = {} /\ waiting' = waiting /\ GoTo(t, "idle")
    \/ \E w \in waiting : /\ waiting' = waiting \ {w}
                          /\ at' = [at EXCEPT ![w] = "lock", ![t] = "idle"]

Notify(t) ==
    /\ at[t] = "notify"
    /\ NotifyOne(t)
    /\ UNCHANGED <<buffer, mu, back, callVars, spurious>>

\* A condition variable may wake a thread that nobody has notified.
Spurious(c) ==
    /\ c \in waiting
    /\ spurious < MaxSpurious
    /\ spurious' = spurious + 1
    /\ waiting' = waiting \ {c}
    /\ GoTo(c, "lock")
    /\ UNCHANGED <<buffer, mu, back, callVars>>

\* Every loop sleeps on the empty queue, for as long as nobody calls.
Asleep ==
    /\ buffer = <<>> /\ waiting = Loops
    /\ UNCHANGED vars

-----------------------------------------------------------------------------

Progress(t) == \/ Lock(t) \/ Unlock(t) \/ Notify(t)
               \/ t \in Callers /\ Update(t)
               \/ t \in Loops /\ (CallRemove(t) \/ Wait(t) \/ Front(t) \/ PopFront(t))

Next == \/ \E t \in Threads : Progress(t)
        \/ \E t \in Callers, o \in {"add", "clear_add"}, j \in Jobs : CallWith(t, o, j)
        \/ \E t \in Callers : CallClear(t)
        \/ \E c \in Loops : Spurious(c)
        \/ Asleep

Spec == Init /\ [][Next]_vars

(* A thread inside the queue, or the loop that comes back to it, runs; no  *)
(* caller is obliged to call.                                              *)
Fairness == \A t \in Threads : WF_vars(Progress(t))

FairSpec == Spec /\ Fairness

-----------------------------------------------------------------------------
(* Properties the code is to have.                                         *)

\* Every variable keeps its type.
TypeOK ==
    /\ buffer \in Seq(Jobs)
    /\ mu \in SUBSET Threads
    /\ waiting \subseteq Loops
    /\ at \in [Threads -> Places]
    /\ op \in [Callers -> Ops]
    /\ job \in [Callers -> Jobs \cup {NoJob}]
    /\ back \in [Loops -> Jobs \cup {NoJob}]
    /\ left \subseteq Jobs
    /\ clears \in 0..MaxClears /\ spurious \in 0..MaxSpurious

\* The copy that remove() is about to return is still the front when it is popped.
CopyIsFront == \A c \in Loops : at[c] = "front" => buffer # <<>> /\ back[c] = Head(buffer)

\* No remove() sleeps on a queue that holds a job unless another thread is on its
\* way to the condition variable or to the queue: one notify_one() for each call is
\* enough, although those that wait are not told apart.
NoLostWakeup ==
    waiting # {} /\ buffer # <<>> =>
        \/ \E t \in Threads : at[t] \in {"unlock", "notify"}
        \/ \E c \in Loops : at[c] \in {"lock", "check", "front"}

\* A job in the queue is removed in the end, or cleared.
Drained == \A j \in Jobs : (\E i \in DOMAIN buffer : buffer[i] = j)
                           ~> ~(\E i \in DOMAIN buffer : buffer[i] = j)

-----------------------------------------------------------------------------
(* The abstract specification.                                             *)

\* The pop is the moment at which remove() takes the job.
Got == [c \in Loops |-> IF at[c] \in {"unlock", "notify"} THEN back[c] ELSE NoJob]

\* A job is on its way in with one caller, at one place of the queue, or on its way
\* out with one remove(): none is queued twice, and none is handed to two loops.
Carries(t, j) == at[t] \in {"lock", "check"} /\ op[t] # "clear" /\ job[t] = j
Carried(j) == \E t \in Callers : Carries(t, j)
Queued(j) == \E i \in 1..Len(buffer) : buffer[i] = j
Taken(j) == \E c \in Loops : Got[c] = j

JobInOnePlace ==
    \A j \in Jobs :
        /\ j \in left => ~Carried(j) /\ ~Queued(j) /\ ~Taken(j)
        /\ Carried(j) => ~Queued(j) /\ ~Taken(j)
        /\ Queued(j) => ~Taken(j)
        /\ \A t, u \in Callers : Carries(t, j) /\ Carries(u, j) => t = u
        /\ \A i, k \in 1..Len(buffer) : buffer[i] = j /\ buffer[k] = j => i = k
        /\ \A c, d \in Loops : Got[c] = j /\ Got[d] = j => c = d

Fifo == INSTANCE JobQueue WITH queue <- buffer, got <- Got

\* The steps of the threads add up to a first-in first-out queue.
ImplementsFifo == Fifo!Spec

-----------------------------------------------------------------------------
(* The inductive invariant of QueueBufferProofs.                           *)

\* The mutex is held from the check to the unlock, by one thread.
Holds(t) == at[t] \in {"check", "front", "unlock"}
MutualExclusion == \A t \in Threads : Holds(t) <=> mu = {t}

\* A thread is asleep when the condition variable has it; callers never are.
Sleepers == /\ \A c \in Loops : at[c] = "asleep" <=> c \in waiting
            /\ \A t \in Callers : at[t] \notin {"front", "asleep"}

\* The argument of the call in progress is a job.
Arguments == \A t \in Callers :
    at[t] \in {"lock", "check"} /\ op[t] # "clear" => job[t] \in Jobs

IInv == /\ TypeOK /\ MutualExclusion /\ Sleepers /\ Arguments
        /\ CopyIsFront /\ JobInOnePlace /\ NoLostWakeup
=============================================================================
