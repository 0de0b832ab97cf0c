------------------------- MODULE QueueBufferProofs -------------------------
(***************************************************************************)
(* queue_buffer is a first-in first-out queue and loses no wake-up, for    *)
(* any threads and jobs.  IInv is kept in three parts: the mutex and what  *)
(* it protects (SafeStep), where each job is (PlaceStep), and the          *)
(* notifications (WakeStep).                                               *)
(***************************************************************************)
EXTENDS QueueBuffer, TLAPS

USE QueueBufferAssumption DEF vars, callVars, WithoutFront

Safe == TypeOK /\ MutualExclusion /\ Sleepers /\ Arguments /\ CopyIsFront

-----------------------------------------------------------------------------
(* The mutex.                                                              *)

\* A queue with a job has a front, and stays a queue without it.
LEMMA Popped ==
    ASSUME NEW s \in Seq(Jobs), s # <<>>
    PROVE  Head(s) \in Jobs /\ Tail(s) \in Seq(Jobs)
  OBVIOUS

\* What an operation makes of the queue is a queue of jobs.
LEMMA ContentsType ==
    ASSUME TypeOK, Arguments, NEW t \in Callers, at[t] = "check"
    PROVE  Contents(t) \in Seq(Jobs)
  <1> USE DEF TypeOK, Arguments
  <1>1. op[t] \in Ops
    OBVIOUS
  <1>2. CASE op[t] = "clear"
    BY <1>2 DEF Contents
  <1>3. CASE op[t] # "clear"
    <2>1. job[t] \in Jobs
      BY <1>3
    <2>2. Append(buffer, job[t]) \in Seq(Jobs) /\ <<job[t]>> \in Seq(Jobs)
      BY <2>1
    <2> QED BY <1>1, <1>3, <2>2 DEF Contents, Ops
  <1> QED BY <1>2, <1>3

\* Whoever has the mutex keeps everyone else out until it gives it back.
LEMMA SafeStep == Safe /\ [Next]_vars => Safe'
  <1> SUFFICES ASSUME Safe, [Next]_vars PROVE Safe'
    OBVIOUS
  <1> USE DEF Safe, TypeOK, MutualExclusion, Sleepers, Arguments, CopyIsFront, Holds,
              Places, GoTo, Threads
  <1>1. ASSUME NEW t \in Callers, NEW o \in {"add", "clear_add"}, NEW j \in Jobs,
               CallWith(t, o, j)
        PROVE  Safe'
    BY <1>1 DEF CallWith, Ops
  <1>2. ASSUME NEW t \in Callers, CallClear(t) PROVE Safe'
    BY <1>2 DEF CallClear, Ops
  <1>3. ASSUME NEW c \in Loops, CallRemove(c) PROVE Safe'
    BY <1>3 DEF CallRemove
  <1>4. ASSUME NEW t \in Threads, Lock(t) PROVE Safe'
    BY <1>4 DEF Lock, LockFree
  <1>5. ASSUME NEW t \in Callers, Update(t) PROVE Safe'
    <2>1. buffer' \in Seq(Jobs)
      BY <1>5, ContentsType DEF Update
    <2>2. \A c \in Loops : at[c] # "front"
      BY <1>5 DEF Update
    <2> QED BY <1>5, <2>1, <2>2 DEF Update
  <1>6. ASSUME NEW c \in Loops, Wait(c) PROVE Safe'
    BY <1>6 DEF Wait
  <1>7. ASSUME NEW c \in Loops, Front(c) PROVE Safe'
    <2>1. Head(buffer) \in Jobs
      BY <1>7, Popped DEF Front
    <2>2. TypeOK' /\ MutualExclusion' /\ Sleepers' /\ Arguments'
      BY <1>7, <2>1 DEF Front
    <2>3. \A d \in Loops \ {c} : at'[d] # "front"
      BY <1>7 DEF Front
    <2>4. back'[c] = Head(buffer') /\ buffer' # <<>>
      BY <1>7 DEF Front
    <2>5. CopyIsFront'
      BY <2>3, <2>4
    <2> QED BY <2>2, <2>5
  <1>8. ASSUME NEW c \in Loops, PopFront(c) PROVE Safe'
    <2>1. buffer' \in Seq(Jobs)
      BY <1>8, Popped DEF PopFront
    <2>2. \A d \in Loops : at'[d] # "front"
      <3>1. mu = {c} /\ at' = [at EXCEPT ![c] = "unlock"]
        BY <1>8 DEF PopFront
      <3>2. \A d \in Loops : at[d] = "front" => d = c
        BY <3>1
      <3> QED BY <3>1, <3>2
    <2> QED BY <1>8, <2>1, <2>2 DEF PopFront
  <1>9. ASSUME NEW t \in Threads, Unlock(t) PROVE Safe'
    BY <1>9 DEF Unlock
  <1>10. ASSUME NEW t \in Threads, Notify(t) PROVE Safe'
    <2>1. CASE waiting' = waiting /\ at' = [at EXCEPT ![t] = "idle"]
      BY <1>10, <2>1 DEF Notify
    <2>2. ASSUME NEW w \in waiting, waiting' = waiting \ {w},
                 at' = [at EXCEPT ![w] = "lock", ![t] = "idle"]
          PROVE  Safe'
      <3>1. w \in Loops /\ at[w] = "asleep" /\ w # t /\ at[t] = "notify"
        BY <1>10, <2>2 DEF Notify
      <3>2. UNCHANGED <<buffer, mu, back, callVars, spurious>>
        BY <1>10 DEF Notify
      <3>3. /\ at' \in [Threads -> Places] /\ waiting' \subseteq Loops
            /\ \A u \in Threads : at'[u] = IF u = t THEN "idle"
                                          ELSE IF u = w THEN "lock" ELSE at[u]
        BY <2>2, <3>1
      <3>4. TypeOK'
        BY <3>2, <3>3
      <3>5. MutualExclusion'
        BY <3>1, <3>2, <3>3
      <3>6. Sleepers'
        BY <2>2, <3>1, <3>3
      <3>7. Arguments'
        BY <3>1, <3>2, <3>3
      <3>8. CopyIsFront'
        BY <3>1, <3>2, <3>3
      <3> QED BY <3>4, <3>5, <3>6, <3>7, <3>8
    <2> QED BY <1>10, <2>1, <2>2 DEF Notify, NotifyOne
  <1>11. ASSUME NEW c \in Loops, Spurious(c) PROVE Safe'
    BY <1>11 DEF Spurious
  <1>12. CASE Asleep \/ UNCHANGED vars
    BY <1>12 DEF Asleep
  <1> HIDE DEF Safe
  <1>13. ASSUME NEW t \in Threads, Progress(t) PROVE Safe'
    BY <1>3, <1>4, <1>5, <1>6, <1>7, <1>8, <1>9, <1>10, <1>13 DEF Progress
  <1> QED BY <1>1, <1>2, <1>11, <1>12, <1>13 DEF Next

-----------------------------------------------------------------------------
(* Where the jobs are.                                                     *)

\* The steps that move no job leave its places alone.
LEMMA PlaceKept ==
    ASSUME JobInOnePlace, left' = left, buffer' = buffer, Got' = Got,
           \A t \in Callers, j \in Jobs : Carries(t, j)' <=> Carries(t, j)
    PROVE  JobInOnePlace'
  BY DEF JobInOnePlace, Carried, Queued, Taken

\* A step that puts no remove() behind its pop and takes none away from there
\* changes nothing that the queue promises.
LEMMA GotKept ==
    ASSUME Safe, back' = back,
           \A c \in Loops : (at'[c] \in {"unlock", "notify"}) = (at[c] \in {"unlock", "notify"})
    PROVE  Got' = Got
  BY DEF Got

\* A remove() that is not at its pop may copy without its being noticed.
LEMMA FrontStutters == ASSUME Safe, NEW c \in Loops, Front(c) PROVE UNCHANGED Fifo!vars
  <1> USE DEF Safe, TypeOK, GoTo, Threads
  <1>1. /\ at[c] = "check" /\ at' = [at EXCEPT ![c] = "front"] /\ buffer' = buffer
        /\ \A d \in Loops \ {c} : back'[d] = back[d] /\ at'[d] = at[d]
    BY DEF Front
  <1>2. Got' = Got
    BY <1>1 DEF Got
  <1> QED BY <1>1, <1>2 DEF Fifo!vars

\* The pop takes the job at the head of the queue.
LEMMA PopTakes == ASSUME Safe, NEW c \in Loops, PopFront(c) PROVE Fifo!Take(c)
  <1> USE DEF Safe, TypeOK, GoTo, Threads, CopyIsFront
  <1>1. /\ at[c] = "front" /\ at' = [at EXCEPT ![c] = "unlock"]
        /\ buffer # <<>> /\ back[c] = Head(buffer) /\ back' = back
        /\ buffer' = Tail(buffer)
    BY DEF PopFront
  <1>2. Got[c] = NoJob /\ Got'[c] = Head(buffer)
    BY <1>1 DEF Got
  <1>3. Got' = [Got EXCEPT ![c] = Head(buffer)]
    BY <1>1, <1>2 DEF Got
  <1> QED BY <1>1, <1>2, <1>3 DEF Fifo!Take

\* The end of a call hands the job over, if it was a remove().
LEMMA NotifyReturns ==
    ASSUME Safe, NEW t \in Threads, Notify(t)
    PROVE  UNCHANGED Fifo!vars \/ (t \in Loops /\ Fifo!Return(t))
  <1> USE DEF Safe, TypeOK, GoTo, Threads, Sleepers
  <1>1. /\ at[t] = "notify" /\ at'[t] = "idle" /\ buffer' = buffer /\ back' = back
        /\ \A d \in Loops \ {t} : \/ at'[d] = at[d]
                                  \/ at[d] = "asleep" /\ at'[d] = "lock"
    BY DEF Notify, NotifyOne
  <1>2. CASE t \in Loops
    BY <1>1, <1>2 DEF Got, Fifo!Return
  <1>3. CASE t \notin Loops
    BY <1>1, <1>3, GotKept DEF Fifo!vars
  <1> QED BY <1>2, <1>3

\* A job goes from the caller that brings it to the queue, and from there to the one
\* remove() that pops it, or is cleared.
LEMMA PlaceStep == Safe /\ JobInOnePlace /\ [Next]_vars => JobInOnePlace'
  <1> SUFFICES ASSUME Safe, JobInOnePlace, [Next]_vars PROVE JobInOnePlace'
    OBVIOUS
  <1> USE DEF Safe, TypeOK, Sleepers, GoTo, Threads
  <1>1. ASSUME NEW t \in Callers, NEW o \in {"add", "clear_add"}, NEW j \in Jobs,
               CallWith(t, o, j)
        PROVE  JobInOnePlace'
    <2>1. /\ j \in left /\ left' = left \ {j} /\ buffer' = buffer /\ at[t] = "idle"
          /\ \A u \in Callers, k \in Jobs :
                 Carries(u, k)' <=> IF u = t THEN k = j ELSE Carries(u, k)
      BY <1>1 DEF CallWith, Carries
    <2>2. Got' = Got
      BY <1>1, GotKept DEF CallWith
    <2>3. \A k \in Jobs : ~Carries(t, k)
      BY <2>1 DEF Carries
    <2>4. \A k \in Jobs : Carried(k)' <=> k = j \/ Carried(k)
      BY <2>1, <2>3 DEF Carried
    <2> QED BY <2>1, <2>2, <2>3, <2>4 DEF JobInOnePlace, Carried, Queued, Taken
  <1>2. ASSUME NEW t \in Callers, CallClear(t) PROVE JobInOnePlace'
    <2>1. left' = left /\ buffer' = buffer
      BY <1>2 DEF CallClear
    <2>2. Got' = Got
      BY <1>2, GotKept DEF CallClear
    <2>3. \A u \in Callers, k \in Jobs : Carries(u, k)' <=> Carries(u, k)
      BY <1>2 DEF CallClear, Carries
    <2> QED BY <2>1, <2>2, <2>3, PlaceKept
  <1>3. ASSUME NEW t \in Threads, Lock(t) PROVE JobInOnePlace'
    <2>1. left' = left /\ buffer' = buffer
      BY <1>3 DEF Lock
    <2>2. Got' = Got
      BY <1>3, GotKept DEF Lock
    <2>3. \A u \in Callers, k \in Jobs : Carries(u, k)' <=> Carries(u, k)
      BY <1>3 DEF Lock, Carries
    <2> QED BY <2>1, <2>2, <2>3, PlaceKept
  <1>4. ASSUME NEW t \in Callers, Update(t) PROVE JobInOnePlace'
    <2>1. /\ left' = left /\ buffer' = Contents(t) /\ at[t] = "check" /\ op[t] \in Ops
          /\ \A u \in Callers, k \in Jobs :
                 Carries(u, k)' <=> u # t /\ Carries(u, k)
      BY <1>4 DEF Update, Carries
    <2>2. Got' = Got
      BY <1>4, GotKept DEF Update
    <2>3. op[t] # "clear" => job[t] \in Jobs /\ Carries(t, job[t])
      BY <2>1 DEF Arguments, Carries
    <2>4. CASE op[t] = "clear"
      <3>1. buffer' = <<>>
        BY <2>1, <2>4 DEF Contents
      <3> QED BY <2>1, <2>2, <3>1 DEF JobInOnePlace, Carried, Queued, Taken
    <2>5. CASE op[t] # "clear"
      <3> DEFINE j == job[t]
      <3>1. j \in Jobs /\ Carries(t, j) /\ Len(buffer) \in Nat
        BY <2>3, <2>5
      <3>2. j \notin left /\ ~Queued(j) /\ ~Taken(j) /\ \A u \in Callers \ {t} : ~Carries(u, j)
        BY <3>1 DEF JobInOnePlace, Carried
      <3>3. /\ \A i \in 1..Len(buffer') : buffer'[i] = j \/ \E k \in 1..Len(buffer) : buffer'[i] = buffer[k]
            /\ \A i, k \in 1..Len(buffer') : buffer'[i] = buffer'[k] =>
                    \/ i = k
                    \/ i \in 1..Len(buffer) /\ k \in 1..Len(buffer) /\ buffer[i] = buffer[k]
                       /\ buffer'[i] = buffer[i]
        <4>1. CASE op[t] = "add"
          <5>1. buffer' = Append(buffer, j)
            BY <2>1, <4>1 DEF Contents
          <5>2. /\ Len(buffer') = Len(buffer) + 1 /\ buffer'[Len(buffer) + 1] = j
                /\ \A i \in 1..Len(buffer) : buffer'[i] = buffer[i]
            BY <3>1, <5>1
          <5>3. \A i \in 1..Len(buffer) : buffer[i] # j
            BY <3>2 DEF Queued
          <5> QED BY <3>1, <5>2, <5>3
        <4>2. CASE op[t] = "clear_add"
          <5>1. buffer' = <<j>>
            BY <2>1, <4>2 DEF Contents
          <5> QED BY <5>1
        <4> QED BY <2>1, <2>5, <4>1, <4>2 DEF Ops
      <3>4. \A k \in Jobs : Queued(k)' => k = j \/ Queued(k)
        BY <3>3 DEF Queued
      <3>5. \A k \in Jobs : Carried(k)' => k # j /\ Carried(k)
        BY <2>1, <3>2 DEF Carried
      <3>6. \A k \in Jobs : Taken(k)' <=> Taken(k)
        BY <2>2 DEF Taken
      <3> HIDE DEF j
      <3> QED BY <2>1, <2>2, <3>2, <3>3, <3>4, <3>5, <3>6 DEF JobInOnePlace
    <2> QED BY <2>4, <2>5
  <1>5. ASSUME NEW c \in Loops, CallRemove(c) \/ Wait(c) \/ Spurious(c) PROVE JobInOnePlace'
    <2>1. left' = left /\ buffer' = buffer
      BY <1>5 DEF CallRemove, Wait, Spurious
    <2>2. Got' = Got
      BY <1>5, GotKept DEF CallRemove, Wait, Spurious
    <2>3. \A u \in Callers, k \in Jobs : Carries(u, k)' <=> Carries(u, k)
      BY <1>5 DEF CallRemove, Wait, Spurious, Carries
    <2> QED BY <2>1, <2>2, <2>3, PlaceKept
  <1>6. ASSUME NEW c \in Loops, Front(c) PROVE JobInOnePlace'
    <2>1. left' = left /\ buffer' = buffer
      BY <1>6 DEF Front
    <2>2. Got' = Got
      BY <1>6, FrontStutters DEF Fifo!vars
    <2>3. \A u \in Callers, k \in Jobs : Carries(u, k)' <=> Carries(u, k)
      BY <1>6 DEF Front, Carries
    <2> QED BY <2>1, <2>2, <2>3, PlaceKept
  <1>7. ASSUME NEW c \in Loops, PopFront(c) PROVE JobInOnePlace'
    <2>1. left' = left /\ buffer' = Tail(buffer) /\ buffer # <<>>
      BY <1>7 DEF PopFront, CopyIsFront
    <2>2. Len(buffer) \in Nat /\ Head(buffer) = buffer[1] /\ 1 \in 1..Len(buffer)
      BY <2>1
    <2>3. \A i \in 1..Len(buffer') : i + 1 \in 2..Len(buffer) /\ buffer'[i] = buffer[i + 1]
      BY <2>1
    <2>4. Got' = [Got EXCEPT ![c] = buffer[1]] /\ buffer[1] \in Jobs
      BY <1>7, <2>1, <2>2, PopTakes DEF Fifo!Take
    <2>5. \A u \in Callers, k \in Jobs : Carries(u, k)' <=> Carries(u, k)
      BY <1>7 DEF PopFront, Carries
    <2>6. Queued(buffer[1]) /\ \A k \in Jobs : Queued(k)' => Queued(k) /\ k # buffer[1]
      BY <2>2, <2>3, <2>4 DEF Queued, JobInOnePlace
    <2>7. \A k \in Jobs : Taken(k)' => Taken(k) \/ k = buffer[1]
      BY <2>4 DEF Taken, Got
    <2>8. \A k \in Jobs : Carried(k)' <=> Carried(k)
      BY <2>5 DEF Carried
    <2>9. \A k \in Jobs, i, m \in 1..Len(buffer') : buffer'[i] = k /\ buffer'[m] = k => i = m
      <3> SUFFICES ASSUME NEW k \in Jobs, NEW i \in 1..Len(buffer'), NEW m \in 1..Len(buffer'),
                          buffer'[i] = k, buffer'[m] = k
                   PROVE  i = m
        OBVIOUS
      <3>1. /\ i + 1 \in 1..Len(buffer) /\ buffer[i + 1] = k
            /\ m + 1 \in 1..Len(buffer) /\ buffer[m + 1] = k
        BY <2>2, <2>3
      <3>2. i + 1 = m + 1
        BY <3>1 DEF JobInOnePlace
      <3> QED BY <3>2
    <2>10. \A k \in Jobs, d, e \in Loops : Got'[d] = k /\ Got'[e] = k => d = e
      <3>1. \A d \in Loops : Got[d] # buffer[1]
        BY <2>4, <2>6 DEF JobInOnePlace, Taken
      <3>2. \A d \in Loops : Got'[d] = IF d = c THEN buffer[1] ELSE Got[d]
        BY <2>4 DEF Got
      <3>3. \A k \in Jobs, d, e \in Loops : Got[d] = k /\ Got[e] = k => d = e
        BY DEF JobInOnePlace
      <3> QED BY <3>1, <3>2, <3>3
    <2> QED BY <2>1, <2>4, <2>5, <2>6, <2>7, <2>8, <2>9, <2>10 DEF JobInOnePlace
  <1>8. ASSUME NEW t \in Threads, Unlock(t) PROVE JobInOnePlace'
    <2>1. left' = left /\ buffer' = buffer
      BY <1>8 DEF Unlock
    <2>2. Got' = Got
      BY <1>8, GotKept DEF Unlock
    <2>3. \A u \in Callers, k \in Jobs : Carries(u, k)' <=> Carries(u, k)
      BY <1>8 DEF Unlock, Carries
    <2> QED BY <2>1, <2>2, <2>3, PlaceKept
  <1>9. ASSUME NEW t \in Threads, Notify(t) PROVE JobInOnePlace'
    <2>1. left' = left /\ buffer' = buffer
      BY <1>9 DEF Notify
    <2>2. \A u \in Callers, k \in Jobs : Carries(u, k)' <=> Carries(u, k)
      BY <1>9 DEF Notify, NotifyOne, Carries
    <2>3. \A d \in Loops : Got'[d] \in {Got[d], NoJob}
      BY <1>9, NotifyReturns DEF Fifo!vars, Fifo!Return, Got
    <2> QED BY <2>1, <2>2, <2>3 DEF JobInOnePlace, Carried, Queued, Taken
  <1>10. CASE Asleep \/ UNCHANGED vars
    BY <1>10, PlaceKept DEF Asleep, Carries, Got
  <1> HIDE DEF Safe, TypeOK, Sleepers, GoTo, Threads
  <1>11. ASSUME NEW t \in Threads, Progress(t) PROVE JobInOnePlace'
    BY <1>3, <1>4, <1>5, <1>6, <1>7, <1>8, <1>9, <1>11 DEF Progress
  <1> QED BY <1>1, <1>2, <1>5, <1>10, <1>11 DEF Next

-----------------------------------------------------------------------------
(* The notifications.                                                      *)

\* Whoever leaves a job in the queue is on its way to notify a thread that sleeps,
\* or has notified one that is on its way to the queue.
LEMMA WakeStep == Safe /\ NoLostWakeup /\ [Next]_vars => NoLostWakeup'
  <1> SUFFICES ASSUME Safe, NoLostWakeup, [Next]_vars PROVE NoLostWakeup'
    OBVIOUS
  <1> USE DEF Safe, TypeOK, MutualExclusion, Sleepers, NoLostWakeup, Holds, GoTo, Threads
  <1>1. ASSUME NEW t \in Callers, NEW o \in {"add", "clear_add"}, NEW j \in Jobs,
               CallWith(t, o, j)
        PROVE  NoLostWakeup'
    BY <1>1 DEF CallWith
  <1>2. ASSUME NEW t \in Callers, CallClear(t) PROVE NoLostWakeup'
    BY <1>2 DEF CallClear
  <1>3. ASSUME NEW c \in Loops, CallRemove(c) PROVE NoLostWakeup'
    BY <1>3 DEF CallRemove
  <1>4. ASSUME NEW t \in Threads, Lock(t) PROVE NoLostWakeup'
    BY <1>4 DEF Lock
  <1>5. ASSUME NEW t \in Callers, Update(t) PROVE NoLostWakeup'
    BY <1>5 DEF Update
  <1>6. ASSUME NEW c \in Loops, Wait(c) PROVE NoLostWakeup'
    BY <1>6 DEF Wait
  <1>7. ASSUME NEW c \in Loops, Front(c) PROVE NoLostWakeup'
    BY <1>7 DEF Front
  <1>8. ASSUME NEW c \in Loops, PopFront(c) PROVE NoLostWakeup'
    BY <1>8 DEF PopFront
  <1>9. ASSUME NEW t \in Threads, Unlock(t) PROVE NoLostWakeup'
    BY <1>9 DEF Unlock
  <1>10. ASSUME NEW t \in Threads, Notify(t) PROVE NoLostWakeup'
    <2>1. CASE waiting = {}
      BY <1>10, <2>1 DEF Notify, NotifyOne
    <2>2. ASSUME NEW w \in waiting, waiting' = waiting \ {w},
                 at' = [at EXCEPT ![w] = "lock", ![t] = "idle"]
          PROVE  NoLostWakeup'
      <3>1. w \in Loops /\ w # t
        BY <1>10, <2>2 DEF Notify
      <3>2. at'[w] = "lock"
        BY <2>2, <3>1
      <3> QED BY <3>1, <3>2
    <2> QED BY <1>10, <2>1, <2>2 DEF Notify, NotifyOne
  <1>11. ASSUME NEW c \in Loops, Spurious(c) PROVE NoLostWakeup'
    BY <1>11 DEF Spurious
  <1>12. CASE Asleep \/ UNCHANGED vars
    BY <1>12 DEF Asleep
  <1> QED BY <1>1, <1>2, <1>3, <1>4, <1>5, <1>6, <1>7, <1>8, <1>9, <1>10, <1>11, <1>12
          DEF Next, Progress

-----------------------------------------------------------------------------
(* The inductive invariant, and what follows from it.                      *)

\* An empty queue with no thread in it satisfies the invariant.
LEMMA InitIInv == Init => IInv
  BY DEF Init, IInv, TypeOK, MutualExclusion, Sleepers, Arguments, CopyIsFront,
         JobInOnePlace, Carried, Carries, Queued, Taken, Got, NoLostWakeup, Holds, Places,
         Ops, Threads

\* The inductive invariant holds for ever, for every number of threads and jobs.
THEOREM Inductive == Spec => []IInv
  <1>1. IInv /\ [Next]_vars => IInv'
    BY SafeStep, PlaceStep, WakeStep DEF IInv, Safe
  <1> QED BY InitIInv, <1>1, PTL DEF Spec

\* What remove() copied is the front of the queue when it pops it.
THEOREM CopyPopped == Spec => []CopyIsFront
  <1>1. IInv => CopyIsFront
    BY DEF IInv
  <1> QED BY <1>1, Inductive, PTL

\* No job is queued twice or handed to two loops, however many callers and loops use
\* the queue.
THEOREM JobsUnique == Spec => []JobInOnePlace
  <1>1. IInv => JobInOnePlace
    BY DEF IInv
  <1> QED BY <1>1, Inductive, PTL

\* No remove() is left asleep beside a job, with any number of threads that remove.
THEOREM WakeupsKept == Spec => []NoLostWakeup
  <1>1. IInv => NoLostWakeup
    BY DEF IInv
  <1> QED BY <1>1, Inductive, PTL

-----------------------------------------------------------------------------
(* The refinement.                                                         *)

\* The threads of queue_buffer implement the queue: the update of a caller is the
\* whole of its operation, and the pop the whole of a removal.
THEOREM FifoImplemented == Spec => ImplementsFifo
  <1>1. Init => Fifo!Init
    BY DEF Init, Fifo!Init, Got, Threads
  <1>2. IInv /\ [Next]_vars => [Fifo!Next]_Fifo!vars
    <2> SUFFICES ASSUME IInv, [Next]_vars PROVE Fifo!Next \/ UNCHANGED Fifo!vars
      OBVIOUS
    <2>1. Safe
      BY DEF IInv, Safe
    <2> USE <2>1 DEF Safe, TypeOK, GoTo, Threads
    <2>2. ASSUME NEW t \in Callers, Update(t) PROVE Fifo!Next
      <3>1. Got' = Got
        BY <2>2, GotKept DEF Update
      <3>2. op[t] = "clear" \/ job[t] \in Jobs
        BY <2>2 DEF Update, Arguments
      <3>3. op[t] \in {"add", "clear", "clear_add"}
        BY DEF Ops
      <3> QED BY <2>2, <3>1, <3>2, <3>3
              DEF Update, Contents, Fifo!Next, Fifo!Onward, Fifo!Add, Fifo!Clear, Fifo!ClearAdd
    <2>3. ASSUME NEW c \in Loops, PopFront(c) PROVE Fifo!Next
      BY <2>3, PopTakes DEF Fifo!Next, Fifo!Onward
    <2>4. ASSUME NEW c \in Loops, Front(c) PROVE UNCHANGED Fifo!vars
      BY <2>4, FrontStutters
    <2>5. ASSUME NEW t \in Threads, Notify(t) PROVE Fifo!Next \/ UNCHANGED Fifo!vars
      BY <2>5, NotifyReturns DEF Fifo!Next, Fifo!Onward
    <2>6. ASSUME NEW t \in Callers,
                 CallClear(t) \/ \E o \in {"add", "clear_add"}, j \in Jobs : CallWith(t, o, j)
          PROVE  UNCHANGED Fifo!vars
      BY <2>6, GotKept DEF CallWith, CallClear, Fifo!vars
    <2>7. ASSUME NEW t \in Threads, Lock(t) \/ Unlock(t) PROVE UNCHANGED Fifo!vars
      BY <2>7, GotKept DEF Lock, Unlock, Fifo!vars
    <2>8. ASSUME NEW c \in Loops, CallRemove(c) \/ Wait(c) \/ Spurious(c)
          PROVE  UNCHANGED Fifo!vars
      BY <2>8, GotKept DEF CallRemove, Wait, Spurious, Sleepers, Fifo!vars
    <2>9. CASE Asleep \/ UNCHANGED vars
      BY <2>9, GotKept DEF Asleep, Fifo!vars
    <2> QED BY <2>2, <2>3, <2>4, <2>5, <2>6, <2>7, <2>8, <2>9 DEF Next, Progress
  <1> QED BY <1>1, <1>2, Inductive, PTL DEF Spec, ImplementsFifo, Fifo!Spec
=============================================================================
