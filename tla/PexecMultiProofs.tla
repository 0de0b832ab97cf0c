-------------------------- MODULE PexecMultiProofs --------------------------
(***************************************************************************)
(* The safety properties of PexecMulti hold for every value of its         *)
(* constants.  Those of the handles and the jobs hold whatever the select  *)
(* map does; those of the descriptors, the lost child and the return of    *)
(* run() under ~Rehash, which covers up to three processes at a time.      *)
(* With a rehash the descriptors agree, and no exit is lost, until run()   *)
(* returns early (ConsistentUntil).                                        *)
(*                                                                         *)
(* The inductive invariant IInv is in PexecMulti.  Each of its parts is    *)
(* kept by every step (TypeStep, RemoveStep, AnswerStep, HandleStep,       *)
(* PidStep, BoundStep, BytesStep, WakeStep, OrderStep, DescriptorStep,     *)
(* LostStep, NumbersStep, CauseStep, ChildlessStep, WatchedStep), and each *)
(* theorem follows from it.  That PexecMulti implements HandleLifecycle    *)
(* and JobQueue is proved last, a step of the abstract specification for   *)
(* each action.                                                            *)
(***************************************************************************)
EXTENDS PexecMulti, FiniteSetTheorems, SequenceTheorems, TLAPS

USE DEF vars, callerVars, jobVars, stopVars, fdVars, handleVars, childVars,
        pipeVars, sigVars, passVars

-----------------------------------------------------------------------------
(* Jobs, descriptors, and the types of what the helpers change.            *)

\* The three kinds of job in queue_buffer differ, and a spawn job names its handle.
LEMMA JobFacts ==
    /\ NullJob \in Job
    /\ \A p \in Procs : SpawnJob(p) \in Job /\ SpawnJob(p) # NullJob
    /\ \A p, q \in Procs : SpawnJob(p) = SpawnJob(q) => p = q
    /\ \A j \in Job : j.type = "STOP" =>
            /\ j.flag \in StopFlags /\ j.signum \in Int
            /\ j # NullJob
            /\ \A p \in Procs : j # SpawnJob(p)
  <1>1. NullJob \in Job /\ NullJob.type = "NULL"
    BY DEF Job, NullJob
  <1>2. ASSUME NEW p \in Procs
        PROVE  /\ SpawnJob(p) \in Job
               /\ SpawnJob(p).type = "SPAWN" /\ SpawnJob(p).proc = p
    BY DEF Job, SpawnJob
  <1>3. ASSUME NEW j \in Job, j.type = "STOP"
        PROVE  j.flag \in StopFlags /\ j.signum \in Int
    BY <1>1, <1>2, <1>3 DEF Job
  <1> QED BY <1>1, <1>2, <1>3

\* What stop() queues is a job.
LEMMA StopJobType ==
    ASSUME NEW f \in Flags, NEW n \in KillNums
    PROVE  [type |-> "STOP", flag |-> f, signum |-> n] \in Job
  BY PexecMultiAssumption DEF Job

\* The loop's own three descriptors differ from each other and from every
\* process's.
LEMMA FdFacts ==
    /\ Wake \in Fd /\ Sig \in Fd /\ Ctl \in Fd
    /\ Wake # Sig /\ Wake # Ctl /\ Sig # Ctl
    /\ \A s \in Slots : Fds(s) \subseteq Fd
    /\ \A s \in Slots \cup {NoSlot} : Fds(s) \cap LoopFds = {}
  BY PexecMultiAssumption DEF Fd, LoopFds, ProcFds, Fds, Wake, Sig, Ctl

\* A write to a pipe, lost or not, leaves it with data and within its capacity.
LEMMA PutType ==
    ASSUME NEW cap \in Nat \ {0}, NEW n \in 0..cap
    PROVE  Put(n, cap) \in 1..cap /\ Put(n, cap) \in 0..cap /\ Put(n, cap) <= n + 1
  BY DEF Put

\* One pipe of one process changes, and the rest keep their bounds.
LEMMA UnreadType ==
    ASSUME NEW f \in [Procs -> [Streams -> 0..MaxChunks]],
           NEW p \in Procs, NEW k \in Streams, NEW v \in 0..MaxChunks
    PROVE  [f EXCEPT ![p][k] = v] \in [Procs -> [Streams -> 0..MaxChunks]]
  OBVIOUS

\* After a callback the loop goes on with its pass or starts the next.
LEMMA ResumeType ==
    ASSUME TypeOK, NEW rest \in SUBSET Fd, Resume(rest)
    PROVE  todo' \subseteq Fd /\ read_fds' \subseteq Fd /\ pc' \in {"select", "pass"}
  BY DEF TypeOK, Resume

\* queue_buffer::remove() takes the first job and moves the others up by one.
LEMMA RemoveType ==
    ASSUME TypeOK, Remove
    PROVE  /\ Head(buffer) \in Job /\ buffer' \in Seq(Job) /\ pc = "dispatch"
           /\ Len(buffer') = Len(buffer) - 1 /\ control_pipe' = control_pipe
           /\ \A i \in 1..Len(buffer') : buffer'[i] = buffer[i + 1]
  BY HeadTailProperties DEF TypeOK, Remove, PopFront

\* The end of a handle keeps the types of all it writes.
LEMMA FinishType ==
    ASSUME TypeOK, NEW p \in Procs, NEW final \in Final, Finish(p, final)
    PROVE  /\ open' \subseteq Procs /\ watch' \subseteq Procs
           /\ state' \in [Procs -> {"NONE", "STARTED"} \cup Final]
           /\ on_stop' \in [Procs -> Nat] /\ active_procs' \subseteq Procs
           /\ slot' \in [Procs -> Slots \cup {NoSlot}]
           /\ cbs' \subseteq Fd /\ registered_fd' \subseteq Fd
           /\ buffer' \in Seq(Job) /\ control_pipe' \in 0..CtlCap
  <1> USE DEF Finish, StateCb, TypeOK
  <1>1. open' \subseteq Procs /\ watch' \subseteq Procs /\ active_procs' \subseteq Procs
    BY DEF Erased
  <1>2. state' \in [Procs -> {"NONE", "STARTED"} \cup Final] /\ on_stop' \in [Procs -> Nat]
    OBVIOUS
  <1>3. slot' \in [Procs -> Slots \cup {NoSlot}] /\ cbs' \subseteq Fd /\ registered_fd' \subseteq Fd
    OBVIOUS
  <1>4. buffer' \in Seq(Job) /\ control_pipe' \in 0..CtlCap
    <2>1. CASE LastGone(p)
      <3>1. Append(buffer, NullJob) \in Seq(Job)
        BY JobFacts, AppendProperties
      <3>2. Put(control_pipe, CtlCap) \in 0..CtlCap
        BY PutType, PexecMultiAssumption
      <3> QED BY <2>1, <3>1, <3>2
    <2>2. CASE ~LastGone(p)
      BY <2>2
    <2> QED BY <2>1, <2>2
  <1> QED BY <1>1, <1>2, <1>3, <1>4

\* handle_stop() keeps the types of all it writes.
LEMMA HandleStopType ==
    ASSUME TypeOK, HandleStop
    PROVE  /\ cbs' \subseteq Fd /\ registered_fd' \subseteq Fd
           /\ todo' \subseteq Fd /\ read_fds' \subseteq Fd /\ pc' \in {"select", "pass"}
           /\ stop_flag' \in StopFlags /\ stop_signum' \in Int /\ stopping' = FALSE
           /\ interrupted' = TRUE /\ active_procs' \subseteq Procs /\ open' \subseteq Procs
  BY ResumeType DEF HandleStop, TypeOK, StopFlags

-----------------------------------------------------------------------------
(* TypeOK is kept by every step.                                           *)

\* Every step of a caller, the kernel or the loop keeps the types.
LEMMA TypeStep == TypeOK /\ [Next]_vars => TypeOK'
<1> SUFFICES ASSUME TypeOK, [Next]_vars PROVE TypeOK'
  OBVIOUS
<1> USE PexecMultiAssumption DEF TypeOK
<1>1. ASSUME NEW j \in Job, AddJob(j)
      PROVE  buffer' \in Seq(Job) /\ owed' \in Nat /\ control_pipe' = control_pipe
  BY <1>1, AppendProperties DEF AddJob
<1>2. ASSUME NEW p \in Procs, Exec(p) PROVE TypeOK'
  BY <1>1, <1>2, JobFacts DEF Exec
<1>3. ASSUME NEW f \in Flags, NEW n \in KillNums, Stop(f, n) PROVE TypeOK'
  BY <1>1, <1>3, StopJobType DEF Stop
<1>4. CASE Interrupt
  <2>1. control_pipe' \in 0..CtlCap /\ owed' \in Nat
    BY <1>4, PutType DEF Interrupt
  <2> QED BY <1>4, <2>1 DEF Interrupt
<1>5. ASSUME NEW p \in Procs, UserStop(p) PROVE TypeOK'
  BY <1>5 DEF UserStop
<1>6. ASSUME NEW p \in Procs, NEW k \in Streams, ChildWrite(p, k) PROVE TypeOK'
  <2>1. unread' \in [Procs -> [Streams -> 0..MaxChunks]]
    BY <1>6, UnreadType DEF ChildWrite
  <2> QED BY <1>6, <2>1 DEF ChildWrite, kernelUnchanged
<1>7. ASSUME NEW p \in Procs, ChildLeaves(p) \/ ChildExit(p) \/ ChildStops(p)
      PROVE  TypeOK'
  BY <1>7 DEF ChildLeaves, ChildExit, ChildStops, kernelUnchanged
<1>8. CASE SignalHandler
  <2>1. sig_pipe' \in 0..SigCap
    BY <1>8, PutType DEF SignalHandler
  <2> QED BY <1>8, <2>1 DEF SignalHandler, kernelUnchanged
<1>9. CASE Run
  <2>1. LoopFds \subseteq Fd /\ {Sig, Ctl} \subseteq Fd
    BY FdFacts DEF Fd
  <2>2. runs' \in 0..MaxRuns /\ sig_pipe' \in 0..SigCap
    BY <1>9 DEF Run
  <2> QED BY <1>9, <2>1, <2>2 DEF Run
<1>10. CASE Select
  BY <1>10 DEF Select
<1>11. CASE RunReturns
  <2>1. 0 \in 0..SigCap
    OBVIOUS
  <2> QED BY <1>11, <2>1 DEF RunReturns
<1>12. ASSUME NEW p \in Procs, NEW k \in Streams, ReadStream(p, k) PROVE TypeOK'
  <2>1. unread' \in [Procs -> [Streams -> 0..MaxChunks]]
    BY <1>12, UnreadType DEF ReadStream
  <2> QED BY <1>12, <2>1, ResumeType DEF ReadStream, streamUnchanged
<1>13. ASSUME NEW p \in Procs, NEW final \in Final, Finish(p, final),
              Resume(todo \ HandleFds(p)), UNCHANGED unread, streamUnchanged
       PROVE  TypeOK'
  <2>1. todo' \subseteq Fd /\ read_fds' \subseteq Fd /\ pc' \in {"select", "pass"}
    BY <1>13, ResumeType
  <2> HIDE DEF TypeOK
  <2>2. /\ open' \subseteq Procs /\ watch' \subseteq Procs
        /\ state' \in [Procs -> {"NONE", "STARTED"} \cup Final]
        /\ on_stop' \in [Procs -> Nat] /\ active_procs' \subseteq Procs
        /\ slot' \in [Procs -> Slots \cup {NoSlot}]
        /\ cbs' \subseteq Fd /\ registered_fd' \subseteq Fd
        /\ buffer' \in Seq(Job) /\ control_pipe' \in 0..CtlCap
    BY <1>13, FinishType
  <2> QED BY <1>13, <2>1, <2>2 DEF TypeOK, streamUnchanged
<1>14. ASSUME NEW p \in Procs, NEW k \in Streams, ReadStreamFails(p, k) PROVE TypeOK'
  BY <1>13, <1>14 DEF ReadStreamFails, Final
<1>15. ASSUME NEW p \in Procs, ReadClose(p) PROVE TypeOK'
  BY <1>13, <1>15 DEF ReadClose, CloseState, Final
<1>16. CASE ReadSignal
  BY <1>16 DEF ReadSignal
<1>17. CASE ReadSignalEmpty
  <2> HIDE DEF TypeOK
  <2>1. /\ cbs' \subseteq Fd /\ registered_fd' \subseteq Fd
        /\ todo' \subseteq Fd /\ read_fds' \subseteq Fd /\ pc' \in {"select", "pass"}
        /\ stop_flag' \in StopFlags /\ stop_signum' \in Int /\ stopping' = FALSE
        /\ interrupted' = TRUE /\ active_procs' \subseteq Procs /\ open' \subseteq Procs
    BY <1>17, HandleStopType DEF ReadSignalEmpty
  <2> QED BY <1>17, <2>1 DEF ReadSignalEmpty, TypeOK
<1>18. ASSUME NEW p \in Procs, ReapActive(p) PROVE TypeOK'
  <2>1. unread' \in [Procs -> [Streams -> 0..MaxChunks]]
    <3>1. ReadRest(p) \in [Streams -> 0..MaxChunks]
      BY DEF ReadRest
    <3> QED BY <1>18, <3>1 DEF ReapActive
  <2>2. child' \in [Procs -> {"none", "running", "zombie", "reaped"}]
        /\ todo' \subseteq Fd /\ pc' \in {"reap", "abort"}
    BY <1>18 DEF ReapActive
  <2> HIDE DEF TypeOK
  <2>3. /\ open' \subseteq Procs /\ watch' \subseteq Procs
        /\ state' \in [Procs -> {"NONE", "STARTED"} \cup Final]
        /\ on_stop' \in [Procs -> Nat] /\ active_procs' \subseteq Procs
        /\ slot' \in [Procs -> Slots \cup {NoSlot}]
        /\ cbs' \subseteq Fd /\ registered_fd' \subseteq Fd
        /\ buffer' \in Seq(Job) /\ control_pipe' \in 0..CtlCap
    BY <1>18, FinishType DEF ReapActive, Final
  <2> QED BY <1>18, <2>1, <2>2, <2>3 DEF ReapActive, TypeOK
<1>19. ASSUME NEW p \in Procs, ReapOther(p) PROVE TypeOK'
  BY <1>19 DEF ReapOther
<1>20. CASE ReapDone
  BY <1>20, ResumeType DEF ReapDone
<1>21. CASE ReadControl
  <2>1. control_pipe' \in 0..CtlCap
    BY <1>21 DEF ReadControl, TakeByte
  <2> QED BY <1>21, <2>1 DEF ReadControl
<1>22. ASSUME NEW flag \in StopFlags, NEW signum \in Int,
              Remove, JobNullptrStop(flag, signum), dispatchUnchanged
       PROVE  TypeOK'
  <2>1. buffer' \in Seq(Job) /\ control_pipe' \in 0..CtlCap
    BY <1>22, RemoveType
  <2>2. CASE NoneActive
    <3> HIDE DEF TypeOK
    <3>1. /\ cbs' \subseteq Fd /\ registered_fd' \subseteq Fd
          /\ todo' \subseteq Fd /\ read_fds' \subseteq Fd /\ pc' \in {"select", "pass"}
          /\ stop_flag' \in StopFlags /\ stop_signum' \in Int /\ stopping' = FALSE
          /\ interrupted' = TRUE /\ active_procs' \subseteq Procs /\ open' \subseteq Procs
          /\ UNCHANGED <<handleVars, watch, killed>>
      BY <1>22, <2>2, HandleStopType DEF JobNullptrStop
    <3> QED BY <1>22, <2>1, <3>1 DEF dispatchUnchanged, TypeOK
  <2>3. CASE ~NoneActive
    <3>1. todo' \subseteq Fd /\ read_fds' \subseteq Fd /\ pc' \in {"select", "pass"}
      BY <1>22, <2>3, ResumeType DEF JobNullptrStop
    <3>2. /\ stopping' \in BOOLEAN /\ watch' \subseteq Procs /\ killed' \subseteq Procs
          /\ stop_flag' = flag /\ stop_signum' = signum
          /\ UNCHANGED <<fdVars, handleVars, interrupted>>
      BY <1>22, <2>3 DEF JobNullptrStop, Cleanup
    <3> QED BY <1>22, <2>1, <3>1, <3>2 DEF dispatchUnchanged
  <2> QED BY <2>2, <2>3
<1>23. CASE DispatchNull
  BY <1>22, <1>23 DEF DispatchNull
<1>24. CASE DispatchStop
  <2>1. Head(buffer).flag \in StopFlags /\ Head(buffer).signum \in Int
    BY <1>24, RemoveType, JobFacts DEF DispatchStop
  <2> QED BY <1>22, <1>24, <2>1 DEF DispatchStop
<1>25. CASE DropJob
  <2>1. buffer' \in Seq(Job) /\ control_pipe' \in 0..CtlCap
    BY <1>25, RemoveType DEF DropJob
  <2> QED BY <1>25, <2>1, ResumeType DEF DropJob, dispatchUnchanged
<1>26. ASSUME NEW p \in Procs, NEW s \in Slots, SpawnProc(p, s) PROVE TypeOK'
  <2>1. buffer' \in Seq(Job) /\ control_pipe' \in 0..CtlCap
    BY <1>26, RemoveType DEF SpawnProc
  <2>2. cbs' \subseteq Fd /\ registered_fd' \subseteq Fd
    BY <1>26, FdFacts DEF SpawnProc
  <2>3. todo' \subseteq Fd /\ read_fds' \subseteq Fd /\ pc' \in {"select", "pass"}
    <3>1. PICK rest \in AfterInsert(s) : Resume(rest)
      BY <1>26 DEF SpawnProc
    <3>2. rest \in SUBSET Fd
      BY FdFacts DEF AfterInsert
    <3> QED BY <3>1, <3>2, ResumeType
  <2>4. /\ slot' \in [Procs -> Slots \cup {NoSlot}]
        /\ state' \in [Procs -> {"NONE", "STARTED"} \cup Final]
        /\ child' \in [Procs -> {"none", "running", "zombie", "reaped"}]
        /\ open' \subseteq Procs /\ active_procs' \subseteq Procs
    BY <1>26 DEF SpawnProc, ForkExec
  <2> QED BY <1>26, <2>1, <2>2, <2>3, <2>4 DEF SpawnProc
<1>27. ASSUME NEW p \in Procs, SpawnFails(p) PROVE TypeOK'
  <2>1. buffer' \in Seq(Job) /\ control_pipe' \in 0..CtlCap
    BY <1>27, RemoveType DEF SpawnFails
  <2>2. state' \in [Procs -> {"NONE", "STARTED"} \cup Final] /\ on_stop' \in [Procs -> Nat]
    BY <1>27 DEF SpawnFails, StateCb, Final
  <2> QED BY <1>27, <2>1, <2>2 DEF SpawnFails
<1>28. CASE Terminated \/ UNCHANGED vars
  BY <1>28 DEF Terminated
<1> QED
  BY <1>2, <1>3, <1>4, <1>5, <1>6, <1>7, <1>8, <1>9, <1>10, <1>11, <1>12,
     <1>14, <1>15, <1>16, <1>17, <1>18, <1>19, <1>20, <1>21, <1>23, <1>24,
     <1>25, <1>26, <1>27, <1>28 DEF Next, Caller, Kernel, Loop

\* The program starts with the types it keeps.
LEMMA TypeInit == Init => TypeOK
  <1> SUFFICES ASSUME Init PROVE TypeOK
    OBVIOUS
  <1>1. buffer \in Seq(Job) /\ control_pipe \in 0..CtlCap /\ sig_pipe \in 0..SigCap
    BY PexecMultiAssumption, EmptySeq DEF Init
  <1>2. unread \in [Procs -> [Streams -> 0..MaxChunks]]
    BY PexecMultiAssumption DEF Init
  <1>3. /\ slot \in [Procs -> Slots \cup {NoSlot}]
        /\ state \in [Procs -> {"NONE", "STARTED"} \cup Final]
        /\ on_stop \in [Procs -> Nat]
        /\ child \in [Procs -> {"none", "running", "zombie", "reaped"}]
    BY DEF Init
  <1>4. stops \in 0..MaxStops /\ owed \in Nat /\ runs \in 0..MaxRuns
    BY PexecMultiAssumption DEF Init
  <1>5. /\ execd \subseteq Procs /\ asked \subseteq UserStops
        /\ active_procs \subseteq Procs /\ open \subseteq Procs
        /\ registered_fd \subseteq Fd /\ cbs \subseteq Fd
        /\ read_fds \subseteq Fd /\ todo \subseteq Fd
        /\ outside \subseteq Leavers /\ killed \subseteq Procs /\ watch \subseteq Procs
    BY DEF Init
  <1>6. stop_flag \in StopFlags /\ stop_signum \in Int
    BY DEF Init, StopFlags
  <1>7. /\ stopping \in BOOLEAN /\ sig_pending \in BOOLEAN /\ interrupted \in BOOLEAN
        /\ pc \in {"idle", "select", "pass", "dispatch", "reap", "abort"}
    BY DEF Init
  <1> QED BY <1>1, <1>2, <1>3, <1>4, <1>5, <1>6, <1>7 DEF TypeOK

\* Every variable keeps its type and every pipe and counter its bound.
THEOREM TypeCorrect == Spec => []TypeOK
  <1>1. TypeOK /\ [Next]_vars => TypeOK'
    BY TypeStep
  <1> QED BY <1>1, TypeInit, PTL DEF Spec

-----------------------------------------------------------------------------
(* What a step does to the jobs.                                           *)

\* send_job() puts its job behind those that wait and owes its byte.
LEMMA AddJobEffect ==
    ASSUME TypeOK, NEW j \in Job, AddJob(j)
    PROVE  /\ Len(buffer') = Len(buffer) + 1 /\ buffer'[Len(buffer) + 1] = j
           /\ \A i \in 1..Len(buffer) : buffer'[i] = buffer[i]
           /\ owed' = owed + 1 /\ control_pipe' = control_pipe
  BY AppendProperties DEF TypeOK, AddJob

\* The end of a handle leaves the jobs alone, or queues the null job when it was
\* the last one while stopping.
LEMMA FinishEffect ==
    ASSUME TypeOK, NEW p \in Procs, NEW final, Finish(p, final)
    PROVE  \/ /\ ~LastGone(p)
              /\ buffer' = buffer /\ control_pipe' = control_pipe
           \/ /\ LastGone(p)
              /\ Len(buffer') = Len(buffer) + 1
              /\ buffer'[Len(buffer) + 1] = NullJob
              /\ \A i \in 1..Len(buffer) : buffer'[i] = buffer[i]
              /\ control_pipe' = Put(control_pipe, CtlCap)
              /\ control_pipe' \in Nat /\ control_pipe' <= control_pipe + 1
  <1>1. CASE LastGone(p)
    <2>1. buffer' = Append(buffer, NullJob) /\ control_pipe' = Put(control_pipe, CtlCap)
      BY <1>1 DEF Finish
    <2>2. control_pipe' \in Nat /\ control_pipe' <= control_pipe + 1
      BY <2>1, PutType, PexecMultiAssumption DEF TypeOK
    <2> QED BY <1>1, <2>1, <2>2, JobFacts, AppendProperties DEF TypeOK
  <1>2. CASE ~LastGone(p)
    BY <1>2 DEF Finish
  <1> QED BY <1>1, <1>2

\* The steps that end a handle, and those that take a job off the buffer.
Finishes(p) == \/ \E k \in Streams : ReadStreamFails(p, k)
               \/ ReadClose(p) \/ ReapActive(p)
Dispatches == \/ DispatchNull \/ DispatchStop \/ DropJob
              \/ \E p \in Procs, s \in Slots : SpawnProc(p, s)
              \/ \E p \in Procs : SpawnFails(p)

\* Each way to end a handle is one of its own, by a callback of the pass.
LEMMA FinishesFinish ==
    ASSUME NEW p \in Procs, Finishes(p)
    PROVE  /\ p \in open \/ p \in active_procs
           /\ \E final \in Final : Finish(p, final)
           /\ pc # "dispatch" /\ pc' # "dispatch" /\ pc # "idle" /\ pc' # "idle"
           /\ UNCHANGED <<callerVars, stopVars, outside, sigVars, interrupted>>
           /\ todo' \subseteq todo
  <1>1. ASSUME NEW k \in Streams, ReadStreamFails(p, k)
        PROVE  Finish(p, "FAIL_STOPPED") /\ Resume(todo \ HandleFds(p))
    BY <1>1 DEF ReadStreamFails
  <1>2. CASE ReadClose(p)
    BY <1>2 DEF ReadClose, CloseState, Final, streamUnchanged, Resume
  <1>3. CASE ReapActive(p)
    BY <1>3 DEF ReapActive, Final
  <1> QED BY <1>1, <1>2, <1>3 DEF Finishes, ReadStreamFails, Final, streamUnchanged, Resume

\* Every branch of dispatch_job() has taken one job off the buffer.
LEMMA DispatchesRemove == Dispatches => Remove /\ pc' # "dispatch" /\ owed' = owed /\ execd' = execd
  BY DEF Dispatches, DispatchNull, DispatchStop, DropJob, SpawnProc, SpawnFails,
         dispatchUnchanged, JobNullptrStop, HandleStop, Resume

\* Every other step leaves the jobs and the handles alone.
LEMMA OtherSteps ==
    ASSUME [Next]_vars,
           \A p \in Procs : ~Exec(p) /\ ~Finishes(p),
           \A f \in Flags, n \in KillNums : ~Stop(f, n),
           ~Interrupt, ~ReadControl, ~Dispatches
    PROVE  /\ UNCHANGED <<buffer, control_pipe, owed, execd, stops, state, on_stop>>
           /\ UNCHANGED <<active_procs, open, slot>>
           /\ pc' = pc \/ (pc # "dispatch" /\ pc' # "dispatch")
           /\ stopping' => stopping
  <1>1. ASSUME NEW p \in Procs, NEW k \in Streams,
               ChildWrite(p, k) \/ ReadStream(p, k)
        PROVE  /\ UNCHANGED <<buffer, control_pipe, owed, execd, stops, state, on_stop>>
               /\ UNCHANGED <<active_procs, open, slot>>
               /\ pc' = pc \/ (pc # "dispatch" /\ pc' # "dispatch")
               /\ stopping' => stopping
    BY <1>1 DEF ChildWrite, ReadStream, kernelUnchanged, streamUnchanged, Resume
  <1>2. ASSUME NEW p \in Procs, UserStop(p) \/ ChildLeaves(p) \/ ChildExit(p)
                                   \/ ChildStops(p) \/ ReapOther(p)
        PROVE  /\ UNCHANGED <<buffer, control_pipe, owed, execd, stops, state, on_stop>>
               /\ UNCHANGED <<active_procs, open, slot>>
               /\ pc' = pc \/ (pc # "dispatch" /\ pc' # "dispatch")
               /\ stopping' => stopping
    BY <1>2 DEF UserStop, ChildLeaves, ChildExit, ChildStops, ReapOther, kernelUnchanged
  <1>3. ASSUME SignalHandler \/ Run \/ Select \/ RunReturns \/ ReadSignal
                   \/ ReadSignalEmpty \/ ReapDone \/ Terminated
        PROVE  /\ UNCHANGED <<buffer, control_pipe, owed, execd, stops, state, on_stop>>
               /\ UNCHANGED <<active_procs, open, slot>>
               /\ pc' = pc \/ (pc # "dispatch" /\ pc' # "dispatch")
               /\ stopping' => stopping
    BY <1>3 DEF SignalHandler, Run, Select, RunReturns, ReadSignal, ReadSignalEmpty,
                ReapDone, Terminated, HandleStop, kernelUnchanged, Resume
  <1>4. CASE UNCHANGED vars
    BY <1>4
  <1> QED BY <1>1, <1>2, <1>3, <1>4 DEF Next, Caller, Kernel, Loop, Finishes, Dispatches

-----------------------------------------------------------------------------

\* buffer.remove() in dispatch_job() never waits: a byte in the control pipe,
\* or on its way there, always has its job in the buffer.
LEMMA RemoveStep == TypeOK /\ RemoveNeverBlocks /\ [Next]_vars => RemoveNeverBlocks'
  <1> SUFFICES ASSUME TypeOK, RemoveNeverBlocks, [Next]_vars PROVE RemoveNeverBlocks'
    OBVIOUS
  <1> USE DEF RemoveNeverBlocks
  <1>0. control_pipe \in Nat /\ owed \in Nat /\ Len(buffer) \in Nat
    BY PexecMultiAssumption, LenProperties DEF TypeOK
  <1>1. ASSUME NEW p \in Procs, Exec(p) PROVE RemoveNeverBlocks'
    BY <1>0, <1>1, AddJobEffect, JobFacts DEF Exec
  <1>2. ASSUME NEW f \in Flags, NEW n \in KillNums, Stop(f, n) PROVE RemoveNeverBlocks'
    BY <1>0, <1>2, AddJobEffect, StopJobType DEF Stop
  <1>3. CASE Interrupt
    <2>1. control_pipe' \in Nat /\ control_pipe' <= control_pipe + 1
      BY <1>3, PutType, PexecMultiAssumption DEF Interrupt, TypeOK
    <2> QED BY <1>0, <1>3, <2>1 DEF Interrupt
  <1>4. ASSUME NEW p \in Procs, Finishes(p) PROVE RemoveNeverBlocks'
    BY <1>0, <1>4, FinishesFinish, FinishEffect
  <1>5. CASE ReadControl
    BY <1>0, <1>5 DEF ReadControl, TakeByte
  <1>6. CASE Dispatches
    BY <1>0, <1>6, DispatchesRemove, RemoveType
  <1>7. CASE UNCHANGED <<buffer, control_pipe, owed>> /\ (pc' = pc \/ pc' # "dispatch")
    BY <1>0, <1>7
  <1> QED BY <1>1, <1>2, <1>3, <1>4, <1>5, <1>6, <1>7, OtherSteps

\* As long as a stop is in progress and no process is left, the null job that
\* lets run() return is in the buffer.
LEMMA AnswerStep == TypeOK /\ StopAnswered /\ [Next]_vars => StopAnswered'
  <1> SUFFICES ASSUME TypeOK, StopAnswered, [Next]_vars PROVE StopAnswered'
    OBVIOUS
  <1> USE DEF StopAnswered
  <1>0. Len(buffer) \in Nat
    BY LenProperties DEF TypeOK
  <1>1. ASSUME NEW p \in Procs, Exec(p) PROVE StopAnswered'
    BY <1>0, <1>1, AddJobEffect, JobFacts DEF Exec
  <1>2. ASSUME NEW f \in Flags, NEW n \in KillNums, Stop(f, n) PROVE StopAnswered'
    BY <1>0, <1>2, AddJobEffect, StopJobType DEF Stop
  <1>3. CASE Interrupt \/ ReadControl
    BY <1>3 DEF Interrupt, ReadControl
  <1>4. ASSUME NEW p \in Procs, Finishes(p) PROVE StopAnswered'
    <2>1. PICK final \in Final : Finish(p, final)
      BY <1>4, FinishesFinish
    <2>2. stopping' = stopping /\ active_procs' = active_procs \ {p}
      BY <1>4, <2>1, FinishesFinish DEF Finish, Erased
    <2> QED BY <1>0, <2>1, <2>2, FinishEffect DEF LastGone, Erased
  <1>5. CASE DispatchNull \/ DispatchStop
    <2>1. stopping' => active_procs' # {}
      BY <1>5 DEF DispatchNull, DispatchStop, JobNullptrStop, NoneActive, HandleStop
    <2> QED BY <2>1
  <1>6. CASE DropJob
    <2>1. UNCHANGED <<stopping, active_procs>> /\ Head(buffer) # NullJob
      BY <1>6 DEF DropJob
    <2>2. /\ Len(buffer') = Len(buffer) - 1 /\ buffer[1] # NullJob
          /\ \A i \in 1..Len(buffer') : buffer'[i] = buffer[i + 1]
      BY <1>6, <2>1, RemoveType DEF DropJob, Remove
    <2>3. ASSUME NEW i \in 1..Len(buffer), buffer[i] = NullJob
          PROVE  i - 1 \in 1..Len(buffer') /\ buffer'[i - 1] = NullJob
      BY <1>0, <2>2, <2>3
    <2> QED BY <2>1, <2>3
  <1>7. CASE /\ ~stopping
             /\ \E p \in Procs : (\E s \in Slots : SpawnProc(p, s)) \/ SpawnFails(p)
    BY <1>7 DEF SpawnProc, SpawnFails
  <1>8. CASE UNCHANGED <<buffer, active_procs>> /\ (stopping' => stopping)
    BY <1>8
  <1> QED BY <1>1, <1>2, <1>3, <1>4, <1>5, <1>6, <1>7, <1>8, OtherSteps
        DEF Dispatches, SpawnProc, SpawnFails

-----------------------------------------------------------------------------
(* The handles.                                                            *)

HandleInv == open = active_procs /\ OnStopExactlyOnce /\ JobsWaiting /\ HandlesExecd

\* on_stop_cb_ runs once for each handle that ends: a handle is ended only while
\* it is in active_procs_, and it gets there once, by its own one spawn job.
LEMMA HandleStep == TypeOK /\ HandleInv /\ [Next]_vars => HandleInv'
  <1> SUFFICES ASSUME TypeOK, HandleInv, [Next]_vars PROVE HandleInv'
    OBVIOUS
  <1> USE DEF HandleInv, OnStopExactlyOnce, JobsWaiting, HandlesExecd
  <1>0. /\ Len(buffer) \in Nat
        /\ state \in [Procs -> {"NONE", "STARTED"} \cup Final]
        /\ on_stop \in [Procs -> Nat]
    BY LenProperties DEF TypeOK
  <1>1. ASSUME NEW p \in Procs, Exec(p) PROVE HandleInv'
    <2>1. /\ p \notin execd /\ execd' = execd \cup {p} /\ AddJob(SpawnJob(p))
          /\ UNCHANGED <<open, active_procs, state, on_stop>>
      BY <1>1 DEF Exec
    <2>2. /\ Len(buffer') = Len(buffer) + 1 /\ buffer'[Len(buffer) + 1] = SpawnJob(p)
          /\ \A i \in 1..Len(buffer) : buffer'[i] = buffer[i]
      BY <2>1, AddJobEffect, JobFacts
    <2>3. JobsWaiting'
      BY <1>0, <2>1, <2>2, JobFacts
    <2> QED BY <1>0, <2>1, <2>3
  <1>2. ASSUME NEW j \in Job, AddJob(j), \A p \in Procs : j # SpawnJob(p),
               UNCHANGED <<execd, open, active_procs, state, on_stop>>
        PROVE  HandleInv'
    <2>1. /\ Len(buffer') = Len(buffer) + 1 /\ buffer'[Len(buffer) + 1] = j
          /\ \A i \in 1..Len(buffer) : buffer'[i] = buffer[i]
      BY <1>2, AddJobEffect
    <2> QED BY <1>0, <1>2, <2>1
  <1>3. ASSUME NEW f \in Flags, NEW n \in KillNums, Stop(f, n) PROVE HandleInv'
    <2> DEFINE j == [type |-> "STOP", flag |-> f, signum |-> n]
    <2>1. j \in Job /\ j.type = "STOP"
      BY StopJobType
    <2>2. AddJob(j) /\ UNCHANGED <<execd, open, active_procs, state, on_stop>>
      BY <1>3 DEF Stop
    <2> QED BY <1>2, <2>1, <2>2, JobFacts
  <1>4. CASE Interrupt \/ ReadControl
    BY <1>4 DEF Interrupt, ReadControl
  <1>5. ASSUME NEW p \in Procs, Finishes(p) PROVE HandleInv'
    <2>1. PICK final \in Final : Finish(p, final)
      BY <1>5, FinishesFinish
    <2>2. /\ p \in active_procs /\ execd' = execd
          /\ open' = open \ {p} /\ active_procs' = active_procs \ {p}
          /\ state' = [state EXCEPT ![p] = final]
          /\ on_stop' = [on_stop EXCEPT ![p] = @ + 1]
      BY <1>5, <2>1, FinishesFinish DEF Finish, StateCb, Erased
    <2>3. state[p] = "STARTED" /\ "STARTED" \notin Final
      BY <2>2 DEF Final
    <2>4. OnStopExactlyOnce'
      BY <1>0, <2>2, <2>3
    <2>5. JobsWaiting'
      <3> SUFFICES ASSUME NEW q \in Procs, NEW i \in 1..Len(buffer'), buffer'[i] = SpawnJob(q)
                   PROVE  /\ q \in execd' /\ state'[q] = "NONE"
                          /\ \A j \in 1..Len(buffer') : buffer'[j] = SpawnJob(q) => i = j
        OBVIOUS
      <3>1. ASSUME NEW j \in 1..Len(buffer'), buffer'[j] = SpawnJob(q)
            PROVE  j \in 1..Len(buffer) /\ buffer[j] = SpawnJob(q)
        BY <1>0, <2>1, <3>1, FinishEffect, JobFacts
      <3>2. i \in 1..Len(buffer) /\ buffer[i] = SpawnJob(q)
        BY <3>1
      <3>3. q \in execd' /\ state'[q] = "NONE"
        BY <1>0, <2>2, <2>3, <3>2
      <3> QED BY <3>1, <3>2, <3>3
    <2>6. HandlesExecd'
      BY <1>0, <2>2, <2>3
    <2> QED BY <2>2, <2>4, <2>5, <2>6
  <1>6. ASSUME Remove, UNCHANGED <<execd, open, active_procs, state, on_stop>>
        PROVE  HandleInv'
    <2>1. ASSUME NEW i \in 1..Len(buffer')
          PROVE  i + 1 \in 1..Len(buffer) /\ buffer'[i] = buffer[i + 1]
      BY <1>0, <1>6, <2>1, RemoveType
    <2>2. JobsWaiting'
      <3> SUFFICES ASSUME NEW q \in Procs, NEW i \in 1..Len(buffer'), buffer'[i] = SpawnJob(q)
                   PROVE  /\ q \in execd' /\ state'[q] = "NONE"
                          /\ \A j \in 1..Len(buffer') : buffer'[j] = SpawnJob(q) => i = j
        OBVIOUS
      <3>1. i + 1 \in 1..Len(buffer) /\ buffer[i + 1] = SpawnJob(q)
        BY <2>1
      <3>2. ASSUME NEW j \in 1..Len(buffer'), buffer'[j] = SpawnJob(q) PROVE i = j
        <4>1. j + 1 \in 1..Len(buffer) /\ buffer[j + 1] = SpawnJob(q)
          BY <2>1, <3>2
        <4>2. i + 1 = j + 1
          BY <3>1, <4>1
        <4> QED BY <4>2
      <3> QED BY <1>6, <3>1, <3>2
    <2> QED BY <1>6, <2>2
  <1>7. CASE DispatchNull \/ DispatchStop \/ DropJob
    BY <1>6, <1>7 DEF DispatchNull, DispatchStop, DropJob, dispatchUnchanged,
                      JobNullptrStop, HandleStop
  <1>8. ASSUME NEW p \in Procs, Remove, Head(buffer) = SpawnJob(p)
        PROVE  /\ state[p] = "NONE" /\ p \in execd
               /\ \A i \in 1..Len(buffer') : buffer'[i] # SpawnJob(p)
               /\ \A q \in Procs \ {p}, i, j \in 1..Len(buffer') :
                      buffer'[i] = SpawnJob(q) =>
                          /\ q \in execd /\ state[q] = "NONE"
                          /\ buffer'[j] = SpawnJob(q) => i = j
    <2>1. /\ Len(buffer') = Len(buffer) - 1 /\ Len(buffer) >= 1
          /\ buffer[1] = SpawnJob(p)
          /\ \A i \in 1..Len(buffer') : buffer'[i] = buffer[i + 1]
      BY <1>0, <1>8, RemoveType, LenProperties, EmptySeq DEF Remove, TypeOK
    <2> QED BY <1>0, <2>1
  <1>9. ASSUME NEW p \in Procs, NEW s \in Slots, SpawnProc(p, s) PROVE HandleInv'
    <2>1. /\ Remove /\ Head(buffer) = SpawnJob(p)
          /\ open' = open \cup {p} /\ active_procs' = active_procs \cup {p}
          /\ state' = [state EXCEPT ![p] = "STARTED"] /\ UNCHANGED <<on_stop, execd>>
      BY <1>9 DEF SpawnProc, ForkExec
    <2>2. "STARTED" \notin Final /\ "NONE" \notin Final
      BY DEF Final
    <2>3. OnStopExactlyOnce'
      BY <1>0, <1>8, <2>1, <2>2
    <2>4. JobsWaiting' /\ HandlesExecd'
      BY <1>0, <1>8, <2>1
    <2> QED BY <2>1, <2>3, <2>4
  <1>10. ASSUME NEW p \in Procs, SpawnFails(p) PROVE HandleInv'
    <2>1. /\ Remove /\ Head(buffer) = SpawnJob(p)
          /\ state' = [state EXCEPT ![p] = "FAIL_STOPPED"]
          /\ on_stop' = [on_stop EXCEPT ![p] = @ + 1]
          /\ UNCHANGED <<execd, open, active_procs>>
      BY <1>10 DEF SpawnFails, StateCb
    <2>2. "FAIL_STOPPED" \in Final /\ "NONE" \notin Final
      BY DEF Final
    <2>3. OnStopExactlyOnce'
      BY <1>0, <1>8, <2>1, <2>2
    <2>4. JobsWaiting' /\ HandlesExecd'
      BY <1>0, <1>8, <2>1
    <2> QED BY <2>1, <2>3, <2>4
  <1>11. CASE UNCHANGED <<buffer, execd, open, active_procs, state, on_stop>>
    BY <1>11
  <1> QED BY <1>1, <1>3, <1>4, <1>5, <1>7, <1>9, <1>10, <1>11, OtherSteps DEF Dispatches

\* The pids that cleanup() signals are of children not yet reaped.
LEMMA PidStep == TypeOK /\ open = active_procs /\ ActivePidsValid /\ [Next]_vars
                     => ActivePidsValid'
  <1> SUFFICES ASSUME TypeOK, open = active_procs, ActivePidsValid, [Next]_vars
               PROVE  ActivePidsValid'
    OBVIOUS
  <1> USE DEF ActivePidsValid
  <1>0. child \in [Procs -> {"none", "running", "zombie", "reaped"}]
        /\ active_procs \subseteq Procs
    BY DEF TypeOK
  <1>1. ASSUME NEW p \in Procs, ChildExit(p) \/ ReapOther(p) PROVE ActivePidsValid'
    BY <1>0, <1>1 DEF ChildExit, ReapOther, kernelUnchanged
  <1>2. ASSUME NEW p \in Procs, Finishes(p) PROVE ActivePidsValid'
    <2>1. active_procs' = active_procs \ {p}
      BY <1>2, FinishesFinish DEF Finish, Erased
    <2>2. \A q \in Procs \ {p} : child'[q] = child[q]
      BY <1>0, <1>2 DEF Finishes, ReadStreamFails, ReadClose, ReapActive, streamUnchanged
    <2> QED BY <1>0, <2>1, <2>2
  <1>3. ASSUME NEW p \in Procs, NEW s \in Slots, SpawnProc(p, s) PROVE ActivePidsValid'
    BY <1>0, <1>3 DEF SpawnProc, ForkExec
  <1>4. CASE UNCHANGED <<active_procs, child>>
    BY <1>4
  <1>5. ASSUME NEW p \in Procs, Exec(p) \/ UserStop(p) \/ ChildLeaves(p)
                                    \/ ChildStops(p) \/ SpawnFails(p)
        PROVE  UNCHANGED <<active_procs, child>>
    BY <1>5 DEF Exec, UserStop, ChildLeaves, ChildStops, SpawnFails, kernelUnchanged
  <1>6. ASSUME NEW p \in Procs, NEW k \in Streams, ChildWrite(p, k) \/ ReadStream(p, k)
        PROVE  UNCHANGED <<active_procs, child>>
    BY <1>6 DEF ChildWrite, ReadStream, kernelUnchanged, streamUnchanged
  <1>7. ASSUME NEW f \in Flags, NEW n \in KillNums, Stop(f, n)
        PROVE  UNCHANGED <<active_procs, child>>
    BY <1>7 DEF Stop
  <1>8. ASSUME Interrupt \/ SignalHandler \/ Run \/ Select \/ RunReturns \/ ReadSignal
                   \/ ReadSignalEmpty \/ ReapDone \/ ReadControl \/ DispatchNull
                   \/ DispatchStop \/ DropJob \/ Terminated
        PROVE  UNCHANGED <<active_procs, child>>
    BY <1>8 DEF Interrupt, SignalHandler, Run, Select, RunReturns, ReadSignal,
                ReadSignalEmpty, ReapDone, ReadControl, DispatchNull, DispatchStop,
                DropJob, Terminated, HandleStop, JobNullptrStop, kernelUnchanged,
                dispatchUnchanged
  <1> QED BY <1>1, <1>2, <1>3, <1>4, <1>5, <1>6, <1>7, <1>8
          DEF Next, Caller, Kernel, Loop, Finishes

-----------------------------------------------------------------------------
(* No job is left without its byte.                                        *)

\* At most one exec() per handle and MaxStops calls of stop() queue jobs.
LEMMA CallsBounded ==
    ASSUME TypeOK, IsFiniteSet(Procs)
    PROVE  /\ IsFiniteSet(execd) /\ Cardinality(execd) \in Nat
           /\ Cardinality(Procs) \in Nat
           /\ Cardinality(execd) + stops <= Cardinality(Procs) + MaxStops
  <1>1. execd \subseteq Procs /\ stops \in 0..MaxStops
    BY DEF TypeOK
  <1>2. IsFiniteSet(execd) /\ Cardinality(execd) <= Cardinality(Procs)
    BY <1>1, FS_Subset
  <1>3. Cardinality(execd) \in Nat /\ Cardinality(Procs) \in Nat
    BY <1>2, FS_CardinalityType
  <1> QED BY <1>1, <1>2, <1>3, PexecMultiAssumption

\* Only what exec() and stop() add, and the one null job of a stop in progress, is
\* ever in queue_buffer.
LEMMA BoundStep ==
    ASSUME TypeOK, HandleInv, BufferBounded, IsFiniteSet(Procs), [Next]_vars
    PROVE  Len(buffer') + NullJobDue' <= Cardinality(execd') + stops'
  <1> DEFINE Bounded == Len(buffer) + NullJobDue <= Cardinality(execd) + stops
  <1> SUFFICES Bounded'
    OBVIOUS
  <1>0. /\ Len(buffer) \in Nat /\ Cardinality(execd) \in Nat /\ stops \in Nat
        /\ IsFiniteSet(execd) /\ Bounded
    BY CallsBounded, LenProperties, PexecMultiAssumption DEF TypeOK, BufferBounded
  <1>1. NullJobDue \in 0..1 /\ NullJobDue' \in 0..1
    BY DEF NullJobDue
  <1>2. ASSUME NEW p \in Procs, Exec(p) PROVE Bounded'
    <2>1. Len(buffer') = Len(buffer) + 1 /\ NullJobDue' = NullJobDue /\ stops' = stops
      BY <1>2, AddJobEffect, JobFacts DEF Exec, NullJobDue
    <2>2. Cardinality(execd') = Cardinality(execd) + 1
      BY <1>0, <1>2, FS_AddElement DEF Exec
    <2> QED BY <1>0, <1>1, <2>1, <2>2
  <1>3. ASSUME NEW f \in Flags, NEW n \in KillNums, Stop(f, n) PROVE Bounded'
    <2>1. /\ Len(buffer') = Len(buffer) + 1 /\ NullJobDue' = NullJobDue
          /\ stops' = stops + 1 /\ execd' = execd
      BY <1>3, AddJobEffect, StopJobType DEF Stop, NullJobDue
    <2> QED BY <1>0, <1>1, <2>1
  <1>4. CASE Interrupt \/ ReadControl
    <2>1. NullJobDue' = NullJobDue /\ UNCHANGED <<buffer, execd, stops>>
      BY <1>4 DEF Interrupt, ReadControl, NullJobDue
    <2> QED BY <1>0, <2>1
  <1>5. ASSUME NEW p \in Procs, Finishes(p) PROVE Bounded'
    <2>1. PICK final \in Final : Finish(p, final)
      BY <1>5, FinishesFinish
    <2>2. /\ p \in active_procs /\ active_procs' = active_procs \ {p}
          /\ UNCHANGED <<stopping, execd, stops>>
      BY <1>5, <2>1, FinishesFinish DEF Finish, Erased, HandleInv
    <2>3. CASE LastGone(p)
      <3>1. Len(buffer') = Len(buffer) + 1
        BY <2>1, <2>3, FinishEffect
      <3>2. NullJobDue = 1 /\ NullJobDue' = 0
        BY <2>2, <2>3 DEF NullJobDue, LastGone, Erased
      <3> QED BY <1>0, <2>2, <3>1, <3>2
    <2>4. CASE ~LastGone(p)
      <3>1. buffer' = buffer
        BY <2>1, <2>4, FinishEffect
      <3>2. NullJobDue' <= NullJobDue
        BY <2>2 DEF NullJobDue
      <3> QED BY <1>0, <1>1, <2>2, <3>1, <3>2
    <2> QED BY <2>3, <2>4
  <1>6. ASSUME Remove, UNCHANGED <<execd, stops>>, NullJobDue' <= 1 PROVE Bounded'
    <2>1. Len(buffer') = Len(buffer) - 1
      BY <1>6, RemoveType
    <2> QED BY <1>0, <1>1, <1>6, <2>1
  <1>7. CASE Dispatches
    <2>1. stops' = stops
      BY <1>7 DEF Dispatches, DispatchNull, DispatchStop, DropJob, SpawnProc, SpawnFails,
                  dispatchUnchanged
    <2> QED BY <1>1, <1>6, <1>7, <2>1, DispatchesRemove
  <1>8. CASE UNCHANGED <<buffer, execd, stops, active_procs>> /\ (stopping' => stopping)
    <2>1. NullJobDue' <= NullJobDue
      BY <1>8 DEF NullJobDue
    <2> QED BY <1>0, <1>1, <1>8, <2>1
  <1> HIDE DEF Bounded
  <1> QED BY <1>2, <1>3, <1>4, <1>5, <1>7, <1>8, OtherSteps

\* While the control pipe has room for every call, no byte for a job is lost: a job
\* in the buffer has its byte in the pipe, or on the way there.
LEMMA BytesStep ==
    ASSUME TypeOK, HandleInv, BufferBounded, JobsHaveBytes, IsFiniteSet(Procs),
           [Next]_vars
    PROVE  JobsHaveBytes'
  <1> DEFINE InDispatch == IF pc = "dispatch" THEN 1 ELSE 0
             Counted == Len(buffer) = control_pipe + owed + InDispatch
  <1> SUFFICES ASSUME Cardinality(Procs) + MaxStops <= CtlCap PROVE Counted'
    BY DEF JobsHaveBytes
  <1>0. /\ Len(buffer) \in Nat /\ control_pipe \in Nat /\ owed \in Nat
        /\ CtlCap \in Nat /\ InDispatch \in 0..1 /\ Counted
    BY LenProperties, PexecMultiAssumption DEF TypeOK, JobsHaveBytes
  <1>1. Len(buffer) + NullJobDue <= CtlCap /\ NullJobDue \in 0..1
    <2>1. /\ Cardinality(execd) \in Nat /\ Cardinality(Procs) \in Nat
          /\ Cardinality(execd) + stops <= Cardinality(Procs) + MaxStops
      BY CallsBounded
    <2>2. Len(buffer) + NullJobDue <= Cardinality(execd) + stops
      BY DEF BufferBounded
    <2>3. NullJobDue \in 0..1 /\ stops \in Nat /\ MaxStops \in Nat
      BY PexecMultiAssumption DEF NullJobDue, TypeOK
    <2> QED BY <1>0, <2>1, <2>2, <2>3
  <1>2. ASSUME NEW p \in Procs, Exec(p) PROVE Counted'
    <2>1. AddJob(SpawnJob(p)) /\ pc' = pc
      BY <1>2 DEF Exec
    <2>2. /\ Len(buffer') = Len(buffer) + 1 /\ owed' = owed + 1
          /\ control_pipe' = control_pipe
      BY <2>1, AddJobEffect, JobFacts
    <2> QED BY <1>0, <2>1, <2>2
  <1>3. ASSUME NEW f \in Flags, NEW n \in KillNums, Stop(f, n) PROVE Counted'
    <2>1. AddJob([type |-> "STOP", flag |-> f, signum |-> n]) /\ pc' = pc
      BY <1>3 DEF Stop
    <2>2. /\ Len(buffer') = Len(buffer) + 1 /\ owed' = owed + 1
          /\ control_pipe' = control_pipe
      BY <2>1, AddJobEffect, StopJobType
    <2> QED BY <1>0, <2>1, <2>2
  <1>4. CASE Interrupt
    <2>1. owed > 0 /\ owed' = owed - 1 /\ UNCHANGED <<buffer, pc>>
          /\ control_pipe' = Put(control_pipe, CtlCap)
      BY <1>4 DEF Interrupt
    <2>2. control_pipe < CtlCap
      BY <1>0, <1>1, <2>1
    <2> QED BY <1>0, <2>1, <2>2 DEF Put
  <1>5. ASSUME NEW p \in Procs, Finishes(p) PROVE Counted'
    <2>1. PICK final \in Final : Finish(p, final)
      BY <1>5, FinishesFinish
    <2>2. /\ pc # "dispatch" /\ pc' # "dispatch" /\ owed' = owed
          /\ p \in active_procs
      BY <1>5, FinishesFinish DEF HandleInv
    <2>3. CASE LastGone(p)
      <3>1. NullJobDue = 1
        BY <2>2, <2>3 DEF NullJobDue, LastGone
      <3>2. control_pipe < CtlCap
        BY <1>0, <1>1, <3>1
      <3>3. Len(buffer') = Len(buffer) + 1 /\ control_pipe' = Put(control_pipe, CtlCap)
        BY <2>1, <2>3, FinishEffect
      <3> QED BY <1>0, <2>2, <3>2, <3>3 DEF Put
    <2>4. CASE ~LastGone(p)
      BY <1>0, <2>1, <2>2, <2>4, FinishEffect
    <2> QED BY <2>3, <2>4
  <1>6. CASE ReadControl
    BY <1>0, <1>6 DEF ReadControl, TakeByte
  <1>7. CASE Dispatches
    BY <1>0, <1>7, DispatchesRemove, RemoveType
  <1>8. CASE UNCHANGED <<buffer, control_pipe, owed>> /\ pc' = pc
    BY <1>0, <1>8
  <1>9. CASE UNCHANGED <<buffer, control_pipe, owed>> /\ pc # "dispatch" /\ pc' # "dispatch"
    BY <1>0, <1>9
  <1> HIDE DEF Counted
  <1> QED BY <1>2, <1>3, <1>4, <1>5, <1>6, <1>7, <1>8, <1>9, OtherSteps

-----------------------------------------------------------------------------
(* The passes of the loop, whatever the select map does.                   *)

\* The loop's pass, its wake-up pipe and its map change in the steps of the loop
\* thread only.
LEMMA PassSteps ==
    ASSUME [Next]_vars, ~Loop, ~Run
    PROVE  /\ UNCHANGED <<todo, read_fds, interrupted, active_procs, pc, cbs>>
           /\ sig_pipe' = sig_pipe \/ SignalHandler
  <1> DEFINE Same == /\ UNCHANGED <<todo, read_fds, interrupted, active_procs, pc, cbs>>
                     /\ sig_pipe' = sig_pipe \/ SignalHandler
  <1>1. ASSUME NEW p \in Procs, Exec(p) \/ UserStop(p) \/ ChildLeaves(p)
                                    \/ ChildExit(p) \/ ChildStops(p)
        PROVE  Same
    BY <1>1 DEF Exec, UserStop, ChildLeaves, ChildExit, ChildStops, kernelUnchanged
  <1>2. ASSUME NEW p \in Procs, NEW k \in Streams, ChildWrite(p, k) PROVE Same
    BY <1>2 DEF ChildWrite, kernelUnchanged
  <1>3. ASSUME NEW f \in Flags, NEW n \in KillNums, Stop(f, n) PROVE Same
    BY <1>3 DEF Stop
  <1>4. CASE Interrupt \/ Terminated \/ SignalHandler \/ UNCHANGED vars
    BY <1>4 DEF Interrupt, Terminated, SignalHandler, kernelUnchanged
  <1> QED BY <1>1, <1>2, <1>3, <1>4 DEF Next, Caller, Kernel

\* The wake-up pipe is visited only after handle_stop, and handle_stop ends the
\* dispatching of jobs: a rehash can bring handle_stop too early, not its end.
LEMMA WakeStep ==
    ASSUME TypeOK, open = active_procs, WakeTells, [Next]_vars
    PROVE  WakeTells'
  <1> USE DEF WakeTells
  <1>1. Wake # Sig /\ Wake # Ctl /\ Sig # Ctl
    BY FdFacts
  <1>2. CASE Run
    BY <1>2 DEF Run
  <1>3. CASE Select
    <2>1. Readable(Wake) => interrupted
      BY PexecMultiAssumption DEF Readable, Wake, Sig, Ctl
    <2>2. /\ read_fds' = {f \in cbs : Readable(f)} /\ todo' = read_fds' /\ pc' = "pass"
          /\ UNCHANGED <<interrupted, cbs>>
      BY <1>3 DEF Select
    <2> QED BY <2>1, <2>2
  <1>4. CASE RunReturns
    BY <1>4 DEF RunReturns
  <1>5. ASSUME NEW p \in Procs, NEW k \in Streams, ReadStream(p, k) PROVE WakeTells'
    BY <1>5 DEF ReadStream, Resume, streamUnchanged
  <1>6. ASSUME NEW p \in Procs, Finishes(p) PROVE WakeTells'
    <2>1. cbs' \subseteq cbs
      BY <1>6, FinishesFinish DEF Finish
    <2>2. todo' \subseteq todo /\ interrupted' = interrupted
          /\ pc' # "dispatch" /\ pc' # "idle"
      BY <1>6, FinishesFinish
    <2>3. read_fds' \subseteq read_fds
      BY <1>6 DEF Finishes, ReadStreamFails, ReadClose, ReapActive, Resume
    <2> QED BY <2>1, <2>2, <2>3
  <1>7. CASE ReadSignal \/ ReadControl
    BY <1>1, <1>7 DEF ReadSignal, ReadControl
  <1>8. ASSUME HandleStop PROVE WakeTells'
    BY <1>1, <1>8 DEF HandleStop, Resume
  <1>9. ASSUME NEW p \in Procs, ReapOther(p) PROVE WakeTells'
    BY <1>9 DEF ReapOther
  <1>10. CASE ReapDone
    BY <1>10 DEF ReapDone, Resume
  <1>11. ASSUME NEW flag, NEW signum, Remove, JobNullptrStop(flag, signum) PROVE WakeTells'
    <2>1. CASE NoneActive
      BY <1>8, <1>11, <2>1 DEF JobNullptrStop
    <2>2. CASE ~NoneActive
      BY <1>11, <2>2 DEF JobNullptrStop, Resume, Remove
    <2> QED BY <2>1, <2>2
  <1>12. CASE ReadSignalEmpty \/ DispatchNull \/ DispatchStop
    BY <1>8, <1>11, <1>12 DEF ReadSignalEmpty, DispatchNull, DispatchStop
  <1>13. CASE DropJob
    BY <1>13 DEF DropJob, Remove, Resume
  <1>14. ASSUME NEW p \in Procs, NEW s \in Slots, SpawnProc(p, s) PROVE WakeTells'
    <2>1. pc = "dispatch" /\ interrupted' = interrupted
      BY <1>14 DEF SpawnProc, Remove
    <2>2. PICK rest \in AfterInsert(s) : Resume(rest)
      BY <1>14 DEF SpawnProc
    <2>3. rest \subseteq todo \cup read_fds
      BY DEF AfterInsert
    <2>4. todo' = rest /\ pc' \notin {"idle", "dispatch"} /\ read_fds' \subseteq read_fds
      BY <2>2 DEF Resume
    <2> QED BY <2>1, <2>3, <2>4
  <1>15. ASSUME NEW p \in Procs, SpawnFails(p) PROVE WakeTells'
    BY <1>15 DEF SpawnFails, Remove
  <1>16. CASE UNCHANGED <<todo, read_fds, interrupted, pc, cbs>>
    BY <1>16
  <1> QED BY <1>2, <1>3, <1>4, <1>5, <1>6, <1>7, <1>9, <1>10, <1>12, <1>13, <1>14,
             <1>15, <1>16, PassSteps DEF Loop, Finishes

\* With no rehash the loop is interrupted only when no process is left.
LEMMA OrderStep ==
    ASSUME ~Rehash, TypeOK, open = active_procs, WakeTells, StopsInOrder, [Next]_vars
    PROVE  StopsInOrder'
  <1> USE DEF StopsInOrder
  <1>1. Wake # Sig /\ Wake # Ctl /\ Sig # Ctl
    BY FdFacts
  <1>2. CASE SignalHandler
    <2>1. sig_pipe' > 0
      BY <1>2, PutType, PexecMultiAssumption DEF SignalHandler, TypeOK
    <2> QED BY <1>2, <2>1 DEF SignalHandler, kernelUnchanged
  <1>3. CASE Run
    BY <1>3 DEF Run, WakeTells
  <1>4. CASE Select
    <2>1. Readable(Sig) => sig_pipe > 0
      BY PexecMultiAssumption DEF Readable, Wake, Sig, Ctl
    <2>2. todo' = {f \in cbs : Readable(f)} /\ pc' = "pass"
          /\ UNCHANGED <<interrupted, sig_pipe, active_procs>>
      BY <1>4 DEF Select
    <2> QED BY <2>1, <2>2
  <1>5. CASE RunReturns
    BY <1>5 DEF RunReturns, WakeTells
  <1>6. ASSUME NEW p \in Procs, NEW k \in Streams, ReadStream(p, k) PROVE StopsInOrder'
    BY <1>6 DEF ReadStream, Resume, streamUnchanged
  <1>7. ASSUME NEW p \in Procs, Finishes(p) PROVE StopsInOrder'
    <2>1. active_procs' \subseteq active_procs
      BY <1>7, FinishesFinish DEF Finish, Erased
    <2>2. todo' \subseteq todo /\ interrupted' = interrupted /\ sig_pipe' = sig_pipe
          /\ pc' # "idle"
      BY <1>7, FinishesFinish
    <2> QED BY <2>1, <2>2
  <1>8. CASE ReadSignal \/ ReadControl
    BY <1>1, <1>8 DEF ReadSignal, ReadControl
  <1>9. ~ReadSignalEmpty
    BY DEF ReadSignalEmpty
  <1>10. ASSUME NEW p \in Procs, ReapOther(p) PROVE StopsInOrder'
    BY <1>10 DEF ReapOther
  <1>11. CASE ReapDone
    BY <1>11 DEF ReapDone, Resume
  <1>12. ASSUME NEW flag, NEW signum, Remove, JobNullptrStop(flag, signum), dispatchUnchanged
         PROVE  StopsInOrder'
    <2>1. sig_pipe' = sig_pipe
      BY <1>12 DEF dispatchUnchanged
    <2>2. CASE NoneActive
      BY <1>1, <1>12, <2>1, <2>2 DEF JobNullptrStop, HandleStop, NoneActive, Resume
    <2>3. CASE ~NoneActive
      BY <1>1, <1>12, <2>1, <2>3 DEF JobNullptrStop, Resume
    <2> QED BY <2>2, <2>3
  <1>13. CASE DispatchNull \/ DispatchStop
    BY <1>12, <1>13 DEF DispatchNull, DispatchStop
  <1>14. CASE DropJob
    BY <1>14 DEF DropJob, Resume, dispatchUnchanged
  <1>15. ASSUME NEW p \in Procs, NEW s \in Slots, SpawnProc(p, s) PROVE StopsInOrder'
    <2>1. ~interrupted /\ UNCHANGED <<interrupted, sig_pipe>>
      BY <1>15 DEF SpawnProc, Remove, WakeTells
    <2>2. PICK rest \in AfterInsert(s) : Resume(rest)
      BY <1>15 DEF SpawnProc
    <2>3. rest \subseteq todo \cup Fds(s)
      BY DEF AfterInsert
    <2>4. Sig \notin Fds(s)
      BY FdFacts DEF LoopFds
    <2>5. todo' = rest /\ pc' # "idle"
      BY <2>2 DEF Resume
    <2> QED BY <2>1, <2>3, <2>4, <2>5 DEF TypeOK
  <1>16. ASSUME NEW p \in Procs, SpawnFails(p) PROVE StopsInOrder'
    BY <1>16 DEF SpawnFails
  <1>17. CASE UNCHANGED <<todo, interrupted, sig_pipe, active_procs, pc>>
    BY <1>17
  <1> QED BY <1>2, <1>3, <1>4, <1>5, <1>6, <1>7, <1>8, <1>9, <1>10, <1>11, <1>13,
             <1>14, <1>15, <1>16, <1>17, PassSteps DEF Loop, Finishes

-----------------------------------------------------------------------------
(* The tables agree, and no exit is lost, until run() returns early.       *)

\* Where the tables agree and run() is not active, no process is left.
LEMMA IdleIsEmpty ==
    ASSUME TypeOK, WakeTells, DescriptorsMatch, pc = "idle"
    PROVE  active_procs = {} /\ cbs = {} /\ registered_fd = {}
  <1>1. cbs = {} /\ registered_fd = {}
    BY DEF WakeTells, DescriptorsMatch
  <1>2. ASSUME NEW p \in active_procs PROVE FALSE
    <2>1. <<"close", slot[p]>> \in Fds(slot[p])
      BY DEF Fds
    <2> QED BY <1>1, <2>1 DEF DescriptorsMatch
  <1> QED BY <1>1, <1>2

\* The select map, do_action's map and the open pipes agree; a new process gets
\* numbers that no open pipe has, and an ended one takes only its own away.
LEMMA DescriptorStep ==
    ASSUME TypeOK, HandleInv, WakeTells, DescriptorsMatch,
           [Next]_vars, HandleInv', ~EarlyReturn
    PROVE  DescriptorsMatch'
  <1> DEFINE Matches == /\ \A p, q \in open : slot[p] = slot[q] => p = q
                        /\ registered_fd = cbs \ {Wake}
                        /\ \A f : f \in cbs \ LoopFds <=>
                                      \E p \in active_procs : f \in Fds(slot[p])
  <1>1. DescriptorsMatch <=> Matches /\ open = active_procs
    BY DEF DescriptorsMatch
  <1>2. DescriptorsMatch' <=> Matches' /\ (open = active_procs)'
    BY DEF DescriptorsMatch
  <1>3. open = active_procs /\ open' = active_procs' /\ Matches
    BY <1>1 DEF HandleInv
  <1> SUFFICES Matches'
    BY <1>2, <1>3
  <1>4. /\ Wake # Sig /\ Wake # Ctl /\ LoopFds = {Wake, Sig, Ctl}
        /\ \A p \in Procs : Fds(slot[p]) \cap LoopFds = {}
        /\ \A s \in Slots : Fds(s) \cap LoopFds = {}
    BY FdFacts DEF LoopFds, TypeOK
  <1>5. CASE Run
    <2>1. active_procs = {} /\ cbs = {} /\ registered_fd = {}
      BY <1>5, IdleIsEmpty DEF Run
    <2> QED BY <1>3, <1>4, <1>5, <2>1 DEF Run
  <1>6. CASE RunReturns
    <2>1. active_procs = {} /\ active_procs' = {}
      BY <1>6 DEF RunReturns, EarlyReturn
    <2>2. Sig \notin cbs /\ Ctl \notin cbs
      BY <1>6 DEF RunReturns, WakeTells
    <2>3. cbs \subseteq {Wake}
      BY <1>3, <1>4, <2>1, <2>2
    <2> QED BY <1>3, <1>6, <2>1, <2>3 DEF RunReturns
  <1>7. ASSUME HandleStop, slot' = slot PROVE Matches'
    BY <1>3, <1>4, <1>7 DEF HandleStop
  <1>8. ASSUME NEW p \in Procs, Finishes(p) PROVE Matches'
    <2>1. /\ p \in open /\ open' = open \ {p} /\ active_procs' = active_procs \ {p}
          /\ cbs' = cbs \ Fds(slot[p]) /\ registered_fd' = registered_fd \ Fds(slot[p])
          /\ slot' = slot
      BY <1>3, <1>8, FinishesFinish DEF Finish, Erased, HandleFds
    <2>2. \A q \in open' : Fds(slot[q]) \cap Fds(slot[p]) = {}
      BY <1>3, <2>1 DEF Fds
    <2> QED BY <1>3, <2>1, <2>2
  <1>9. ASSUME NEW p \in Procs, NEW s \in Slots, SpawnProc(p, s) PROVE Matches'
    <2>1. /\ s \in FreeSlots /\ slot' = [slot EXCEPT ![p] = s]
          /\ open' = open \cup {p} /\ active_procs' = active_procs \cup {p}
          /\ cbs' = cbs \cup Fds(s) /\ registered_fd' = registered_fd \cup Fds(s)
      BY <1>9 DEF SpawnProc, ForkExec
    <2>2. p \notin active_procs
      BY <1>9, HeadTailProperties, LenProperties, EmptySeq
         DEF SpawnProc, Remove, HandleInv, OnStopExactlyOnce, JobsWaiting, TypeOK
    <2>3. slot'[p] = s /\ \A q \in open : slot'[q] = slot[q] /\ slot[q] # s
      BY <1>3, <2>1, <2>2 DEF FreeSlots, TypeOK
    <2>4. \A q, r \in open' : slot'[q] = slot'[r] => q = r
      BY <1>3, <2>1, <2>3
    <2>5. registered_fd' = cbs' \ {Wake}
      BY <1>3, <1>4, <2>1
    <2>6. \A f : f \in cbs' \ LoopFds <=> \E q \in active_procs' : f \in Fds(slot'[q])
      BY <1>3, <1>4, <2>1, <2>3
    <2> QED BY <2>4, <2>5, <2>6
  <1>10. CASE UNCHANGED <<open, slot, registered_fd, cbs, active_procs>>
    BY <1>3, <1>10
  <1>11. ASSUME NEW flag, NEW signum, JobNullptrStop(flag, signum), dispatchUnchanged
         PROVE  Matches'
    <2>1. CASE NoneActive
      BY <1>7, <1>11, <2>1 DEF JobNullptrStop
    <2>2. CASE ~NoneActive
      BY <1>10, <1>11, <2>2 DEF JobNullptrStop
    <2> QED BY <2>1, <2>2
  <1>12. CASE ReadSignalEmpty \/ DispatchNull \/ DispatchStop
    BY <1>7, <1>11, <1>12 DEF ReadSignalEmpty, DispatchNull, DispatchStop
  <1>13. ASSUME NEW p \in Procs, Exec(p) \/ UserStop(p) \/ ChildLeaves(p) \/ ChildExit(p)
                                     \/ ChildStops(p) \/ ReapOther(p) \/ SpawnFails(p)
         PROVE  UNCHANGED <<open, slot, registered_fd, cbs, active_procs>>
    BY <1>13 DEF Exec, UserStop, ChildLeaves, ChildExit, ChildStops, ReapOther,
                 SpawnFails, kernelUnchanged
  <1>14. ASSUME NEW p \in Procs, NEW k \in Streams, ChildWrite(p, k) \/ ReadStream(p, k)
         PROVE  UNCHANGED <<open, slot, registered_fd, cbs, active_procs>>
    BY <1>14 DEF ChildWrite, ReadStream, kernelUnchanged, streamUnchanged
  <1>15. ASSUME NEW f \in Flags, NEW n \in KillNums, Stop(f, n)
         PROVE  UNCHANGED <<open, slot, registered_fd, cbs, active_procs>>
    BY <1>15 DEF Stop
  <1>16. ASSUME Interrupt \/ SignalHandler \/ Select \/ ReadSignal \/ ReapDone
                    \/ ReadControl \/ DropJob \/ Terminated
         PROVE  UNCHANGED <<open, slot, registered_fd, cbs, active_procs>>
    BY <1>16 DEF Interrupt, SignalHandler, Select, ReadSignal, ReapDone, ReadControl,
                 DropJob, Terminated, kernelUnchanged
  <1> HIDE DEF Matches
  <1> QED BY <1>5, <1>6, <1>8, <1>9, <1>10, <1>12, <1>13, <1>14, <1>15, <1>16
          DEF Next, Caller, Kernel, Loop, Finishes

\* A watched child that has exited is found: a SIGCHLD is pending, or its number
\* is in the pipe, or the loop of ::waitpid calls has not ended.
LEMMA LostStep ==
    ASSUME TypeOK, open = active_procs, WakeTells, DescriptorsMatch, NoLostChild,
           [Next]_vars, ~EarlyReturn
    PROVE  NoLostChild'
  <1> USE DEF NoLostChild, Reapable
  <1>0. child \in [Procs -> {"none", "running", "zombie", "reaped"}]
        /\ active_procs \subseteq Procs /\ sig_pipe \in 0..SigCap
    BY DEF TypeOK
  <1>1. ASSUME NEW p \in Procs, ChildExit(p) PROVE NoLostChild'
    BY <1>0, <1>1, IdleIsEmpty DEF ChildExit, kernelUnchanged
  <1>2. ASSUME NEW p \in Procs, ChildStops(p) \/ ChildLeaves(p) PROVE NoLostChild'
    BY <1>0, <1>2 DEF ChildStops, ChildLeaves, kernelUnchanged
  <1>3. CASE SignalHandler
    <2>1. sig_pipe' > 0
      BY <1>3, PutType, PexecMultiAssumption DEF SignalHandler, TypeOK
    <2> QED BY <1>3, <2>1 DEF SignalHandler, kernelUnchanged
  <1>4. CASE Run \/ RunReturns
    BY <1>4, IdleIsEmpty DEF Run, RunReturns, EarlyReturn
  <1>5. CASE ReadSignal
    BY <1>5 DEF ReadSignal
  <1>6. ASSUME NEW p \in Procs, NEW k \in Streams, ReadStreamFails(p, k)
        PROVE  NoLostChild'
    <2>1. active_procs' \subseteq active_procs /\ pc = "pass"
      BY <1>6 DEF ReadStreamFails, Finish, Erased
    <2> QED BY <1>6, <2>1 DEF ReadStreamFails, streamUnchanged
  <1>7. ASSUME NEW p \in Procs, ReadClose(p) PROVE NoLostChild'
    <2>1. active_procs' \subseteq active_procs /\ pc = "pass"
      BY <1>7 DEF ReadClose, Finish, Erased
    <2> QED BY <1>7, <2>1 DEF ReadClose, streamUnchanged
  <1>8. ASSUME NEW p \in Procs, ReapActive(p) PROVE NoLostChild'
    <2>1. HandleFds(p) \subseteq cbs
      BY <1>8 DEF ReapActive, DescriptorsMatch, HandleFds
    <2> QED BY <1>8, <2>1 DEF ReapActive
  <1>9. ASSUME NEW p \in Procs, ReapOther(p) PROVE NoLostChild'
    BY <1>9 DEF ReapOther
  <1>10. CASE ReapDone
    BY <1>0, <1>10 DEF ReapDone, NothingToReap
  <1>11. ASSUME NEW p \in Procs, NEW s \in Slots, SpawnProc(p, s) PROVE NoLostChild'
    BY <1>0, <1>11 DEF SpawnProc, ForkExec, Remove
  <1>12. ASSUME NEW p \in Procs, SpawnFails(p) PROVE NoLostChild'
    BY <1>12 DEF SpawnFails, Remove
  <1>13. CASE /\ UNCHANGED <<active_procs, child, outside, sig_pending, sig_pipe>>
              /\ pc' = pc \/ pc # "reap"
    BY <1>13
  <1>14. ASSUME NEW p \in Procs, Exec(p) \/ UserStop(p)
         PROVE  UNCHANGED <<active_procs, child, outside, sig_pending, sig_pipe, pc>>
    BY <1>14 DEF Exec, UserStop
  <1>15. ASSUME NEW p \in Procs, NEW k \in Streams, ChildWrite(p, k) \/ ReadStream(p, k)
         PROVE  /\ UNCHANGED <<active_procs, child, outside, sig_pending, sig_pipe>>
                /\ pc' = pc \/ pc # "reap"
    BY <1>15 DEF ChildWrite, ReadStream, kernelUnchanged, streamUnchanged
  <1>16. ASSUME NEW f \in Flags, NEW n \in KillNums, Stop(f, n)
         PROVE  UNCHANGED <<active_procs, child, outside, sig_pending, sig_pipe, pc>>
    BY <1>16 DEF Stop
  <1>17. ASSUME Interrupt \/ Select \/ ReadSignalEmpty \/ ReadControl \/ DispatchNull
                    \/ DispatchStop \/ DropJob \/ Terminated
         PROVE  /\ UNCHANGED <<active_procs, child, outside, sig_pending, sig_pipe>>
                /\ pc' = pc \/ pc # "reap"
    BY <1>17 DEF Interrupt, Select, ReadSignalEmpty, ReadControl, DispatchNull, Remove,
                 DispatchStop, DropJob, Terminated, HandleStop, JobNullptrStop,
                 dispatchUnchanged
  <1> QED BY <1>1, <1>2, <1>3, <1>4, <1>5, <1>6, <1>7, <1>8, <1>9, <1>10, <1>11, <1>12,
             <1>13, <1>14, <1>15, <1>16, <1>17 DEF Next, Caller, Kernel, Loop

\* As long as run() does not return with a process left, the tables keep to agree and
\* no exit is lost.
LEMMA ConsistentStep ==
    ASSUME TypeOK, HandleInv, WakeTells, Consistent, [Next]_vars, HandleInv', ~EarlyReturn
    PROVE  Consistent'
  BY DescriptorStep, LostStep DEF Consistent, HandleInv

\* No step but that of the wake-up pipe leaves run().
LEMMA OnlyRunReturns == Next /\ pc # "idle" /\ pc' = "idle" => RunReturns
  <1> SUFFICES ASSUME Next, pc # "idle", pc' = "idle", ~RunReturns PROVE FALSE
    OBVIOUS
  <1>1. ASSUME NEW p \in Procs, Exec(p) \/ UserStop(p) \/ ChildLeaves(p) \/ ChildExit(p)
                                    \/ ChildStops(p) \/ ReapOther(p)
        PROVE  pc' = pc
    BY <1>1 DEF Exec, UserStop, ChildLeaves, ChildExit, ChildStops, ReapOther, kernelUnchanged
  <1>2. ASSUME NEW f \in Flags, NEW n \in KillNums, Stop(f, n) PROVE pc' = pc
    BY <1>2 DEF Stop
  <1>3. ASSUME NEW p \in Procs, NEW k \in Streams, ChildWrite(p, k) PROVE pc' = pc
    BY <1>3 DEF ChildWrite, kernelUnchanged
  <1>4. ASSUME Interrupt \/ SignalHandler \/ Terminated PROVE pc' = pc
    BY <1>4 DEF Interrupt, SignalHandler, Terminated, kernelUnchanged
  <1>5. ASSUME Run \/ Select \/ ReadSignal \/ ReadSignalEmpty \/ ReapDone \/ ReadControl
        PROVE  pc' # "idle"
    BY <1>5 DEF Run, Select, ReadSignal, ReadSignalEmpty, ReapDone, ReadControl,
                HandleStop, Resume
  <1>6. ASSUME DispatchNull \/ DispatchStop \/ DropJob PROVE pc' # "idle"
    BY <1>6 DEF DispatchNull, DispatchStop, DropJob, JobNullptrStop, HandleStop, Resume
  <1>7. ASSUME NEW p \in Procs, NEW s \in Slots, SpawnProc(p, s) PROVE pc' # "idle"
    BY <1>7 DEF SpawnProc, Resume
  <1>8. ASSUME NEW p \in Procs, SpawnFails(p) PROVE pc' # "idle"
    BY <1>8 DEF SpawnFails
  <1>9. ASSUME NEW p \in Procs, NEW k \in Streams, ReadStream(p, k) PROVE pc' # "idle"
    BY <1>9 DEF ReadStream, Resume
  <1>10. ASSUME NEW p \in Procs, Finishes(p) PROVE pc' # "idle"
    BY <1>10, FinishesFinish
  <1> QED BY <1>1, <1>2, <1>3, <1>4, <1>5, <1>6, <1>7, <1>8, <1>9, <1>10
          DEF Next, Caller, Kernel, Loop, Finishes

-----------------------------------------------------------------------------
(* What user_stop() and STOP_USER write, and who is told USER_STOPPED.     *)

\* The close-watch pipes, the numbers of the handles and the stop in progress change
\* in the steps that start or end a handle, in user_stop() and in a stop.
LEMMA WatchSteps ==
    ASSUME [Next]_vars, ~ReadSignalEmpty, ~DispatchNull, ~DispatchStop,
           \A p \in Procs : ~UserStop(p) /\ ~Finishes(p) /\ ~SpawnFails(p),
           \A p \in Procs, s \in Slots : ~SpawnProc(p, s)
    PROVE  UNCHANGED <<watch, asked, slot, open, state, stopping, stop_flag>>
  <1>1. ASSUME NEW p \in Procs,
               Exec(p) \/ ChildLeaves(p) \/ ChildExit(p) \/ ChildStops(p) \/ ReapOther(p)
        PROVE  UNCHANGED <<watch, asked, slot, open, state, stopping, stop_flag>>
    BY <1>1 DEF Exec, ChildLeaves, ChildExit, ChildStops, ReapOther, kernelUnchanged
  <1>2. ASSUME NEW f \in Flags, NEW n \in KillNums, Stop(f, n)
        PROVE  UNCHANGED <<watch, asked, slot, open, state, stopping, stop_flag>>
    BY <1>2 DEF Stop
  <1>3. ASSUME NEW p \in Procs, NEW k \in Streams, ChildWrite(p, k) \/ ReadStream(p, k)
        PROVE  UNCHANGED <<watch, asked, slot, open, state, stopping, stop_flag>>
    BY <1>3 DEF ChildWrite, ReadStream, kernelUnchanged, streamUnchanged
  <1>4. ASSUME Interrupt \/ SignalHandler \/ Run \/ Select \/ RunReturns \/ ReadSignal
                   \/ ReapDone \/ ReadControl \/ DropJob \/ Terminated
        PROVE  UNCHANGED <<watch, asked, slot, open, state, stopping, stop_flag>>
    BY <1>4 DEF Interrupt, SignalHandler, Run, Select, RunReturns, ReadSignal, ReapDone,
                ReadControl, DropJob, Terminated, kernelUnchanged, dispatchUnchanged
  <1>5. CASE UNCHANGED vars
    BY <1>5
  <1> QED BY <1>1, <1>2, <1>3, <1>4, <1>5 DEF Next, Caller, Kernel, Loop, Finishes

\* A stop writes to the close-watch pipes of the watched processes at most, and takes
\* back its flag only when none is left.
LEMMA StopWrites ==
    ASSUME TypeOK, DispatchNull \/ DispatchStop
    PROVE  /\ UNCHANGED <<asked, slot, open, state>>
           /\ watch \subseteq watch' /\ watch' \subseteq watch \cup active_procs
           /\ \/ active_procs = {} /\ watch' = watch
              \/ watch' = watch /\ stopping' = stopping /\ stop_flag' = stop_flag
              \/ watch' = watch /\ ~stopping
              \/ stopping' = TRUE /\ stop_flag' = "STOP_USER"
  <1>1. ASSUME NEW flag, NEW signum, JobNullptrStop(flag, signum), dispatchUnchanged,
               stopping => flag = stop_flag
        PROVE  /\ UNCHANGED <<asked, slot, open, state>>
               /\ watch \subseteq watch' /\ watch' \subseteq watch \cup active_procs
               /\ \/ active_procs = {} /\ watch' = watch
                  \/ watch' = watch /\ stopping' = stopping /\ stop_flag' = stop_flag
                  \/ watch' = watch /\ ~stopping
                  \/ stopping' = TRUE /\ stop_flag' = "STOP_USER"
    <2>1. CASE NoneActive
      BY <1>1, <2>1 DEF JobNullptrStop, NoneActive, HandleStop, dispatchUnchanged
    <2>2. CASE ~NoneActive /\ stopping
      BY <1>1, <2>2 DEF JobNullptrStop, dispatchUnchanged
    <2>3. CASE ~NoneActive /\ ~stopping
      BY <1>1, <2>3 DEF JobNullptrStop, Cleanup, dispatchUnchanged
    <2> QED BY <2>1, <2>2, <2>3
  <1>2. CASE DispatchNull
    BY <1>1, <1>2 DEF DispatchNull
  <1>3. CASE DispatchStop
    BY <1>1, <1>3 DEF DispatchStop
  <1> QED BY <1>2, <1>3

\* A handle that is spawned was never reported, has no numbers and no data waiting.
LEMMA SpawnedIsNew ==
    ASSUME TypeOK, HandleInv, NumbersKept,
           NEW p \in Procs, Remove, Head(buffer) = SpawnJob(p)
    PROVE  /\ state[p] = "NONE" /\ slot[p] = NoSlot
           /\ p \notin asked /\ p \notin watch /\ p \notin open
  <1>1. Len(buffer) >= 1 /\ buffer[1] = SpawnJob(p)
    BY EmptySeq, LenProperties DEF Remove, TypeOK
  <1>2. state[p] = "NONE"
    BY <1>1 DEF HandleInv, JobsWaiting
  <1> QED BY <1>2 DEF HandleInv, OnStopExactlyOnce, NumbersKept, TypeOK

\* A handle keeps the numbers it was spawned with; data in a close-watch pipe goes
\* with the pipe.
LEMMA NumbersStep ==
    ASSUME TypeOK, HandleInv, NumbersKept, [Next]_vars
    PROVE  NumbersKept'
  <1> USE DEF NumbersKept
  <1>0. /\ state \in [Procs -> {"NONE", "STARTED"} \cup Final]
        /\ slot \in [Procs -> Slots \cup {NoSlot}]
        /\ asked \subseteq Procs /\ open = active_procs /\ NoSlot \notin Slots
    BY PexecMultiAssumption DEF TypeOK, HandleInv, NoSlot
  <1>1. ASSUME NEW p \in Procs, UserStop(p) PROVE NumbersKept'
    BY <1>0, <1>1 DEF UserStop
  <1>2. ASSUME NEW p \in Procs, Finishes(p) PROVE NumbersKept'
    <2>1. PICK final \in Final : Finish(p, final)
      BY <1>2, FinishesFinish
    <2>2. /\ open' = open \ {p} /\ watch' = watch \ {p} /\ slot' = slot /\ asked' = asked
          /\ state' = [state EXCEPT ![p] = final] /\ "NONE" \notin Final
      BY <1>2, <2>1, FinishesFinish DEF Finish, StateCb, Final
    <2> QED BY <1>0, <2>2
  <1>3. CASE DispatchNull \/ DispatchStop
    BY <1>0, <1>3, StopWrites
  <1>4. ASSUME NEW p \in Procs, NEW s \in Slots, SpawnProc(p, s) PROVE NumbersKept'
    <2>1. /\ slot' = [slot EXCEPT ![p] = s] /\ open' = open \cup {p}
          /\ state' = [state EXCEPT ![p] = "STARTED"]
          /\ UNCHANGED <<asked, watch>>
      BY <1>4 DEF SpawnProc, ForkExec
    <2> QED BY <1>0, <2>1
  <1>5. ASSUME NEW p \in Procs, SpawnFails(p) PROVE NumbersKept'
    <2>1. /\ state' = [state EXCEPT ![p] = "FAIL_STOPPED"]
          /\ UNCHANGED <<asked, watch, slot, open>>
      BY <1>5 DEF SpawnFails, StateCb
    <2> QED BY <1>0, <2>1
  <1>6. CASE ReadSignalEmpty
    BY <1>6 DEF ReadSignalEmpty, HandleStop
  <1>7. CASE UNCHANGED <<watch, asked, slot, open, state>>
    BY <1>7
  <1> QED BY <1>1, <1>2, <1>3, <1>4, <1>5, <1>6, <1>7, WatchSteps

\* Data in a close-watch pipe has a cause that still stands: the stop that wrote it
\* is in progress, or a user asked under the number that the pipe has.
LEMMA CauseStep ==
    ASSUME ~Rehash, TypeOK, HandleInv, NumbersKept, StopsInOrder,
           \A p \in watch : StopAsked(p), [Next]_vars
    PROVE  \A p \in watch' : StopAsked(p)'
  <1> DEFINE Caused == \A p \in watch : StopAsked(p)
  <1> SUFFICES Caused'
    OBVIOUS
  <1>0. watch \subseteq open /\ open = active_procs /\ active_procs \subseteq Procs /\ Caused
    BY DEF NumbersKept, HandleInv, TypeOK
  <1>1. ASSUME NEW p \in Procs, UserStop(p) PROVE Caused'
    BY <1>0, <1>1 DEF UserStop, StopAsked
  <1>2. ASSUME NEW p \in Procs, Finishes(p) PROVE Caused'
    <2>1. watch' = watch \ {p} /\ UNCHANGED <<slot, asked, stopping, stop_flag>>
      BY <1>2, FinishesFinish DEF Finish
    <2> QED BY <1>0, <2>1 DEF StopAsked
  <1>3. CASE DispatchNull \/ DispatchStop
    <2>1. /\ UNCHANGED <<asked, slot>> /\ watch' \subseteq watch \cup active_procs
          /\ \/ active_procs = {} /\ watch' = watch
             \/ watch' = watch /\ stopping' = stopping /\ stop_flag' = stop_flag
             \/ watch' = watch /\ ~stopping
             \/ stopping' = TRUE /\ stop_flag' = "STOP_USER"
      BY <1>3, StopWrites
    <2>2. CASE active_procs = {} /\ watch' = watch
      BY <1>0, <2>2
    <2>3. CASE stopping' = TRUE /\ stop_flag' = "STOP_USER"
      BY <2>3 DEF StopAsked
    <2>4. CASE watch' = watch /\ (~stopping \/ UNCHANGED <<stopping, stop_flag>>)
      BY <1>0, <2>1, <2>4 DEF StopAsked
    <2> QED BY <2>1, <2>2, <2>3, <2>4
  <1>4. ASSUME NEW p \in Procs, NEW s \in Slots, SpawnProc(p, s) PROVE Caused'
    <2>1. /\ slot' = [slot EXCEPT ![p] = s]
          /\ UNCHANGED <<asked, watch, stopping, stop_flag>>
          /\ p \notin asked /\ p \notin watch
      BY <1>4, SpawnedIsNew DEF SpawnProc, ForkExec
    <2>2. \A q \in asked \cup watch : slot'[q] = slot[q]
      BY <1>0, <2>1 DEF TypeOK
    <2> QED BY <1>0, <2>1, <2>2 DEF StopAsked
  <1>5. ASSUME NEW p \in Procs, SpawnFails(p) PROVE Caused'
    BY <1>0, <1>5 DEF SpawnFails, StopAsked
  <1>6. ~ReadSignalEmpty
    BY DEF ReadSignalEmpty, StopsInOrder
  <1>7. CASE UNCHANGED <<watch, asked, slot, stopping, stop_flag>>
    BY <1>0, <1>7 DEF StopAsked
  <1> HIDE DEF Caused
  <1> QED BY <1>1, <1>2, <1>3, <1>4, <1>5, <1>6, <1>7, WatchSteps

-----------------------------------------------------------------------------
(* The inductive invariant, and what follows from it.                      *)

\* What a handle has been reported and its child change in five kinds of steps only.
LEMMA QuietSteps ==
    ASSUME [Next]_vars,
           \A p \in Procs : ~ChildExit(p) /\ ~Finishes(p) /\ ~ReapOther(p) /\ ~SpawnFails(p),
           \A p \in Procs, s \in Slots : ~SpawnProc(p, s)
    PROVE  UNCHANGED <<state, on_stop, child>>
  <1>1. ASSUME NEW p \in Procs, Exec(p) \/ UserStop(p) \/ ChildLeaves(p) \/ ChildStops(p)
        PROVE  UNCHANGED <<state, on_stop, child>>
    BY <1>1 DEF Exec, UserStop, ChildLeaves, ChildStops, kernelUnchanged
  <1>2. ASSUME NEW f \in Flags, NEW n \in KillNums, Stop(f, n)
        PROVE  UNCHANGED <<state, on_stop, child>>
    BY <1>2 DEF Stop
  <1>3. ASSUME NEW p \in Procs, NEW k \in Streams, ChildWrite(p, k) \/ ReadStream(p, k)
        PROVE  UNCHANGED <<state, on_stop, child>>
    BY <1>3 DEF ChildWrite, ReadStream, kernelUnchanged, streamUnchanged
  <1>4. ASSUME Interrupt \/ SignalHandler \/ Run \/ Select \/ RunReturns \/ ReadSignal
                   \/ ReadSignalEmpty \/ ReapDone \/ ReadControl \/ Terminated
        PROVE  UNCHANGED <<state, on_stop, child>>
    BY <1>4 DEF Interrupt, SignalHandler, Run, Select, RunReturns, ReadSignal,
                ReadSignalEmpty, ReapDone, ReadControl, Terminated, kernelUnchanged
  <1>5. ASSUME DispatchNull \/ DispatchStop \/ DropJob
        PROVE  UNCHANGED <<state, on_stop, child>>
    BY <1>5 DEF DispatchNull, DispatchStop, DropJob, dispatchUnchanged, JobNullptrStop
  <1>6. CASE UNCHANGED vars
    BY <1>6
  <1> QED BY <1>1, <1>2, <1>3, <1>4, <1>5, <1>6 DEF Next, Caller, Kernel, Loop, Finishes

\* A handle with a child has been reported STARTED.
LEMMA ChildlessStep == TypeOK /\ open = active_procs /\ OnStopExactlyOnce /\ Childless
                           /\ [Next]_vars => Childless'
  <1> SUFFICES ASSUME TypeOK, open = active_procs, OnStopExactlyOnce, Childless, [Next]_vars
               PROVE  Childless'
    OBVIOUS
  <1> USE DEF Childless
  <1>0. /\ state \in [Procs -> {"NONE", "STARTED"} \cup Final]
        /\ child \in [Procs -> {"none", "running", "zombie", "reaped"}]
    BY DEF TypeOK
  <1>1. ASSUME NEW p \in Procs, ChildExit(p) PROVE Childless'
    BY <1>0, <1>1 DEF ChildExit, kernelUnchanged, handleVars
  <1>2. ASSUME NEW p \in Procs, Finishes(p) PROVE Childless'
    <2>1. PICK final \in Final : Finish(p, final)
      BY <1>2, FinishesFinish
    <2>2. state' = [state EXCEPT ![p] = final] /\ "NONE" \notin Final
      BY <2>1 DEF Finish, StateCb, Final
    <2>3. child' = child \/ child' = [child EXCEPT ![p] = "reaped"]
      BY <1>2 DEF Finishes, ReadStreamFails, ReadClose, ReapActive, streamUnchanged, childVars
    <2> QED BY <1>0, <2>2, <2>3
  <1>3. ASSUME NEW p \in Procs, ReapOther(p) PROVE Childless'
    BY <1>0, <1>3 DEF ReapOther, Reapable, handleVars
  <1>4. ASSUME NEW p \in Procs, NEW s \in Slots, SpawnProc(p, s) PROVE Childless'
    BY <1>0, <1>4 DEF SpawnProc, ForkExec
  <1>5. ASSUME NEW p \in Procs, SpawnFails(p) PROVE Childless'
    BY <1>0, <1>5 DEF SpawnFails, StateCb, childVars
  <1>6. CASE UNCHANGED <<state, child>>
    BY <1>6
  <1> QED BY <1>1, <1>2, <1>3, <1>4, <1>5, <1>6, QuietSteps

-----------------------------------------------------------------------------
(* What select_event is asked to add and to remove.                        *)

\* The select map, the numbers and pipes of the handles, and the wake-up pipe change
\* in the steps that start or end a handle, start or end run(), or stop.
LEMMA MapSteps ==
    ASSUME [Next]_vars, ~Run, ~RunReturns, ~ReadSignalEmpty, ~DispatchNull, ~DispatchStop,
           \A p \in Procs : ~Finishes(p) /\ ~SpawnFails(p),
           \A p \in Procs, s \in Slots : ~SpawnProc(p, s)
    PROVE  /\ UNCHANGED <<slot, open, cbs, interrupted>>
           /\ pc' = pc \/ (pc # "idle" /\ pc' \notin {"idle", "abort"})
  <1> DEFINE Quiet == /\ UNCHANGED <<slot, open, cbs, interrupted>>
                      /\ pc' = pc \/ (pc # "idle" /\ pc' \notin {"idle", "abort"})
  <1>1. ASSUME NEW p \in Procs,
               Exec(p) \/ UserStop(p) \/ ChildLeaves(p) \/ ChildExit(p) \/ ChildStops(p)
        PROVE  Quiet
    BY <1>1 DEF Exec, UserStop, ChildLeaves, ChildExit, ChildStops, kernelUnchanged
  <1>2. ASSUME NEW p \in Procs, NEW k \in Streams, ChildWrite(p, k) \/ ReadStream(p, k)
        PROVE  Quiet
    BY <1>2 DEF ChildWrite, ReadStream, Resume, kernelUnchanged, streamUnchanged
  <1>3. ASSUME NEW p \in Procs, ReapOther(p) PROVE Quiet
    BY <1>3 DEF ReapOther
  <1>4. ASSUME NEW f \in Flags, NEW n \in KillNums, Stop(f, n) PROVE Quiet
    BY <1>4 DEF Stop
  <1>5. ASSUME Interrupt \/ SignalHandler \/ Terminated \/ UNCHANGED vars PROVE Quiet
    BY <1>5 DEF Interrupt, SignalHandler, Terminated, kernelUnchanged
  <1>6. ASSUME Select \/ ReadSignal \/ ReapDone \/ ReadControl \/ DropJob PROVE Quiet
    BY <1>6 DEF Select, ReadSignal, ReapDone, ReadControl, DropJob, Remove, Resume,
                dispatchUnchanged
  <1> QED BY <1>1, <1>2, <1>3, <1>4, <1>5, <1>6 DEF Next, Caller, Kernel, Loop, Finishes

\* A stop of the loop thread takes the two descriptors away as it interrupts the loop,
\* or leaves the map as it is.
LEMMA StopMap ==
    ASSUME DispatchNull \/ DispatchStop
    PROVE  /\ pc = "dispatch" /\ pc' \in {"select", "pass"} /\ UNCHANGED <<slot, open>>
           /\ \/ interrupted' = TRUE
              \/ UNCHANGED <<cbs, interrupted>>
  <1>1. ASSUME NEW flag, NEW signum, JobNullptrStop(flag, signum), dispatchUnchanged
        PROVE  /\ pc' \in {"select", "pass"} /\ UNCHANGED <<slot, open>>
               /\ interrupted' = TRUE \/ UNCHANGED <<cbs, interrupted>>
    <2>1. CASE NoneActive
      BY <1>1, <2>1 DEF JobNullptrStop, HandleStop, Resume
    <2>2. CASE ~NoneActive
      BY <1>1, <2>2 DEF JobNullptrStop, Resume
    <2> QED BY <2>1, <2>2
  <1> QED BY <1>1 DEF DispatchNull, DispatchStop, Remove

\* The loop's descriptors stay in the map while run() is not about to return.
LEMMA WatchedStep == TypeOK /\ LoopWatched /\ [Next]_vars => LoopWatched'
  <1> SUFFICES ASSUME TypeOK, LoopWatched, [Next]_vars PROVE LoopWatched'
    OBVIOUS
  <1> USE DEF LoopWatched
  <1>1. CASE Run \/ RunReturns \/ ReadSignalEmpty
    BY <1>1 DEF Run, RunReturns, ReadSignalEmpty, HandleStop
  <1>2. CASE DispatchNull \/ DispatchStop
    BY <1>2, StopMap
  <1>3. ASSUME NEW p \in Procs, Finishes(p) PROVE LoopWatched'
    <2>1. cbs' = cbs \ Fds(slot[p]) /\ interrupted' = interrupted /\ pc # "idle"
      BY <1>3, FinishesFinish
         DEF Finish, HandleFds, Finishes, ReadStreamFails, ReadClose, ReapActive
    <2>2. Fds(slot[p]) \cap LoopFds = {}
      BY FdFacts DEF TypeOK
    <2> QED BY <2>1, <2>2
  <1>4. ASSUME NEW p \in Procs, NEW s \in Slots, SpawnProc(p, s) PROVE LoopWatched'
    BY <1>4 DEF SpawnProc, Remove
  <1>5. ASSUME NEW p \in Procs, SpawnFails(p) PROVE LoopWatched'
    BY <1>5 DEF SpawnFails, Remove
  <1> QED BY <1>1, <1>2, <1>3, <1>4, <1>5, MapSteps

\* The inductive invariant holds before anything is called.
LEMMA InitIInv == Init => IInv
  <1> SUFFICES ASSUME Init PROVE IInv
    OBVIOUS
  <1>1. TypeOK
    BY TypeInit
  <1>2. open = active_procs /\ OnStopExactlyOnce /\ HandlesExecd /\ Childless /\ ActivePidsValid
    BY DEF Init, OnStopExactlyOnce, HandlesExecd, Childless, ActivePidsValid, Final
  <1>3. JobsWaiting /\ RemoveNeverBlocks /\ StopAnswered /\ JobsHaveBytes
    BY EmptySeq DEF Init, JobsWaiting, RemoveNeverBlocks, StopAnswered, JobsHaveBytes
  <1>4. BufferBounded
    <2>1. Len(buffer) = 0 /\ NullJobDue = 0 /\ Cardinality(execd) = 0 /\ stops = 0
      BY EmptySeq, FS_EmptySet DEF Init, NullJobDue
    <2> QED BY <2>1 DEF BufferBounded
  <1>5. NumbersKept /\ LoopWatched /\ \A p \in watch : StopAsked(p)
    BY DEF Init, NumbersKept, LoopWatched
  <1>6. WakeTells /\ StopsInOrder /\ DescriptorsMatch /\ NoLostChild
    BY DEF Init, WakeTells, StopsInOrder, DescriptorsMatch, NoLostChild
  <1> QED BY <1>1, <1>2, <1>3, <1>4, <1>5, <1>6 DEF IInv, Consistent

\* Every step keeps the inductive invariant.
LEMMA NextIInv == IInv /\ [Next]_vars => IInv'
  <1> SUFFICES ASSUME IInv, [Next]_vars PROVE IInv'
    OBVIOUS
  <1>0. /\ TypeOK /\ HandleInv /\ open = active_procs /\ OnStopExactlyOnce /\ Childless
        /\ ActivePidsValid /\ RemoveNeverBlocks /\ StopAnswered
        /\ BufferBounded /\ (IsFiniteSet(Procs) => JobsHaveBytes) /\ NumbersKept
        /\ LoopWatched /\ WakeTells
    BY DEF IInv, HandleInv
  <1>1. TypeOK'
    BY <1>0, TypeStep
  <1>2. HandleInv'
    BY <1>0, HandleStep
  <1>3. ActivePidsValid' /\ RemoveNeverBlocks' /\ StopAnswered' /\ Childless'
    BY <1>0, PidStep, RemoveStep, AnswerStep, ChildlessStep
  <1>4. BufferBounded'
    BY <1>0, BoundStep DEF BufferBounded
  <1>5. (IsFiniteSet(Procs) => JobsHaveBytes)'
    BY <1>0, BytesStep
  <1>6. NumbersKept' /\ LoopWatched' /\ WakeTells'
    BY <1>0, NumbersStep, WatchedStep, WakeStep
  <1>7. ASSUME ~Rehash
        PROVE  /\ StopsInOrder' /\ Consistent'
               /\ (\A p \in watch : StopAsked(p))'
    <2>1. StopsInOrder /\ Consistent /\ \A p \in watch : StopAsked(p)
      BY <1>7 DEF IInv
    <2>2. StopsInOrder'
      BY <1>0, <1>7, <2>1, OrderStep
    <2>3. ~EarlyReturn
      BY <1>0, <2>1, OnlyRunReturns DEF EarlyReturn, RunReturns, WakeTells, StopsInOrder
    <2>4. Consistent'
      BY <1>0, <1>2, <2>1, <2>3, ConsistentStep
    <2>5. (\A p \in watch : StopAsked(p))'
      BY <1>0, <1>7, <2>1, CauseStep
    <2> QED BY <2>2, <2>4, <2>5
  <1> QED BY <1>1, <1>2, <1>3, <1>4, <1>5, <1>6, <1>7 DEF IInv, HandleInv

\* The inductive invariant holds for ever, for every value of the constants.
THEOREM Inductive == Spec => []IInv
  BY InitIInv, NextIInv, PTL DEF Spec

\* on_stop_cb_ runs exactly once for each handle that ends, and active_procs_
\* holds those that have started and not ended: for any number of processes, any
\* pipe capacities and any order of the callers, the kernel and the loop.
THEOREM OnStopOnce == Spec => []OnStopExactlyOnce
  <1>1. IInv => OnStopExactlyOnce
    BY DEF IInv
  <1> QED BY <1>1, Inductive, PTL

\* cleanup() signals no pid that has been reaped.
THEOREM PidsValid == Spec => []ActivePidsValid
  <1>1. IInv => ActivePidsValid
    BY DEF IInv
  <1> QED BY <1>1, Inductive, PTL

\* queue_buffer::remove() never blocks the loop thread.
THEOREM NeverBlocked == Spec => []RemoveNeverBlocks
  <1>1. IInv => RemoveNeverBlocks
    BY DEF IInv
  <1> QED BY <1>1, Inductive, PTL

\* As long as the control pipe has room for every exec() and stop(), no byte is lost:
\* each job in the buffer has its own, in the pipe or owed by its caller.
THEOREM EveryJobHasByte == ASSUME IsFiniteSet(Procs) PROVE Spec => []JobsHaveBytes
  <1>1. IInv => JobsHaveBytes
    BY DEF IInv
  <1> QED BY <1>1, Inductive, PTL

\* A stop in progress with no process left has its null job in the buffer.
THEOREM StopIsAnswered == Spec => []StopAnswered
  <1>1. IInv => StopAnswered
    BY DEF IInv
  <1> QED BY <1>1, Inductive, PTL

\* With no rehash, the descriptors of the select map, of do_action's map and of
\* the watched processes agree: no assertion of select_event fails.
THEOREM Descriptors == ASSUME ~Rehash PROVE Spec => []DescriptorsMatch
  <1>1. IInv => DescriptorsMatch
    BY DEF IInv, Consistent
  <1> QED BY <1>1, Inductive, PTL

\* With no rehash, the exit of a watched child of the process group is never
\* lost, however signals coalesce and however many the pipe holds.
THEOREM NoneLost == ASSUME ~Rehash PROVE Spec => []NoLostChild
  <1>1. IInv => NoLostChild
    BY DEF IInv, Consistent
  <1> QED BY <1>1, Inductive, PTL

\* With no rehash, run() leaves nothing behind when it has returned: no handle is
\* STARTED, no pipe is open, and both maps are empty.
THEOREM RunLeavesNothing ==
    ASSUME ~Rehash
    PROVE  Spec => [](pc = "idle" =>
                          /\ \A p \in Procs : state[p] # "STARTED"
                          /\ open = {} /\ watch = {} /\ cbs = {} /\ registered_fd = {})
  <1>1. IInv => (pc = "idle" =>
                     /\ \A p \in Procs : state[p] # "STARTED"
                     /\ open = {} /\ watch = {} /\ cbs = {} /\ registered_fd = {})
    BY IdleIsEmpty DEF IInv, Consistent, NumbersKept, OnStopExactlyOnce
  <1> QED BY <1>1, Inductive, PTL

\* With no rehash, run() returns only when no process is left.
THEOREM ReturnsLast == ASSUME ~Rehash PROVE Spec => ReturnsWhenAllStopped
  <1>1. IInv /\ [Next]_vars => [pc # "idle" /\ pc' = "idle" => active_procs = {}]_vars
    <2> SUFFICES ASSUME IInv, Next, pc # "idle", pc' = "idle" PROVE active_procs = {}
      OBVIOUS
    <2>1. RunReturns
      BY OnlyRunReturns
    <2> QED BY <2>1 DEF RunReturns, IInv, WakeTells, StopsInOrder
  <1> QED BY <1>1, Inductive, PTL DEF Spec, ReturnsWhenAllStopped

\* With no rehash, USER_STOPPED has a cause: STOP_USER, or a user_stop() with the
\* number that the process's own close-watch pipe has.
THEOREM UserStopCaused == ASSUME ~Rehash PROVE Spec => UserStopHasCause
  <1> DEFINE A == \A p \in Procs : state[p] # "USER_STOPPED" /\ state'[p] = "USER_STOPPED"
                                      => StopAsked(p)
  <1>1. IInv /\ [Next]_vars => [A]_vars
    <2> SUFFICES ASSUME IInv, [Next]_vars, NEW p \in Procs,
                        state[p] # "USER_STOPPED", state'[p] = "USER_STOPPED"
                 PROVE  StopAsked(p)
      OBVIOUS
    <2>0. state \in [Procs -> {"NONE", "STARTED"} \cup Final]
      BY DEF IInv, TypeOK
    <2>1. p \in watch
      <3>1. ASSUME NEW q \in Procs, NEW k \in Streams, ReadStreamFails(q, k) PROVE FALSE
        BY <2>0, <3>1 DEF ReadStreamFails, Finish, StateCb
      <3>2. ASSUME NEW q \in Procs, ReadClose(q) PROVE p \in watch
        BY <2>0, <3>2 DEF ReadClose, CloseState, Finish, StateCb
      <3>3. ASSUME NEW q \in Procs, ReapActive(q) PROVE FALSE
        BY <2>0, <3>3 DEF ReapActive, Finish, StateCb
      <3>4. ASSUME NEW q \in Procs, NEW s \in Slots, SpawnProc(q, s) PROVE FALSE
        BY <2>0, <3>4 DEF SpawnProc, ForkExec
      <3>5. ASSUME NEW q \in Procs, SpawnFails(q) PROVE FALSE
        BY <2>0, <3>5 DEF SpawnFails, StateCb
      <3>6. ASSUME NEW q \in Procs, ChildExit(q) \/ ReapOther(q) PROVE FALSE
        BY <3>6 DEF ChildExit, ReapOther, kernelUnchanged
      <3>7. CASE state' = state
        BY <3>7
      <3> QED BY <3>1, <3>2, <3>3, <3>4, <3>5, <3>6, <3>7, QuietSteps DEF Finishes
    <2> QED BY <2>1 DEF IInv
  <1> HIDE DEF A
  <1> QED BY <1>1, Inductive, PTL DEF Spec, UserStopHasCause, A

\* The step of a new process adds numbers that are not in the map.
LEMMA SpawnAddsNew ==
    ASSUME TypeOK, DescriptorsMatch, NEW p \in Procs, NEW s \in Slots, SpawnProc(p, s)
    PROVE  /\ Fds(s) \cap cbs = {}
           /\ slot' = [slot EXCEPT ![p] = s] /\ open \subseteq open'
           /\ interrupted' = interrupted /\ pc' # "abort"
  <1>1. /\ s \in FreeSlots /\ slot' = [slot EXCEPT ![p] = s] /\ open' = open \cup {p}
        /\ interrupted' = interrupted
    BY DEF SpawnProc, ForkExec
  <1>2. pc' # "abort"
    BY DEF SpawnProc, Resume
  <1>3. \A q \in active_procs : slot[q] # s
    BY <1>1 DEF FreeSlots, DescriptorsMatch
  <1>4. \A q \in active_procs : Fds(slot[q]) \cap Fds(s) = {}
    BY <1>3 DEF Fds
  <1>5. Fds(s) \cap LoopFds = {}
    BY FdFacts
  <1>6. Fds(s) \cap cbs = {}
    BY <1>4, <1>5 DEF DescriptorsMatch
  <1> QED BY <1>1, <1>2, <1>6

\* The step that ends a handle removes numbers that are all in the map.
LEMMA EndRemovesOwn ==
    ASSUME TypeOK, DescriptorsMatch, NEW p \in Procs, Finishes(p)
    PROVE  /\ open' = open \ {p} /\ Fds(slot[p]) \subseteq cbs
           /\ slot' = slot /\ interrupted' = interrupted /\ pc' # "abort"
  <1>1. /\ p \in open /\ open' = open \ {p} /\ slot' = slot
        /\ interrupted' = interrupted
    BY FinishesFinish DEF Finish, DescriptorsMatch
  <1>2. Fds(slot[p]) \subseteq cbs
    BY <1>1 DEF DescriptorsMatch
  <1>3. pc' # "abort"
    BY <1>2 DEF Finishes, ReadStreamFails, ReadClose, ReapActive, Resume, HandleFds
  <1> QED BY <1>1, <1>2, <1>3

\* While the tables agree, each step keeps the asserts of select_event, and the loop
\* thread dies only of a process that could not be created.
LEMMA AssertStep ==
    ASSUME TypeOK, HandleInv, NumbersKept, LoopWatched, DescriptorsMatch, [Next]_vars
    PROVE  AssertsKept
  <1> USE DEF AssertsKept
  <1>1. ASSUME NEW p \in Procs, NEW s \in Slots, SpawnProc(p, s) PROVE AssertsKept
    BY <1>1, SpawnAddsNew DEF TypeOK
  <1>2. ASSUME NEW p \in Procs, Finishes(p) PROVE AssertsKept
    BY <1>2, EndRemovesOwn
  <1>3. ASSUME NEW p \in Procs, SpawnFails(p) PROVE AssertsKept
    <2>1. /\ UNCHANGED <<slot, open, interrupted>>
          /\ state' = [state EXCEPT ![p] = "FAIL_STOPPED"]
      BY <1>3 DEF SpawnFails, StateCb
    <2>2. state[p] = "NONE"
      BY <1>3, SpawnedIsNew DEF SpawnFails
    <2> QED BY <2>1, <2>2 DEF TypeOK
  <1>4. CASE DispatchNull \/ DispatchStop
    BY <1>4, StopMap DEF LoopWatched, LoopFds
  <1>5. CASE Run
    BY <1>5 DEF Run
  <1>6. CASE RunReturns
    BY <1>6 DEF RunReturns
  <1>7. CASE ReadSignalEmpty
    BY <1>7 DEF ReadSignalEmpty, HandleStop, Resume, LoopWatched, LoopFds
  <1> QED BY <1>1, <1>2, <1>3, <1>4, <1>5, <1>6, <1>7, MapSteps

\* With no rehash the asserts of select_event hold, and the loop thread dies only of a
\* process that could not be created.
THEOREM NoAssertFails == ASSUME ~Rehash PROVE Spec => AssertsHold
  <1>1. IInv /\ [Next]_vars => [AssertsKept]_vars
    BY AssertStep DEF IInv, HandleInv, Consistent
  <1> QED BY <1>1, Inductive, PTL DEF Spec, AssertsHold

\* With any number of processes, and insertions that rehash the select map: as long as
\* run() has not returned with a process left, the four tables agree, no assert of
\* select_event fails and no exit of a watched child is lost.
THEOREM ConsistentUntil == Spec => ConsistentUntilEarly
  <1>1. IInv /\ IInv' /\ [Next]_vars
            => [Consistent => AssertsKept /\ (Consistent' \/ EarlyReturn)]_vars
    BY AssertStep, ConsistentStep DEF IInv, HandleInv, Consistent
  <1> QED BY <1>1, Inductive, PTL DEF Spec, ConsistentUntilEarly

-----------------------------------------------------------------------------
(* The refinement.                                                         *)

\* Taking a spawn job off the buffer finds its handle fresh.
LEMMA SpawnIsFresh ==
    ASSUME IInv, NEW p \in Procs, Remove, Head(buffer) = SpawnJob(p)
    PROVE  state[p] = "NONE" /\ child[p] = "none"
  <1>1. Len(buffer) >= 1 /\ buffer[1] = SpawnJob(p)
    BY EmptySeq, LenProperties DEF Remove, IInv, TypeOK
  <1> QED BY <1>1 DEF IInv, JobsWaiting, Childless

\* A handle that is ended was STARTED; STOPPED comes with the reaping of its child.
LEMMA FinishRefines ==
    ASSUME IInv, NEW p \in Procs, Finishes(p)
    PROVE  Life!Next
  <1>1. p \in active_procs /\ state[p] = "STARTED"
    BY FinishesFinish DEF IInv, OnStopExactlyOnce
  <1>2. ASSUME NEW k \in Streams, ReadStreamFails(p, k) PROVE Life!GiveUp(p, "FAIL_STOPPED")
    BY <1>1, <1>2 DEF ReadStreamFails, Finish, StateCb, streamUnchanged,
                      Life!GiveUp, Life!End, Life!MayTell
  <1>3. CASE ReadClose(p)
    <2>1. Life!GiveUp(p, CloseState(p))
      BY <1>1, <1>3 DEF ReadClose, Finish, StateCb, streamUnchanged, Life!GiveUp, Life!End, Life!MayTell
    <2> QED BY <2>1 DEF CloseState, Life!Next
  <1>4. CASE ReapActive(p)
    <2>1. Life!Stop(p)
      BY <1>1, <1>4 DEF ReapActive, Reapable, Finish, StateCb, Life!Stop, Life!End, Life!Reap,
                      Life!MayTell
    <2> QED BY <2>1 DEF Life!Next
  <1> QED BY <1>2, <1>3, <1>4 DEF Finishes, Life!Next

\* Every handle of pexec_multi lives as HandleLifecycle promises: each step of the
\* callers, the kernel and the loop is a step of it, or leaves its variables alone.
THEOREM LifecycleImplemented == Spec => ImplementsLifecycle
  <1>1. Init => Life!Init
    BY DEF Init, Life!Init
  <1>2. IInv /\ [Next]_vars => [Life!Next]_Life!vars
    <2> SUFFICES ASSUME IInv, [Next]_vars PROVE Life!Next \/ UNCHANGED Life!vars
      OBVIOUS
    <2>1. ASSUME NEW p \in Procs, ChildExit(p) PROVE Life!ChildExits(p)
      BY <2>1 DEF ChildExit, kernelUnchanged, Life!ChildExits
    <2>2. ASSUME NEW p \in Procs, ReapOther(p) PROVE Life!ReapOrTell(p)
      BY <2>2 DEF ReapOther, Reapable, Life!ReapOrTell, Life!Reap, Life!MayTell
    <2>3. ASSUME NEW p \in Procs, NEW s \in Slots, SpawnProc(p, s) PROVE Life!Start(p)
      BY <2>3, SpawnIsFresh DEF SpawnProc, ForkExec, Life!Start
    <2>4. ASSUME NEW p \in Procs, SpawnFails(p) PROVE Life!FailToStart(p)
      BY <2>4, SpawnIsFresh DEF SpawnFails, StateCb, Life!FailToStart, Life!End, Life!MayTell
    <2>5. ASSUME NEW p \in Procs, Finishes(p) PROVE Life!Next
      BY <2>5, FinishRefines
    <2>6. CASE UNCHANGED <<state, on_stop, child>>
      BY <2>6 DEF Life!vars
    <2> QED BY <2>1, <2>2, <2>3, <2>4, <2>5, <2>6, QuietSteps DEF Life!Next
  <1> QED BY <1>1, <1>2, Inductive, PTL DEF Spec, ImplementsLifecycle, Life!Spec

-----------------------------------------------------------------------------
(* The jobs are dispatched in the order in which they were added.          *)

\* Whether or not the loop thread has a job in hand, a job that is added comes behind
\* those that wait.
LEMMA AddIsBehind ==
    ASSUME TypeOK, RemoveNeverBlocks, NEW j \in Job,
           buffer' = Append(buffer, j), pc' = pc
    PROVE  InHand' = InHand /\ Waiting' = Append(Waiting, j)
  <1>1. pc = "dispatch" => buffer # <<>>
    BY EmptySeq, LenProperties DEF RemoveNeverBlocks, TypeOK
  <1> QED BY <1>1, HeadTailAppend DEF InHand, Waiting, TypeOK

\* Each step that adds, takes or dispatches a job is a step of JobQueue.
THEOREM QueueImplemented == Spec => ImplementsQueue
  <1>1. Init => Queue!Init
    BY DEF Init, Queue!Init, InHand, Waiting
  <1>2. IInv /\ [Next]_vars => [Queue!Onward]_Queue!vars
    <2> SUFFICES ASSUME IInv, [Next]_vars PROVE Queue!Onward \/ UNCHANGED Queue!vars
      OBVIOUS
    <2> USE DEF Queue!Onward
    <2>0. TypeOK /\ RemoveNeverBlocks
      BY DEF IInv
    <2>1. ASSUME NEW p \in Procs, Exec(p) PROVE Queue!Add(SpawnJob(p))
      BY <2>0, <2>1, AddIsBehind, JobFacts DEF Exec, AddJob, Queue!Add
    <2>2. ASSUME NEW f \in Flags, NEW n \in KillNums, Stop(f, n)
          PROVE  Queue!Add([type |-> "STOP", flag |-> f, signum |-> n])
      BY <2>0, <2>2, AddIsBehind, StopJobType DEF Stop, AddJob, Queue!Add
    <2>3. ASSUME NEW p \in Procs, Finishes(p)
          PROVE  Queue!Add(NullJob) \/ UNCHANGED Queue!vars
      <3>1. pc # "dispatch" /\ pc' # "dispatch"
        BY <2>3, FinishesFinish
      <3>2. buffer' = Append(buffer, NullJob) \/ buffer' = buffer
        BY <2>3, FinishesFinish DEF Finish
      <3> QED BY <3>1, <3>2 DEF Queue!Add, Queue!vars, InHand, Waiting
    <2>4. CASE ReadControl
      <3>1. buffer # <<>> /\ buffer' = buffer /\ pc = "pass" /\ pc' = "dispatch"
        <4>1. control_pipe > 0 /\ owed \in Nat /\ pc = "pass" /\ control_pipe \in Nat
          BY <2>0, <2>4, PexecMultiAssumption DEF ReadControl, TypeOK
        <4>2. Len(buffer) > 0
          BY <2>0, <4>1, LenProperties DEF RemoveNeverBlocks, TypeOK
        <4> QED BY <2>4, <4>2, EmptySeq DEF ReadControl
      <3> QED BY <3>1 DEF Queue!Take, InHand, Waiting
    <2>5. CASE Dispatches
      <3>1. pc = "dispatch" /\ buffer' = Tail(buffer) /\ pc' # "dispatch"
        BY <2>5, DispatchesRemove DEF Remove, PopFront
      <3> QED BY <3>1 DEF Queue!Return, InHand, Waiting
    <2>6. CASE /\ buffer' = buffer
               /\ pc' = pc \/ (pc # "dispatch" /\ pc' # "dispatch")
      BY <2>6 DEF Queue!vars, InHand, Waiting
    <2>7. CASE Interrupt
      BY <2>7 DEF Interrupt, Queue!vars, InHand, Waiting
    <2> QED BY <2>1, <2>2, <2>3, <2>4, <2>5, <2>6, <2>7, OtherSteps
  <1> QED BY <1>1, <1>2, Inductive, PTL DEF Spec, ImplementsQueue, Queue!OnwardSpec

-----------------------------------------------------------------------------
(* What the refinement of HandleLifecycle carries over.                    *)

\* STOPPED is reported by pexec_multi for no process but one whose child has been
\* reaped: the status in its proc_status is what ::waitpid returned.
THEOREM StoppedIsReaped ==
    Spec => [](\A p \in Procs : state[p] = "STOPPED" => child[p] = "reaped")
  <1>1. Life!Spec => []Life!StoppedIsTold
    BY Life!StoppedMeansTold
  <1>2. Life!StoppedIsTold => \A p \in Procs : state[p] = "STOPPED" => child[p] = "reaped"
    BY DEF Life!StoppedIsTold
  <1>3. Spec => Life!Spec
    BY LifecycleImplemented DEF ImplementsLifecycle
  <1> QED BY <1>1, <1>2, <1>3, PTL

\* A handle of pexec_multi that has ended is reported in no other state again, and
\* gets no second child.
THEOREM HandleOnward == Spec => [][\A p \in Procs : Life!Onward(p)]_vars
  <1>1. Life!Spec => Life!NeverBack
    BY Life!OnlyOnward
  <1>2. UNCHANGED Life!vars => \A p \in Procs : Life!Onward(p)
    BY DEF Life!vars, Life!Onward
  <1>3. Spec => Life!Spec
    BY LifecycleImplemented DEF ImplementsLifecycle
  <1> QED BY <1>1, <1>2, <1>3, PTL DEF Life!NeverBack
=============================================================================
