----------------------------- MODULE PexecMulti -----------------------------
(***************************************************************************)
(* pexec_multi with its default ::select loop: callers on any thread queue *)
(* jobs, one loop thread spawns child processes, reads their output, and   *)
(* learns of their exit through the SIGCHLD self-pipe.  The loop thread is *)
(* the process between Run and RunReturns; callers, children and the       *)
(* delivery of SIGCHLD interleave with it at every step.                   *)
(*                                                                         *)
(* One callback of the loop is one step, except that the blocking          *)
(* queue_buffer::remove and the ::waitpid loop are cut where others can    *)
(* intervene (pc = "dispatch", pc = "reap").  A pipe of process output is  *)
(* counted in reads: one unit is what a single ::read takes (BUFFER_SIZE - *)
(* 1 bytes at most).  The pipes of a process take one slot, a block of     *)
(* descriptor numbers that is free again once they are closed.             *)
(***************************************************************************)
EXTENDS Integers, Sequences, FiniteSets

CONSTANTS
    Procs,       \* the pexec_multi_handle objects, one per call of exec()
    Slots,       \* blocks of descriptor numbers a process's pipes can get
    Streams,     \* the output streams read: a subset of {"out", "err"}
    MaxChunks,   \* capacity of an output pipe, in reads
    CtlCap,      \* capacity of the job control pipe, in bytes
    SigCap,      \* capacity of the SIGCHLD pipe, in signals
    MaxStops,    \* bound on calls of stop()
    Flags,       \* stop flags the callers use
    KillNums,    \* killnum arguments the callers use, -1 when defaulted
    MaxRuns,     \* bound on calls of run()
    UserStops,   \* handles whose user calls proc_status::user_stop()
    MayFail,     \* handles whose exec() can fail (arguments, pipes, fork)
    Daemons,     \* children that never exit unless killed
    Leavers,     \* children that leave the parent's process group
    Threaded,    \* another thread has SIGCHLD unblocked
    Rehash       \* an insertion into the select map may rehash it

StopFlags == {"STOP_WAIT", "STOP_USER", "STOP_KILL"}

ASSUME PexecMultiAssumption ==
    /\ 0 \notin Slots
    /\ Streams \subseteq {"out", "err"}
    /\ MaxChunks \in Nat \ {0}
    /\ CtlCap \in Nat \ {0} /\ SigCap \in Nat \ {0}
    /\ MaxStops \in Nat /\ MaxRuns \in Nat
    /\ Flags \subseteq StopFlags /\ KillNums \subseteq Int
    /\ UserStops \subseteq Procs /\ MayFail \subseteq Procs
    /\ Daemons \subseteq Procs /\ Leavers \subseteq Procs
    /\ Threaded \in BOOLEAN /\ Rehash \in BOOLEAN

VARIABLES
    \* callers
    execd,          \* handles given to exec() so far
    stops,          \* number of stop() calls so far
    owed,           \* send_job calls that added a job and not yet its byte
    asked,          \* handles on which user_stop() has been called
    \* pexec_multi (a trailing underscore of the source is dropped)
    buffer,         \* the jobs in queue_buffer
    control_pipe,   \* bytes in control_pipe
    active_procs,   \* domain of active_procs_
    registered_fd,  \* domain of registered_fd_
    stopping, stop_flag, stop_signum,
    runs,           \* number of run() calls so far
    \* pexec_multi_handle and its pexec<1024>
    slot,           \* the block of descriptor numbers held in fds_
    open,           \* handles whose pipes are open
    state,          \* last state passed to state_cb_, "NONE" before any
    on_stop,        \* number of calls of on_stop_cb_
    \* kernel
    child,          \* process state of the child
    outside,        \* children that left the process group
    killed,         \* children sent a signal that terminates them
    unread,         \* data in the output pipes, kept after close
    watch,          \* handles whose close-watch pipe holds data
    sig_pending,    \* SIGCHLD is pending and not delivered
    sig_pipe,       \* signal numbers in sigchld_pipe_signal
    \* select_event
    cbs,            \* domain of cbs_
    read_fds,       \* bits ::select left set for this pass
    todo,           \* set bits the pass has not come to
    interrupted,    \* select_event's own control pipe holds data
    pc              \* where the loop thread is

callerVars == <<execd, stops, owed, asked>>
jobVars    == <<buffer, control_pipe>>
stopVars   == <<stopping, stop_flag, stop_signum>>
fdVars     == <<active_procs, registered_fd, cbs, open>>
handleVars == <<slot, state, on_stop>>
childVars  == <<child, outside, killed>>
pipeVars   == <<unread, watch>>
sigVars    == <<sig_pending, sig_pipe>>
passVars   == <<read_fds, todo, pc>>
vars == <<callerVars, jobVars, stopVars, fdVars, handleVars, childVars,
          pipeVars, sigVars, passVars, interrupted, runs>>

-----------------------------------------------------------------------------
(* Jobs and descriptors.                                                   *)

NullJob == [type |-> "NULL"]
SpawnJob(p) == [type |-> "SPAWN", proc |-> p]
Job == {NullJob}
       \cup {SpawnJob(p) : p \in Procs}
       \cup [type : {"STOP"}, flag : StopFlags, signum : Int]

Wake == <<"wake", 0>>    \* select_event::control_pipe[0]
Sig  == <<"sig", 0>>     \* sigchld_pipe_signal[0]
Ctl  == <<"ctl", 0>>     \* pexec_multi::control_pipe[0]
LoopFds == {Wake, Sig, Ctl}
Fds(s) == (Streams \cup {"close"}) \X {s}
ProcFds == (Streams \cup {"close"}) \X Slots
Fd == LoopFds \cup ProcFds

NoSlot == 0
Final == {"STOPPED", "USER_STOPPED", "FAIL_STOPPED"}
FreeSlots == Slots \ {slot[q] : q \in open}

\* What ::select reports, and a ::read returns data from.
Readable(f) ==
    \/ f = Wake /\ interrupted
    \/ f = Sig /\ sig_pipe > 0
    \/ f = Ctl /\ control_pipe > 0
    \/ \E p \in open : f = <<"close", slot[p]>> /\ p \in watch
    \/ \E p \in open, k \in Streams : f = <<k, slot[p]>> /\ unread[p][k] > 0

\* A write to a non-blocking pipe that is full is lost.
Put(n, cap) == IF n < cap THEN n + 1 ELSE n

Init ==
    /\ execd = {} /\ stops = 0 /\ owed = 0 /\ asked = {}
    /\ buffer = <<>> /\ control_pipe = 0
    /\ active_procs = {} /\ registered_fd = {} /\ cbs = {} /\ open = {}
    /\ stopping = FALSE /\ stop_flag = "STOP_WAIT" /\ stop_signum = 0
    /\ slot = [p \in Procs |-> NoSlot]
    /\ state = [p \in Procs |-> "NONE"]
    /\ on_stop = [p \in Procs |-> 0]
    /\ child = [p \in Procs |-> "none"]
    /\ outside = {} /\ killed = {}
    /\ unread = [p \in Procs |-> [k \in Streams |-> 0]]
    /\ watch = {}
    /\ sig_pending = FALSE /\ sig_pipe = 0
    /\ read_fds = {} /\ todo = {} /\ interrupted = FALSE /\ pc = "idle"
    /\ runs = 0

-----------------------------------------------------------------------------
(* Callers.  send_job adds to the buffer and then writes a byte to the     *)
(* control pipe; another thread can run between the two.                   *)

AddJob(j) ==
    /\ pc # "abort"
    /\ buffer' = Append(buffer, j)
    /\ owed' = owed + 1
    /\ UNCHANGED control_pipe

Exec(p) ==
    /\ p \notin execd
    /\ AddJob(SpawnJob(p))
    /\ execd' = execd \cup {p}
    /\ UNCHANGED <<stops, asked, stopVars, fdVars, handleVars, childVars,
                   pipeVars, sigVars, passVars, interrupted, runs>>

Stop(sf, killnum) ==
    /\ stops < MaxStops
    /\ AddJob([type |-> "STOP", flag |-> sf, signum |-> killnum])
    /\ stops' = stops + 1
    /\ UNCHANGED <<execd, asked, stopVars, fdVars, handleVars, childVars,
                   pipeVars, sigVars, passVars, interrupted, runs>>

Interrupt ==
    /\ pc # "abort"
    /\ owed > 0
    /\ owed' = owed - 1
    /\ control_pipe' = Put(control_pipe, CtlCap)
    /\ UNCHANGED <<execd, stops, asked, buffer, stopVars, fdVars, handleVars,
                   childVars, pipeVars, sigVars, passVars, interrupted, runs>>

\* user_stop() on a copy of the proc_status that STARTED was reported with:
\* the byte goes to whichever watch pipe has the copied number now, if any.
UserStop(p) ==
    /\ pc # "abort"
    /\ p \in UserStops \ asked
    /\ slot[p] # NoSlot
    /\ asked' = asked \cup {p}
    /\ watch' = watch \cup {q \in open : slot[q] = slot[p]}
    /\ UNCHANGED <<execd, stops, owed, jobVars, stopVars, fdVars, handleVars,
                   childVars, unread, sigVars, passVars, interrupted, runs>>

-----------------------------------------------------------------------------
(* The kernel: children and SIGCHLD.                                       *)

kernelUnchanged == UNCHANGED <<callerVars, jobVars, stopVars, fdVars,
                               handleVars, passVars, interrupted, runs>>

ChildWrite(p, k) ==
    /\ pc # "abort"
    /\ child[p] = "running"
    /\ p \in open
    /\ unread[p][k] < MaxChunks
    /\ unread' = [unread EXCEPT ![p][k] = @ + 1]
    /\ UNCHANGED <<childVars, watch, sigVars>> /\ kernelUnchanged

\* setsid() or setpgid() in the child.
ChildLeaves(p) ==
    /\ pc # "abort"
    /\ child[p] = "running"
    /\ p \in Leavers \ outside
    /\ outside' = outside \cup {p}
    /\ UNCHANGED <<child, killed, pipeVars, sigVars>> /\ kernelUnchanged

\* With no handler installed SIGCHLD is ignored.
ChildExit(p) ==
    /\ pc # "abort"
    /\ child[p] = "running"
    /\ p \notin Daemons \/ p \in killed
    /\ child' = [child EXCEPT ![p] = "zombie"]
    /\ sig_pending' = (pc # "idle")
    /\ UNCHANGED <<outside, killed, pipeVars, sig_pipe>> /\ kernelUnchanged

\* A child that is stopped or continued raises SIGCHLD too: sa_flags is 0.
ChildStops(p) ==
    /\ pc \notin {"idle", "abort"}
    /\ child[p] = "running"
    /\ sig_pending' = TRUE
    /\ UNCHANGED <<childVars, pipeVars, sig_pipe>> /\ kernelUnchanged

\* sigchld_signal_handler; the loop thread blocks SIGCHLD while it reaps.
SignalHandler ==
    /\ sig_pending
    /\ pc \notin {"idle", "abort"}
    /\ pc = "reap" => Threaded
    /\ sig_pending' = FALSE
    /\ sig_pipe' = Put(sig_pipe, SigCap)
    /\ UNCHANGED <<childVars, pipeVars>> /\ kernelUnchanged

-----------------------------------------------------------------------------
(* The loop thread: run() and the passes of select_event::loop().          *)

\* Back from a callback with rest still to visit: on with the pass, or a new one.
Resume(rest) ==
    /\ todo' = rest
    /\ pc' = IF rest = {} THEN "select" ELSE "pass"
    /\ read_fds' = IF rest = {} THEN {} ELSE read_fds

\* A new select_event and a new sigchld_handler, each with an empty pipe.
Run ==
    /\ pc = "idle"
    /\ runs < MaxRuns
    /\ runs' = runs + 1
    /\ cbs' = LoopFds
    /\ registered_fd' = registered_fd \cup {Sig, Ctl}
    /\ interrupted' = FALSE
    /\ sig_pipe' = 0
    /\ pc' = "select"
    /\ UNCHANGED <<callerVars, jobVars, stopVars, active_procs, open, handleVars,
                   childVars, pipeVars, sig_pending, read_fds, todo>>

Select ==
    /\ pc = "select"
    /\ \E f \in cbs : Readable(f)
    /\ read_fds' = {f \in cbs : Readable(f)}
    /\ todo' = read_fds'
    /\ pc' = "pass"
    /\ UNCHANGED <<callerVars, jobVars, stopVars, fdVars, handleVars, childVars,
                   pipeVars, sigVars, interrupted, runs>>

\* handle_stop() makes the loop visit its own pipe, which ends loop() and run().
RunReturns ==
    /\ pc = "pass"
    /\ Wake \in todo
    /\ interrupted' = FALSE
    /\ cbs' = {} /\ read_fds' = {} /\ todo' = {}
    /\ sig_pending' = FALSE /\ sig_pipe' = 0
    /\ pc' = "idle"
    /\ UNCHANGED <<callerVars, jobVars, stopVars, active_procs, registered_fd,
                   open, handleVars, childVars, pipeVars, runs>>

HandleStop ==
    /\ cbs' = cbs \ {Sig, Ctl}
    /\ registered_fd' = registered_fd \ {Sig, Ctl}
    /\ stop_flag' = "STOP_WAIT" /\ stop_signum' = -1 /\ stopping' = FALSE
    /\ interrupted' = TRUE
    /\ Resume(todo \ {Sig, Ctl})
    /\ UNCHANGED <<active_procs, open>>

\* remove_read_event() takes the numbers from fds_, not from the closed pipes.
StreamFdsOnly(p) == Streams \X {slot[p]}
HandleFds(p) == Fds(slot[p])

\* on_proc_stopped_cb_ erases the handle, then looks whether it was the last.
KeepWhileStopping(p) == IF stopping THEN active_procs ELSE active_procs \ {p}
Erased(p) == active_procs \ {p}
TestedBeforeErase(p) == stopping /\ active_procs = {}
LastGone(p) == stopping /\ Erased(p) = {}

\* The handle's own state callback, called with a final state.
StateCb(p, final) ==
    /\ state' = [state EXCEPT ![p] = final]
    /\ on_stop' = [on_stop EXCEPT ![p] = @ + 1]

\* stopped(), user_stopped() or fail_stopped(): the pipes are closed, the state is
\* reported, and on_proc_stopped_cb_ takes the handle out of the loop; the last one
\* to go while stopping queues the null job.
Finish(p, final) ==
    /\ open' = open \ {p}
    /\ watch' = watch \ {p}
    /\ StateCb(p, final)
    /\ cbs' = cbs \ HandleFds(p)
    /\ registered_fd' = registered_fd \ HandleFds(p)
    /\ active_procs' = Erased(p)
    /\ IF LastGone(p)
       THEN /\ buffer' = Append(buffer, NullJob)
            /\ control_pipe' = Put(control_pipe, CtlCap)
       ELSE UNCHANGED jobVars
    /\ UNCHANGED slot

-----------------------------------------------------------------------------
(* Callbacks of a process's descriptors.                                   *)

AlwaysStopped(p) == "STOPPED"
CloseState(p) == IF p \in watch THEN "USER_STOPPED" ELSE "FAIL_STOPPED"

streamUnchanged == UNCHANGED <<callerVars, stopVars, childVars, sigVars,
                               interrupted, runs>>

ReadStream(p, k) ==
    /\ pc = "pass"
    /\ p \in open /\ <<k, slot[p]>> \in todo
    /\ unread[p][k] > 0
    /\ unread' = [unread EXCEPT ![p][k] = @ - 1]
    /\ Resume(todo \ {<<k, slot[p]>>})
    /\ UNCHANGED <<jobVars, fdVars, handleVars, watch>> /\ streamUnchanged

\* An empty pipe: ::read fails with EAGAIN, which is not EINTR.
ReadStreamFails(p, k) ==
    /\ pc = "pass"
    /\ p \in open /\ <<k, slot[p]>> \in todo
    /\ unread[p][k] = 0
    /\ Finish(p, "FAIL_STOPPED")
    /\ Resume(todo \ HandleFds(p))
    /\ UNCHANGED unread /\ streamUnchanged

ReadClose(p) ==
    /\ pc = "pass"
    /\ p \in open /\ <<"close", slot[p]>> \in todo
    /\ Finish(p, CloseState(p))
    /\ Resume(todo \ HandleFds(p))
    /\ UNCHANGED unread /\ streamUnchanged

-----------------------------------------------------------------------------
(* The SIGCHLD callback: read one signal number, then reap until ::waitpid *)
(* finds nothing more.                                                     *)

ReadSignal ==
    /\ pc = "pass" /\ Sig \in todo
    /\ sig_pipe > 0
    /\ sig_pipe' = sig_pipe - 1
    /\ todo' = todo \ {Sig}
    /\ pc' = "reap"
    /\ UNCHANGED <<callerVars, jobVars, stopVars, fdVars, handleVars, childVars,
                   pipeVars, sig_pending, read_fds, interrupted, runs>>

ReadSignalEmpty ==
    /\ pc = "pass" /\ Sig \in todo
    /\ sig_pipe = 0
    /\ HandleStop
    /\ UNCHANGED <<callerVars, jobVars, handleVars, childVars, pipeVars, sigVars,
                   runs>>

\* ::waitpid(0, ...) reaps children of the own process group only.
Reapable(p) == child[p] = "zombie" /\ p \notin outside

OnePerSignal == TRUE
NothingToReap == \A p \in Procs : ~Reapable(p)

\* read_std_rest() does one ::read of each stream.
ReadRest(p) == [k \in Streams |-> IF unread[p][k] > 0 THEN unread[p][k] - 1 ELSE 0]

ReapActive(p) ==
    /\ pc = "reap"
    /\ Reapable(p)
    /\ p \in active_procs
    /\ child' = [child EXCEPT ![p] = "reaped"]
    /\ unread' = [unread EXCEPT ![p] = ReadRest(p)]
    /\ Finish(p, "STOPPED")
    /\ todo' = todo \ HandleFds(p)
    /\ pc' = IF HandleFds(p) \subseteq cbs THEN "reap" ELSE "abort"
    /\ UNCHANGED <<callerVars, stopVars, outside, killed, sigVars, read_fds,
                   interrupted, runs>>

\* A child that is not watched any more: the status is dropped.
ReapOther(p) ==
    /\ pc = "reap"
    /\ Reapable(p)
    /\ p \notin active_procs
    /\ child' = [child EXCEPT ![p] = "reaped"]
    /\ UNCHANGED <<callerVars, jobVars, stopVars, fdVars, handleVars, outside,
                   killed, pipeVars, sigVars, passVars, interrupted, runs>>

ReapDone ==
    /\ pc = "reap"
    /\ NothingToReap
    /\ Resume(todo)
    /\ UNCHANGED <<callerVars, jobVars, stopVars, fdVars, handleVars, childVars,
                   pipeVars, sigVars, interrupted, runs>>

-----------------------------------------------------------------------------
(* The job callback: read one byte, then take one job off the buffer.      *)

DrainBytes(n) == 0
TakeByte(n) == n - 1

ReadControl ==
    /\ pc = "pass" /\ Ctl \in todo
    /\ control_pipe > 0
    /\ control_pipe' = TakeByte(control_pipe)
    /\ todo' = todo \ {Ctl}
    /\ pc' = "dispatch"
    /\ UNCHANGED <<callerVars, buffer, stopVars, fdVars, handleVars, childVars,
                   pipeVars, sigVars, read_fds, interrupted, runs>>

ClearWhenStopping(jobs) == IF stopping THEN <<>> ELSE Tail(jobs)
PopFront(jobs) == Tail(jobs)

\* queue_buffer::remove() waits while the buffer is empty.
Remove ==
    /\ pc = "dispatch"
    /\ buffer # <<>>
    /\ buffer' = PopFront(buffer)
    /\ UNCHANGED control_pipe

dispatchUnchanged == UNCHANGED <<callerVars, child, outside, unread, sigVars, runs>>

KillOnly(flag, signum) ==
    /\ stopping' = TRUE
    /\ killed' = IF flag = "STOP_KILL" THEN killed \cup active_procs ELSE killed
    /\ UNCHANGED watch

AnyFlag(flag, signum) == /\ stopping' = TRUE
                         /\ watch' = watch \cup active_procs /\ UNCHANGED killed

\* cleanup(): user_stop() or kill() for every active process.
Cleanup(flag, signum) ==
    /\ stopping' = TRUE
    /\ watch' = IF flag = "STOP_USER" THEN watch \cup active_procs ELSE watch
    /\ killed' = IF flag = "STOP_KILL" /\ signum > 0
                 THEN killed \cup active_procs ELSE killed

StopAtOnce == TRUE
NoneActive == active_procs = {}

JobNullptrStop(flag, signum) ==
    IF NoneActive
    THEN HandleStop /\ UNCHANGED <<handleVars, watch, killed>>
    ELSE /\ IF stopping THEN UNCHANGED <<stopping, watch, killed>>
            ELSE Cleanup(flag, signum)
         /\ stop_flag' = flag /\ stop_signum' = signum
         /\ Resume(todo)
         /\ UNCHANGED <<fdVars, handleVars, interrupted>>

DispatchNull ==
    /\ Remove
    /\ Head(buffer) = NullJob
    /\ JobNullptrStop(stop_flag, stop_signum)
    /\ dispatchUnchanged

DispatchStop ==
    /\ Remove
    /\ Head(buffer).type = "STOP"
    /\ ~stopping
    /\ JobNullptrStop(Head(buffer).flag, Head(buffer).signum)
    /\ dispatchUnchanged

\* While stopping, jobs other than the null job are dropped.
DropJob ==
    /\ Remove
    /\ Head(buffer) # NullJob
    /\ stopping
    /\ Resume(todo)
    /\ UNCHANGED <<stopVars, fdVars, handleVars, killed, watch, interrupted>>
    /\ dispatchUnchanged

\* Where the pass goes on after the descriptors of slot s joined the map.  The
\* place of a new entry is unspecified, so that one whose number has its bit
\* set may come up; a rehash invalidates the iterator: the entries are permuted
\* under it, and what follows it can be any of them.
AfterInsert(s) ==
    IF Rehash THEN SUBSET (((cbs \cup Fds(s)) \cap read_fds) \ {Ctl})
    ELSE {todo \cup new : new \in SUBSET (Fds(s) \cap read_fds)}

\* pexec::exec: pipes, the fork, and the STARTED callback.
ForkExec(p, s) ==
    /\ s \in FreeSlots
    /\ slot' = [slot EXCEPT ![p] = s]
    /\ open' = open \cup {p}
    /\ child' = [child EXCEPT ![p] = "running"]
    /\ state' = [state EXCEPT ![p] = "STARTED"]

SpawnProc(p, s) ==
    /\ Remove
    /\ Head(buffer) = SpawnJob(p)
    /\ ~stopping
    /\ ForkExec(p, s)
    /\ active_procs' = active_procs \cup {p}
    /\ cbs' = cbs \cup Fds(s)
    /\ registered_fd' = registered_fd \cup Fds(s)
    /\ \E rest \in AfterInsert(s) : Resume(rest)
    /\ UNCHANGED <<callerVars, stopVars, on_stop, outside, killed, pipeVars,
                   sigVars, interrupted, runs>>

\* exec() reports FAIL_STOPPED and returns with no pid; assert(pid > 0) fails.
SpawnFails(p) ==
    /\ Remove
    /\ Head(buffer) = SpawnJob(p)
    /\ ~stopping
    /\ FreeSlots = {} \/ p \in MayFail
    /\ StateCb(p, "FAIL_STOPPED")
    /\ pc' = "abort"
    /\ UNCHANGED <<callerVars, stopVars, fdVars, slot, childVars, pipeVars,
                   sigVars, read_fds, todo, interrupted, runs>>

-----------------------------------------------------------------------------

\* run() has returned or died, or waits for a job or a child that never comes.
Terminated ==
    /\ \/ pc \in {"idle", "abort"}
       \/ /\ pc = "select" /\ ~sig_pending
          /\ \A f \in cbs : ~Readable(f)
          /\ buffer = <<>>
          /\ stopping => active_procs # {}
          /\ \A p \in active_procs : child[p] = "running" \/ p \in outside
    /\ UNCHANGED vars

Caller == \/ \E p \in Procs : Exec(p) \/ UserStop(p)
          \/ \E f \in Flags, n \in KillNums : Stop(f, n)
Kernel == \/ \E p \in Procs : ChildLeaves(p) \/ ChildExit(p) \/ ChildStops(p)
          \/ \E p \in Procs, k \in Streams : ChildWrite(p, k)
          \/ SignalHandler
Loop == \/ Select \/ RunReturns
        \/ \E p \in Procs, k \in Streams : ReadStream(p, k) \/ ReadStreamFails(p, k)
        \/ \E p \in Procs : ReadClose(p) \/ ReapActive(p) \/ ReapOther(p)
        \/ ReadSignal \/ ReadSignalEmpty \/ ReapDone
        \/ ReadControl \/ DispatchNull \/ DispatchStop \/ DropJob
        \/ \E p \in Procs, s \in Slots : SpawnProc(p, s)
        \/ \E p \in Procs : SpawnFails(p)

Next == Caller \/ Interrupt \/ Kernel \/ Run \/ Loop \/ Terminated

Spec == Init /\ [][Next]_vars

(* Every caller finishes its send_job, the loop thread is never starved,   *)
(* the kernel delivers a signal that is not blocked, and a child that is   *)
(* no daemon, or that was killed, exits.                                   *)
Fairness ==
    /\ WF_vars(Interrupt)
    /\ WF_vars(Loop)
    /\ WF_vars(SignalHandler)
    /\ \A p \in Procs : WF_vars(ChildExit(p))

FairSpec == Spec /\ Fairness

-----------------------------------------------------------------------------
(* Properties the code is to have.                                         *)

\* Every variable keeps its type, counters and pipes their bounds.
TypeOK ==
    /\ execd \subseteq Procs /\ asked \subseteq UserStops
    /\ stops \in 0..MaxStops /\ owed \in Nat /\ runs \in 0..MaxRuns
    /\ buffer \in Seq(Job) /\ control_pipe \in 0..CtlCap
    /\ active_procs \subseteq Procs /\ open \subseteq Procs
    /\ registered_fd \subseteq Fd /\ cbs \subseteq Fd
    /\ read_fds \subseteq Fd /\ todo \subseteq Fd
    /\ stopping \in BOOLEAN /\ stop_flag \in StopFlags /\ stop_signum \in Int
    /\ slot \in [Procs -> Slots \cup {NoSlot}]
    /\ state \in [Procs -> {"NONE", "STARTED"} \cup Final]
    /\ on_stop \in [Procs -> Nat]
    /\ child \in [Procs -> {"none", "running", "zombie", "reaped"}]
    /\ outside \subseteq Leavers /\ killed \subseteq Procs
    /\ unread \in [Procs -> [Streams -> 0..MaxChunks]] /\ watch \subseteq Procs
    /\ sig_pending \in BOOLEAN /\ sig_pipe \in 0..SigCap
    /\ interrupted \in BOOLEAN
    /\ pc \in {"idle", "select", "pass", "dispatch", "reap", "abort"}

\* on_stop_cb_ runs exactly once for a handle that was spawned and ended, in
\* whichever of the ways read_std, read_close and update_status race to end it,
\* and active_procs_ holds exactly the handles still to get their callback.
OnStopExactlyOnce ==
    \A p \in Procs :
        /\ on_stop[p] = (IF state[p] \in Final THEN 1 ELSE 0)
        /\ p \in active_procs <=> state[p] = "STARTED"

\* The pids in active_procs_, which cleanup() passes to ::kill, are of children
\* not yet reaped: a number the kernel has recycled is never signalled.
ActivePidsValid == \A p \in active_procs : child[p] \in {"running", "zombie"}

\* The select map, do_action's map, the open pipes and active_procs_ agree, so
\* add_read_event and remove_read_event never fail their assertions, select
\* never sees a closed descriptor, and no pipe outlives its handle.
DescriptorsMatch ==
    /\ open = active_procs
    /\ \A p, q \in open : slot[p] = slot[q] => p = q
    /\ registered_fd = cbs \ {Wake}
    /\ cbs \ LoopFds = UNION {Fds(slot[p]) : p \in active_procs}

\* A watched child that has exited is about to be found: SIGCHLD coalesces and
\* the handler's write can be dropped, yet a wake-up is always left.
NoLostChild ==
    \A p \in active_procs :
        Reapable(p) => sig_pending \/ sig_pipe > 0 \/ pc = "reap"

\* A byte in the control pipe has its job in the buffer, whatever the order of
\* the callers' steps, so buffer.remove() never blocks the loop thread.
RemoveNeverBlocks ==
    control_pipe + owed + (IF pc = "dispatch" THEN 1 ELSE 0) <= Len(buffer)

\* Every job in the buffer has its byte in the control pipe, or on the way there, as
\* long as the pipe has room for as many bytes as there are calls of exec() and
\* stop(): the loop never sleeps beside a job.
JobsHaveBytes ==
    Cardinality(Procs) + MaxStops <= CtlCap =>
        Len(buffer) = control_pipe + owed + (IF pc = "dispatch" THEN 1 ELSE 0)

\* While a stop is in progress and no process is left the null job that ends
\* the loop is on its way: run() cannot wait for an exit that already happened.
StopAnswered ==
    stopping /\ active_procs = {}
        => \E i \in 1..Len(buffer) : buffer[i] = NullJob

\* "run will block until all processes has stopped" (README.md).
ReturnsWhenAllStopped ==
    [][pc # "idle" /\ pc' = "idle" => active_procs = {}]_vars

\* What can lead to USER_STOPPED: a stop that is in progress with STOP_USER, or a
\* user_stop() on a proc_status with the number of this handle's close-watch pipe.
StopAsked(p) == \/ stopping /\ stop_flag = "STOP_USER"
                \/ \E q \in asked : slot[q] = slot[p]

\* USER_STOPPED is reported for nothing else: no byte is left over from an earlier
\* process or stop, and a failed read of the pipe is not taken for one.
UserStopHasCause ==
    [][\A p \in Procs : state[p] # "USER_STOPPED" /\ state'[p] = "USER_STOPPED"
                           => StopAsked(p)]_vars

\* No assert of select_event fails: the numbers of a new process are not in its map,
\* those of an ended one and of the loop's pipes are when they are removed.  The loop
\* thread dies only of a process that could not be created.
AssertsKept ==
    /\ \A p \in Procs : slot'[p] # slot[p] => Fds(slot'[p]) \cap cbs = {}
    /\ \A p \in open \ open' : Fds(slot[p]) \subseteq cbs
    /\ interrupted' /\ ~interrupted => {Sig, Ctl} \subseteq cbs
    /\ pc' = "abort" /\ pc # "abort" =>
           \E p \in Procs : state[p] = "NONE" /\ state'[p] = "FAIL_STOPPED"
AssertsHold == [][AssertsKept]_vars

\* An insertion that rehashes the select map, with any number of processes, breaks
\* nothing by itself: the tables agree, no assert fails and no exit is lost, until
\* run() returns with a process left.
Consistent == DescriptorsMatch /\ NoLostChild
EarlyReturn == pc # "idle" /\ pc' = "idle" /\ active_procs # {}
ConsistentUntilEarly ==
    [][Consistent => AssertsKept /\ (Consistent' \/ EarlyReturn)]_vars

\* A watched child that exits is taken off active_procs_ with its callback run, if
\* it has stayed in the process group that ::waitpid is called for and run() goes on.
ExitNoticed ==
    \A p \in Procs : p \in active_procs /\ child[p] = "zombie"
                        ~> \/ p \notin active_procs \/ p \in outside
                           \/ pc \in {"idle", "abort"}

\* Once stopping, run() returns; with STOP_WAIT only if the processes end, and in
\* no case if one of them has left the process group.
StopReturns ==
    /\ stopping
    /\ stop_flag = "STOP_WAIT" => active_procs \cap Daemons = {}
    ~> pc \in {"idle", "abort"} \/ active_procs \cap outside # {}

\* The job of exec() is in the buffer.
Queued(p) == \E i \in 1..Len(buffer) : buffer[i] = SpawnJob(p)

\* run() never waits for ever beside a job: one that is queued while it is active is
\* taken off the buffer, to be spawned or, during a stop, to be dropped.  Only where
\* run() itself ends may the job stay: the loop thread has died, or a stop() ended
\* run() before the job's turn, which leaves the job to the next run(), or run() has
\* returned early with processes left.
JobsTaken ==
    \A p \in Procs :
        pc # "idle" /\ Queued(p)
            ~> \/ ~Queued(p)
               \/ pc = "abort"
               \/ pc = "idle" /\ (stops > 0 \/ active_procs # {})

-----------------------------------------------------------------------------
(* The abstract specification.                                             *)

Life == INSTANCE HandleLifecycle WITH told <- {}

\* Each handle goes through its states as HandleLifecycle promises, whatever
\* ends it; STOPPED is reported in the step that reaps the child.
ImplementsLifecycle == Life!Spec

\* The job that the loop thread has read the byte of is the first of the buffer, and
\* in no other hands: it counts as taken from then on.
NoJob == [type |-> "none"]
InHand == IF pc = "dispatch" THEN Head(buffer) ELSE NoJob
Waiting == IF pc = "dispatch" THEN Tail(buffer) ELSE buffer

Queue == INSTANCE JobQueue
         WITH Jobs  <- {NullJob} \cup {SpawnJob(p) : p \in Procs}
                           \cup [type : {"STOP"}, flag : Flags, signum : KillNums],
              Loops <- {"loop"}, NoJob <- NoJob,
              queue <- Waiting, got <- [c \in {"loop"} |-> InHand]

\* The jobs of all callers, and the null jobs of the loop thread, are dispatched one at
\* a time in the order in which they were added, and none is lost or repeated
\* ("processed in the same order as called", README.md).
ImplementsQueue == Queue!OnwardSpec

-----------------------------------------------------------------------------
(* The inductive invariant of PexecMultiProofs: the invariants above and   *)
(* what they rest on.                                                      *)

\* A queued spawn job is the only one of its handle, and has not been run.
JobsWaiting ==
    \A p \in Procs, i \in 1..Len(buffer) : buffer[i] = SpawnJob(p) =>
        /\ p \in execd /\ state[p] = "NONE"
        /\ \A j \in 1..Len(buffer) : buffer[j] = SpawnJob(p) => i = j

HandlesExecd == \A p \in Procs : state[p] # "NONE" => p \in execd

\* A handle that was never reported has no child.
Childless == \A p \in Procs : state[p] = "NONE" => child[p] = "none"

\* What is queued is at most what was asked for: the null job that ends a stop takes
\* the place of the job that began it.
NullJobDue == IF stopping /\ active_procs # {} THEN 1 ELSE 0
BufferBounded ==
    IsFiniteSet(Procs) => Len(buffer) + NullJobDue <= Cardinality(execd) + stops

\* A handle gets its descriptor numbers when it is spawned, and data in a close-watch
\* pipe is gone when the pipe is.
NumbersKept == /\ \A p \in Procs : slot[p] # NoSlot => state[p] # "NONE"
               /\ \A p \in asked : slot[p] # NoSlot
               /\ watch \subseteq open

\* The loop's own descriptors are watched until handle_stop takes two of them away.
LoopWatched == pc # "idle" /\ ~interrupted => LoopFds \subseteq cbs

\* A pass visits the wake-up pipe only after handle_stop, from which on no job is
\* dispatched; outside of run() nothing is watched.
WakeTells ==
    /\ Wake \in todo \cup read_fds => interrupted
    /\ interrupted => pc # "dispatch" /\ Sig \notin cbs /\ Ctl \notin cbs \cup todo
    /\ pc = "idle" => cbs = {} /\ todo = {} /\ read_fds = {}

\* When no insertion rehashes the select map, the SIGCHLD pipe is visited only with
\* data in it, so that only a job ends the loop, and with no process left.
StopsInOrder ==
    /\ Sig \in todo => sig_pipe > 0
    /\ interrupted \/ pc = "idle" => active_procs = {}

IInv ==
    /\ TypeOK
    /\ open = active_procs
    /\ OnStopExactlyOnce /\ JobsWaiting /\ HandlesExecd /\ Childless
    /\ ActivePidsValid
    /\ RemoveNeverBlocks
    /\ StopAnswered
    /\ BufferBounded
    /\ IsFiniteSet(Procs) => JobsHaveBytes
    /\ NumbersKept /\ LoopWatched /\ WakeTells
    /\ ~Rehash => /\ StopsInOrder /\ Consistent
                  /\ \A p \in watch : StopAsked(p)

-----------------------------------------------------------------------------
(* Statements of comments, assertions and docs that the code disagrees     *)
(* with.                                                                   *)

\* "there might be some data left ... we can read it until (errno == EAGAIN) is
\* returned" (pexec_single.h): nothing is left in the pipes of a process that
\* is reported STOPPED.
RestIsRead ==
    \A p \in Procs : state[p] = "STOPPED" => \A k \in Streams : unread[p][k] = 0

\* user_stop() is for the proc it is called on, from any thread (README.md):
\* with no STOP_USER, only a process whose user asked is USER_STOPPED.
UserStopsOwnProc == \A p \in Procs : state[p] = "USER_STOPPED" => p \in asked
=============================================================================
