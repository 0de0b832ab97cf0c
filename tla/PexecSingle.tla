----------------------------- MODULE PexecSingle -----------------------------
(***************************************************************************)
(* pexec<>::exec in BLOCKING mode, called again and again by one thread    *)
(* for different commands, with other children of the program alive: the   *)
(* user's own and those that earlier calls left behind.  The SIGCHLD pipe  *)
(* and the signal disposition are global to the program.  Calls on the     *)
(* same pexec<> object share its proc_status; pexec::exec makes an object  *)
(* for every call, and returns what was reported last.                     *)
(*                                                                         *)
(* One callback of the loop is one step.  A pipe of process output is      *)
(* counted in reads, as in PexecMulti.  Children, user_stop() on another   *)
(* thread and the delivery of SIGCHLD interleave with every step.          *)
(***************************************************************************)
EXTENDS WaitStatus

CONSTANTS
    Calls,       \* calls of exec()
    ObjectOf,    \* the pexec<> object of each call
    Others,      \* children the program has from elsewhere
    Streams,     \* the output streams: a subset of {"out", "err"}
    MaxChunks,   \* capacity of an output pipe, in reads
    SigCap,      \* capacity of the SIGCHLD pipe, in signals
    Codes,       \* exit codes of the commands themselves
    KillSignals, \* signals that kill the children
    Broken,      \* calls whose command cannot be executed
    BrokenCodes, \* exit codes of the library's code in the forked child
    Daemons,     \* children that need not ever exit
    Pausing,     \* children that may be stopped and continued
    Fails,       \* the stages of exec() that may fail
    UserStops    \* calls whose user calls user_stop()

Children == Calls \cup Others
Objects == {ObjectOf[c] : c \in Calls}
Stages == {"args", "pipes", "sigaction", "fork"}   \* those at which it returns early

ASSUME PexecSingleAssumption ==
    /\ Calls \cap Others = {} /\ DOMAIN ObjectOf = Calls
    /\ Streams \subseteq {"out", "err"}
    /\ MaxChunks \in Nat \ {0} /\ SigCap \in Nat \ {0}
    /\ Codes \subseteq Codes8 /\ KillSignals \subseteq Signals
    /\ BrokenCodes \subseteq 100..106
    /\ Broken \subseteq Calls /\ UserStops \subseteq Calls
    /\ Daemons \subseteq Children /\ Pausing \subseteq Children
    /\ Fails \subseteq Stages \cup {"reset"}

VARIABLES
    \* pexec<> and its loop
    cur,            \* the call in progress, a set of at most one
    pc,             \* where the calling thread is
    user_stopped,
    todo,           \* what ::select found readable and the pass has not come to
    interrupted,    \* the loop's own control pipe holds data
    proc,           \* the proc_status of each object
    state,          \* last state passed to state_cb_, "NONE" before any
    result,         \* the proc_status passed with it
    errors,         \* errors passed to error_cb_
    asked,          \* calls on which user_stop() has been called
    \* kernel
    child,          \* process state of each child
    status,         \* the wait status of a child that has exited
    unread,         \* data in the output pipes, kept after close
    watch,          \* calls whose close-watch pipe holds data
    handler,        \* the disposition of SIGCHLD
    sa_prev,        \* the one the call in progress found
    sig_pending,    \* SIGCHLD is pending and not delivered
    sig_pipe        \* signal numbers in sigchld_blocking_pipe_signal

loopVars  == <<pc, user_stopped, todo, interrupted>>
procVars  == <<proc, result>>
callVars  == <<cur, state, errors, procVars>>
childVars == <<child, status>>
pipeVars  == <<unread, watch>>
sigVars   == <<sig_pending, sig_pipe>>
dispVars  == <<handler, sa_prev>>
vars == <<loopVars, callVars, asked, childVars, pipeVars, sigVars, dispVars>>

Final == {"STOPPED", "USER_STOPPED", "FAIL_STOPPED"}

\* The child exits with 100 when execvp fails, with 101 to 106 when fcntl or dup2
\* does, and the parent takes these codes for the errors.
ForkErrors == <<"FORK_EXEC_ERROR", "FORK_STDIN_NONBLOCK_ERROR",
                "FORK_STDOUT_NONBLOCK_ERROR", "FORK_STDERR_NONBLOCK_ERROR",
                "FORK_DUP2_STDIN_ERROR", "FORK_DUP2_STDOUT_ERROR",
                "FORK_DUP2_STDERR_ERROR">>
FallThrough(n) == IF n \in 100..106 THEN {ForkErrors[i] : i \in (n - 99)..7} ELSE {}
ErrorsOf(n) == IF n \in 100..106 THEN {ForkErrors[n - 99]} ELSE {}

\* The pipes of a call are open as long as it is in progress.
Readable(f) ==
    \/ f = "wake" /\ interrupted
    \/ f = "sig" /\ sig_pipe > 0
    \/ f = "close" /\ cur \subseteq watch
    \/ f \in Streams /\ \E c \in cur : unread[c][f] > 0

Put(n, cap) == IF n < cap THEN n + 1 ELSE n

Init ==
    /\ cur = {} /\ pc = "idle" /\ user_stopped = FALSE
    /\ todo = {} /\ interrupted = FALSE
    /\ state = [c \in Calls |-> "NONE"]
    /\ errors = [c \in Calls |-> {}]
    /\ proc = [o \in Objects |-> NoStatus]
    /\ result = [c \in Calls |-> NoStatus]
    /\ asked = {}
    /\ child = [c \in Children |-> IF c \in Calls THEN "none" ELSE "running"]
    /\ status = [c \in Children |-> 0]
    /\ unread = [c \in Calls |-> [k \in Streams |-> 0]]
    /\ watch = {}
    /\ handler = "user" /\ sa_prev = "user"
    /\ sig_pending = FALSE /\ sig_pipe = 0

-----------------------------------------------------------------------------
(* exec() up to its loop.                                                  *)

\* Pipes, the signal handler and the fork succeed; STARTED is reported.
Exec(c) ==
    /\ pc = "idle"
    /\ state[c] = "NONE"
    /\ cur' = {c}
    /\ handler' = "pexec" /\ sa_prev' = handler
    /\ sig_pipe' = 0
    /\ child' = [child EXCEPT ![c] = "running"]
    /\ proc' = [proc EXCEPT ![ObjectOf[c]].running = TRUE]
    /\ state' = [state EXCEPT ![c] = "STARTED"]
    /\ result' = [result EXCEPT ![c] = proc'[ObjectOf[c]]]
    /\ pc' = "forked"
    /\ UNCHANGED <<user_stopped, todo, interrupted, errors, asked, status, pipeVars,
                   sig_pending>>

StageError(stage) ==
    CASE stage = "args"      -> "ARG_PARSE_ERROR"
      [] stage = "pipes"     -> "PIPE_ERROR"
      [] stage = "sigaction" -> "SIGACTION_SET_ERROR"
      [] stage = "fork"      -> "FORK_ERROR"

SetBeforePipes(stage) == stage \in {"pipes", "fork"}
HandlerSet(stage) == stage = "fork"

\* exec() returns early; only the fork comes after the signal handler is set.
ExecFails(c, stage) ==
    /\ pc = "idle"
    /\ state[c] = "NONE"
    /\ stage \in Fails
    /\ errors' = [errors EXCEPT ![c] = @ \cup {StageError(stage)}]
    /\ state' = [state EXCEPT ![c] = "FAIL_STOPPED"]
    /\ result' = [result EXCEPT ![c] = proc[ObjectOf[c]]]
    /\ IF HandlerSet(stage) THEN handler' = "pexec" /\ sa_prev' = handler
       ELSE UNCHANGED dispVars
    /\ UNCHANGED <<loopVars, cur, proc, asked, childVars, pipeVars, sigVars>>

FreshPipe(n) == 0
PipeOfExec(n) == n

\* loop_io: a new select_event, which watches the pipes made before the fork.
LoopIo ==
    /\ pc = "forked"
    /\ user_stopped' = FALSE /\ interrupted' = FALSE
    /\ sig_pipe' = PipeOfExec(sig_pipe)
    /\ pc' = "select"
    /\ UNCHANGED <<todo, callVars, asked, childVars, pipeVars, sig_pending, dispVars>>

-----------------------------------------------------------------------------
(* The loop.                                                               *)

Resume(rest) == /\ todo' = rest
                /\ pc' = IF rest = {} THEN "select" ELSE "pass"

\* STOP_LOOP: the rest of the pass is not visited.
StopLoop == todo' = {} /\ pc' = "leave"

Select ==
    /\ pc = "select"
    /\ todo' = {f \in Streams \cup {"close", "sig", "wake"} : Readable(f)}
    /\ todo' # {}
    /\ pc' = "pass"
    /\ UNCHANGED <<user_stopped, interrupted, callVars, asked, childVars, pipeVars,
                   sigVars, dispVars>>

ReadStream(k) ==
    /\ pc = "pass" /\ k \in todo
    /\ \E c \in cur : unread' = [unread EXCEPT ![c][k] = @ - 1]
    /\ Resume(todo \ {k})
    /\ UNCHANGED <<user_stopped, interrupted, callVars, asked, childVars, watch,
                   sigVars, dispVars>>

UntilEmpty == interrupted
LoopInterrupted == TRUE

\* read_close: the loop is told to end by its own pipe, in a later pass.
ReadClose ==
    /\ pc = "pass" /\ "close" \in todo
    /\ watch' = watch \ cur
    /\ interrupted' = LoopInterrupted
    /\ Resume(todo \ {"close"})
    /\ UNCHANGED <<user_stopped, callVars, asked, childVars, unread, sigVars, dispVars>>

ReadWake ==
    /\ pc = "pass" /\ "wake" \in todo
    /\ interrupted' = FALSE
    /\ user_stopped' = TRUE
    /\ StopLoop
    /\ UNCHANGED <<callVars, asked, childVars, pipeVars, sigVars, dispVars>>

\* ::waitpid with WNOHANG returns 0 for a child that has not exited.
OnlyNegative(c) == {}
NotExited(c) == {"WAITPID_ERROR"}

\* The status that ::waitpid leaves: 0 when the child has not exited.
WaitedFor(c) == IF child[c] = "zombie" THEN status[c] ELSE 0

Updated(c) == UpdateStatus(proc[ObjectOf[c]], WaitedFor(c))

\* handle_sigchld: the child is not reaped if it has not exited, but a status of 0
\* is that of a process that exited.  The return code is looked at in either case.
HandleSigchld(c) ==
    /\ proc' = [proc EXCEPT ![ObjectOf[c]] = Updated(c)]
    /\ result' = [result EXCEPT ![c] = Updated(c)]
    /\ child' = IF child[c] = "zombie" THEN [child EXCEPT ![c] = "reaped"] ELSE child
    /\ errors' = [errors EXCEPT ![c] = @
           \cup (IF child[c] = "zombie" THEN {} ELSE NotExited(c))
           \cup (IF Updated(c).running THEN {} ELSE ErrorsOf(Updated(c).return_code))]

\* The callback ends the loop when the process is taken to have ended.
ReadSignal ==
    /\ pc = "pass" /\ "sig" \in todo
    /\ sig_pipe' = sig_pipe - 1
    /\ \E c \in cur :
           /\ HandleSigchld(c)
           /\ IF Updated(c).running THEN Resume(todo \ {"sig"}) ELSE StopLoop
    /\ UNCHANGED <<user_stopped, interrupted, cur, state, asked, status, pipeVars,
                   sig_pending, dispVars>>

\* loop_rest_io does one ::read of each stream.
ReadRest(c) == [k \in Streams |-> IF unread[c][k] > 0 THEN unread[c][k] - 1 ELSE 0]

\* reset_sigchld_signal_handler; its result is not looked at.
Reset(c) ==
    \/ handler' = sa_prev /\ errors' = errors
    \/ /\ "reset" \in Fails
       /\ handler' = handler
       /\ errors' = [errors EXCEPT ![c] = @ \cup {"SIGACTION_RESET_ERROR"}]

\* The handler is reset, what is left is read, the pipes are closed, and the
\* final state is reported.
Return ==
    /\ pc = "leave"
    /\ \E c \in cur :
           /\ Reset(c)
           /\ unread' = IF user_stopped THEN unread
                        ELSE [unread EXCEPT ![c] = ReadRest(c)]
           /\ state' = [state EXCEPT ![c] = IF user_stopped THEN "USER_STOPPED"
                                            ELSE "STOPPED"]
           /\ result' = [result EXCEPT ![c] = proc[ObjectOf[c]]]
    /\ sig_pending' = (sig_pending /\ handler' = "pexec")
    /\ watch' = watch \ cur
    /\ sig_pipe' = 0
    /\ cur' = {}
    /\ pc' = "idle"
    /\ UNCHANGED <<user_stopped, todo, interrupted, proc, asked, childVars, sa_prev>>

-----------------------------------------------------------------------------
(* The user's other thread, the children and the kernel.                   *)

\* user_stop() on a copy of the proc_status that STARTED was reported with.  Once
\* the call is over the number in it may be that of the next call's pipe.
UserStop(c) ==
    /\ c \in UserStops \ asked
    /\ state[c] \notin {"NONE", "FAIL_STOPPED"}
    /\ asked' = asked \cup {c}
    /\ watch' \in IF c \in cur THEN {watch \cup cur} ELSE {watch, watch \cup cur}
    /\ UNCHANGED <<loopVars, callVars, childVars, unread, sigVars, dispVars>>

kernelUnchanged == UNCHANGED <<loopVars, callVars, asked, watch, dispVars>>

\* The user's own handler is not modelled: its signals are delivered at once.
SignalRaised == sig_pending' = (handler = "pexec")

ChildWrite(c, k) ==
    /\ c \in cur \ Broken
    /\ child[c] = "running"
    /\ unread[c][k] < MaxChunks
    /\ unread' = [unread EXCEPT ![c][k] = @ + 1]
    /\ UNCHANGED <<childVars, sigVars>> /\ kernelUnchanged

\* With what status a child may end; exec() never looks at that of the others.
Killed == {KillWord(sig, FALSE) : sig \in KillSignals}
Endings(c) == IF c \in Others THEN {ExitWord(0)}
              ELSE IF c \in Broken THEN {ExitWord(n) : n \in BrokenCodes}
              ELSE Killed \cup {ExitWord(n) : n \in Codes}

ChildExit(c) ==
    /\ child[c] = "running"
    /\ child' = [child EXCEPT ![c] = "zombie"]
    /\ \E word \in Endings(c) : status' = [status EXCEPT ![c] = word]
    /\ SignalRaised
    /\ UNCHANGED <<unread, sig_pipe>> /\ kernelUnchanged

\* Stopped or continued, which raises SIGCHLD as well: sa_flags is 0.
ChildPauses(c) ==
    /\ child[c] = "running"
    /\ c \in Pausing
    /\ SignalRaised
    /\ UNCHANGED <<childVars, unread, sig_pipe>> /\ kernelUnchanged

\* sigchld_blocking_signal_handler; with no call in progress its pipe is closed.
SignalHandler ==
    /\ sig_pending
    /\ sig_pending' = FALSE
    /\ sig_pipe' = IF cur = {} THEN sig_pipe ELSE Put(sig_pipe, SigCap)
    /\ UNCHANGED <<childVars, unread>> /\ kernelUnchanged

\* Every call has been made.
Terminated ==
    /\ pc = "idle"
    /\ \A c \in Calls : state[c] # "NONE"
    /\ UNCHANGED vars

-----------------------------------------------------------------------------

Caller == \/ \E c \in Calls : Exec(c)
          \/ \E c \in Calls, stage \in Stages : ExecFails(c, stage)
Loop == \/ LoopIo \/ Select \/ ReadClose \/ ReadWake \/ ReadSignal \/ Return
        \/ \E k \in Streams : ReadStream(k)
Kernel == \/ \E c \in Calls, k \in Streams : ChildWrite(c, k)
          \/ \E c \in Children : ChildExit(c) \/ ChildPauses(c)
          \/ SignalHandler

Next == Caller \/ Loop \/ (\E c \in Calls : UserStop(c)) \/ Kernel \/ Terminated

Spec == Init /\ [][Next]_vars

(* The calling thread is never starved, the kernel delivers what is        *)
(* pending, and a child that is no daemon exits.                           *)
Fairness == /\ WF_vars(Loop) /\ WF_vars(SignalHandler)
            /\ \A c \in Children \ Daemons : WF_vars(ChildExit(c))

FairSpec == Spec /\ Fairness

-----------------------------------------------------------------------------
(* Properties the code is to have.                                         *)

\* pexec_status::valid: no error was reported.
Valid(c) == errors[c] = {}

Errors == {"WAITPID_ERROR", "SIGACTION_RESET_ERROR"} \cup {ForkErrors[i] : i \in 1..7}
              \cup {StageError(stage) : stage \in Stages}

\* Every variable keeps its type; at most one call is in progress.
TypeOK ==
    /\ cur \in {{}} \cup {{c} : c \in Calls}
    /\ pc \in {"idle", "forked", "select", "pass", "leave"}
    /\ pc = "idle" <=> cur = {}
    /\ user_stopped \in BOOLEAN /\ interrupted \in BOOLEAN
    /\ todo \subseteq Streams \cup {"close", "sig", "wake"}
    /\ state \in [Calls -> {"NONE", "STARTED"} \cup Final]
    /\ proc \in [Objects -> ProcStatus] /\ result \in [Calls -> ProcStatus]
    /\ errors \in [Calls -> SUBSET Errors]
    /\ asked \subseteq UserStops
    /\ child \in [Children -> {"none", "running", "zombie", "reaped"}]
    /\ status \in [Children -> Words]
    /\ unread \in [Calls -> [Streams -> 0..MaxChunks]]
    /\ watch \subseteq cur
    /\ handler \in {"user", "pexec"} /\ sa_prev \in {"user", "pexec"}
    /\ sig_pending \in BOOLEAN /\ sig_pipe \in 0..SigCap

\* Whatever wakes it, exec() reports STOPPED only for a child it has reaped, or
\* together with WAITPID_ERROR; a command that could not be executed is told in
\* either case.
StoppedOrTold ==
    \A c \in Calls : state[c] = "STOPPED" =>
        /\ child[c] = "reaped" \/ "WAITPID_ERROR" \in errors[c]
        /\ c \in Broken => ~Valid(c)

\* A proc_status r says what the status word w means.
Tells(r, w) ==
    /\ \A n \in Codes8 : w = ExitWord(n) => r.exited /\ r.return_code = n
    /\ \A sig \in Signals : w = KillWord(sig, FALSE) => ~r.exited /\ r.signaled_signal = sig

\* The status handed over with STOPPED is what became of this call's child, also
\* when its object has run other commands before.
StatusTrue ==
    \A c \in Calls : state[c] = "STOPPED" /\ child[c] = "reaped" => Tells(result[c], status[c])

\* The codes of the library that a call was told of, and the one its child left.
ToldCodes(c) == {n \in 100..106 : ForkErrors[n - 99] \in errors[c]}
OwnCodes(c) == {n \in 100..106 : child[c] = "reaped" /\ status[c] = ExitWord(n)}

\* Another call on the object has left such a code in its proc_status.
CodeLeft(c) == \E d \in Calls \ {c} : ObjectOf[d] = ObjectOf[c] /\ OwnCodes(d) # {}

\* A call whose child has exited is told the error of its exit code and no other one,
\* and a call that has not reaped its child is told none.  It says nothing of a child
\* that was killed on an object with a code left: the call may be told of that code.
\* Nor does it say who exited: a command's own 100 reads as a failed execvp.
ForkErrorsTold ==
    \A c \in Calls :
        /\ child[c] # "reaped" => ToldCodes(c) = {}
        /\ child[c] = "reaped" /\ (WIFEXITED(status[c]) \/ ~CodeLeft(c)) =>
               ToldCodes(c) = OwnCodes(c)

\* A descriptor the pass comes to has what ::select saw: no ::read of the loop
\* fails, and loop_io's error branches are not taken.
ReadsSucceed == \A f \in todo : Readable(f)

\* A call was told of one of the two errors after which pexec's handler stays.
HandlerLeft ==
    \E c \in Calls : errors[c] \cap {"FORK_ERROR", "SIGACTION_RESET_ERROR"} # {}

\* The disposition of SIGCHLD is the user's whenever exec() is not running, unless a
\* fork or a reset has failed: then it is pexec's for good, for the calls that follow
\* put back what they found.
HandlerRestored == pc = "idle" => (handler = "user" <=> ~HandlerLeft)

\* The exit of the call's child is about to be found, also when it comes before the
\* loop, and however many signals coalesce or find the pipe full.
ExitPending ==
    \A c \in cur : child[c] = "zombie" /\ pc # "leave" => sig_pending \/ sig_pipe > 0

\* The exit of the child ends exec(), also when it comes before the loop starts.
ExitEnds == \A c \in Calls : c \in cur /\ child[c] = "zombie" ~> c \notin cur

\* user_stop() ends exec(), whatever the child does.
StopEnds == \A c \in Calls : c \in watch ~> c \notin cur

-----------------------------------------------------------------------------
(* The abstract specification.                                             *)

\* The returns of each call, its child, and the calls with an error.
Returns == [c \in Calls |-> IF state[c] \in Final THEN 1 ELSE 0]
OwnChild == [c \in Calls |-> child[c]]
Told == {c \in Calls : ~Valid(c)}

Life == INSTANCE HandleLifecycle
        WITH Procs <- Calls, on_stop <- Returns, child <- OwnChild, told <- Told

\* A blocking call goes through its states as HandleLifecycle promises: what its
\* callbacks are told of the child is so when they are told.
ImplementsLifecycle == Life!Spec

-----------------------------------------------------------------------------
(* The inductive invariant of PexecSingleProofs: the invariants above and  *)
(* what they rest on.                                                      *)

\* The call in progress is the one that is STARTED, and only such have a child.
Tracked == \A c \in Calls : /\ c \in cur <=> state[c] = "STARTED"
                            /\ state[c] = "NONE" => child[c] = "none"

\* A return code of the library's own is that of a child which an object's call reaped.
CodesOwn ==
    \A o \in Objects : proc[o].return_code # 0 =>
        \E d \in Calls : /\ ObjectOf[d] = o /\ child[d] = "reaped"
                         /\ status[d] = ExitWord(proc[o].return_code)

\* A call about to return without user_stop() has its answer.
LeavesTold ==
    pc = "leave" /\ ~user_stopped => \A c \in cur :
        /\ child[c] = "reaped" \/ "WAITPID_ERROR" \in errors[c]
        /\ child[c] = "reaped" => Tells(proc[ObjectOf[c]], status[c])
        /\ c \in Broken => ~Valid(c)

\* Every child ends in one of its ways; the call's is reaped as the loop ends.
EndsKnown == \A c \in Children : child[c] \in {"zombie", "reaped"} => status[c] \in Endings(c)
ReapedLast == \A c \in cur : child[c] = "reaped" => pc = "leave"

\* A call in progress has SIGCHLD handled.
HandledInCall == cur # {} => handler = "pexec"

\* What a call in progress has found is what is to be there without one.
UserHandlerKept == (IF pc = "idle" THEN handler ELSE sa_prev) = "user" <=> ~HandlerLeft

IInv ==
    /\ TypeOK
    /\ pc # "pass" => todo = {}
    /\ ReadsSucceed
    /\ LeavesTold /\ EndsKnown /\ ReapedLast /\ StoppedOrTold
    /\ Tracked /\ CodesOwn /\ StatusTrue /\ ForkErrorsTold
    /\ HandledInCall /\ ExitPending /\ UserHandlerKept

-----------------------------------------------------------------------------
(* A statement of a comment that the code disagrees with.                  *)

\* STOPPED is "process exited" (proc_status.h).
StoppedHasExited ==
    \A c \in Calls : state[c] = "STOPPED" => child[c] \in {"zombie", "reaped"}
==============================================================================
