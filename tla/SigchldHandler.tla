--------------------------- MODULE SigchldHandler ---------------------------
(***************************************************************************)
(* The life of sigchld_handler.  The self-pipe, the disposition that was   *)
(* found and the active flag are globals of the library, while every       *)
(* pexec_multi owns a handler object: run() constructs one, the end of a   *)
(* DEFAULT run, the next run() or the destructor of pexec_multi destroys   *)
(* it.  An EXTERNAL run() returns at once; the user's event loop watches   *)
(* the descriptors given to register_event and ends when none is left.     *)
(*                                                                         *)
(* One system call of construction or destruction is one step, and the     *)
(* delivery of SIGCHLD interleaves with them.  As README.md asks, only one *)
(* run() is active at a time: none starts before the loop of another has   *)
(* ended.  Objects that have run, or failed to, may be left as they are,   *)
(* run again, or be destroyed, also by a callback of a loop in progress.   *)
(***************************************************************************)
EXTENDS Integers, FiniteSets

CONSTANTS
    Objects,      \* the pexec_multi objects of the program
    External,     \* those with set_type(EXTERNAL)
    MaxRuns,      \* bound on the run() calls of each object
    Failing,      \* objects whose calls of pipe2 and sigaction may fail
    MaxChildren,  \* bound on the processes spawned by a run
    MaxPipes,     \* bound on the numbers of the self-pipes
    SigCap        \* capacity of a self-pipe, in signals

ASSUME SigchldHandlerAssumption ==
    /\ External \subseteq Objects /\ Failing \subseteq Objects
    /\ MaxRuns \in [Objects -> Nat]
    /\ MaxChildren \in Nat /\ SigCap \in Nat \ {0}
    /\ MaxPipes \in Nat \ {0}

VARIABLES
    \* globals of sigchld_handler.cpp
    sigchld_pipe_signal,  \* number of the pipe the globals name, NoPipe for -1
    sigchld_sa_prev,      \* the disposition that was found
    sigchld_active,
    \* pexec_multi
    sigchld,              \* the handler object of each pexec_multi
    fresh,                \* the object about to be put there
    obj,                  \* the pexec_multi in a call, a set of at most one
    batch,                \* the one whose event loop runs, a set of at most one
    runs,                 \* run() calls so far
    left,                 \* those whose run() returned with processes left
    destroyed,            \* pexec_multi objects that are gone
    events,               \* descriptors the event loop watches
    \* kernel
    handler,              \* the disposition of SIGCHLD
    open,                 \* self-pipes that are open
    signals,              \* signal numbers in each pipe
    pending,              \* SIGCHLD is pending and not delivered
    running, zombies,     \* children of the run in progress
    spawned,              \* their number so far
    pc,                   \* where the program's thread is
    \* history, for the properties; all of it since the last pipe was made
    overlaid,             \* pexec's handler was installed already
    meddled,              \* a reset has succeeded during the run
    reset_errors,         \* SIGACTION_RESET_ERROR: to whom, and why
    lost                  \* open pipes whose numbers were overwritten, of all time

globalVars == <<sigchld_pipe_signal, sigchld_sa_prev, sigchld_active>>
objectVars == <<sigchld, fresh, obj, batch, runs, left, destroyed>>
childVars  == <<running, zombies, spawned>>
pipeVars   == <<open, signals>>
historyVars == <<overlaid, meddled, reset_errors, lost>>
vars == <<globalVars, objectVars, events, handler, pipeVars, pending, childVars, pc,
          historyVars>>

NoPipe == 0            \* the number -1
Pipes == 1..MaxPipes
Control == -2          \* pexec_multi::control_pipe[0]
FreePipe(n) == n \in Pipes \ open /\ \A m \in Pipes \ open : n <= m

Init ==
    /\ sigchld_pipe_signal = NoPipe /\ sigchld_sa_prev = "user"
    /\ sigchld_active = FALSE
    /\ sigchld = [o \in Objects |-> "none"] /\ fresh = "none"
    /\ obj = {} /\ batch = {}
    /\ runs = [o \in Objects |-> 0] /\ left = {} /\ destroyed = {}
    /\ events = {}
    /\ handler = "user" /\ open = {} /\ signals = [n \in Pipes |-> 0]
    /\ pending = FALSE
    /\ running = 0 /\ zombies = 0 /\ spawned = 0
    /\ pc = "idle"
    /\ overlaid = FALSE /\ meddled = FALSE /\ reset_errors = {} /\ lost = {}

-----------------------------------------------------------------------------
(* sigchld_set_signal_handler, called by the constructor.                  *)

StartRun(o) ==
    /\ pc = "idle" /\ o \notin destroyed
    /\ runs[o] < MaxRuns[o]
    /\ obj' = {o} /\ runs' = [runs EXCEPT ![o] = @ + 1]

\* The numbers of a pipe that is open are overwritten with those of the new one.
MakePipe(o) ==
    /\ StartRun(o)
    /\ \E n \in Pipes :
           /\ FreePipe(n)
           /\ sigchld_pipe_signal' = n
           /\ open' = open \cup {n} /\ signals' = [signals EXCEPT ![n] = 0]
    /\ pc' = "sigaction"
    /\ overlaid' = (handler = "pexec") /\ meddled' = FALSE /\ reset_errors' = {}
    /\ lost' = lost \cup (open \cap {sigchld_pipe_signal})
    /\ UNCHANGED <<sigchld_sa_prev, sigchld_active, sigchld, fresh, batch, left,
                   destroyed, events, handler, pending, childVars>>

MakePipeFails(o) ==
    /\ StartRun(o)
    /\ o \in Failing
    /\ fresh' = "invalid"
    /\ pc' = "assign"
    /\ UNCHANGED <<globalVars, sigchld, batch, left, destroyed, events, handler,
                   pipeVars, pending, childVars, historyVars>>

SetHandler ==
    /\ pc = "sigaction"
    /\ handler' = "pexec" /\ sigchld_sa_prev' = handler
    /\ sigchld_active' = TRUE
    /\ fresh' = "valid"
    /\ pc' = "assign"
    /\ UNCHANGED <<sigchld_pipe_signal, sigchld, obj, batch, runs, left, destroyed,
                   events, pipeVars, pending, childVars, historyVars>>

\* close_pipe: the numbers in the globals become -1.
ForgetPipe == sigchld_pipe_signal' = NoPipe /\ UNCHANGED pipeVars
ClosePipe == /\ open' = open \ {sigchld_pipe_signal}
             /\ sigchld_pipe_signal' = NoPipe
             /\ UNCHANGED signals

Unchecked == "valid"
Failed == "invalid"

SetHandlerFails ==
    /\ pc = "sigaction"
    /\ obj \subseteq Failing
    /\ ClosePipe
    /\ fresh' = Failed
    /\ pc' = "assign"
    /\ UNCHANGED <<sigchld_sa_prev, sigchld_active, sigchld, obj, batch, runs, left,
                   destroyed, events, handler, pending, childVars, historyVars>>

-----------------------------------------------------------------------------
(* The unique_ptr sigchld gets the fresh object, or none: the old object is *)
(* destroyed, which resets the signal handler unless it is not active.     *)

\* After a destructor the thread is where it was: in a loop, or in none.
Assign(o) ==
    /\ sigchld' = [sigchld EXCEPT ![o] = fresh]
    /\ fresh' = "none"
    /\ \/ fresh # "none" /\ pc' = "check" /\ UNCHANGED obj
       \/ fresh = "none" /\ pc' = (IF batch = {} THEN "idle" ELSE "loop") /\ obj' = {}
    /\ UNCHANGED <<batch, runs, left, destroyed>>

AssignToEmpty ==
    /\ pc = "assign"
    /\ \E o \in obj : sigchld[o] = "none" /\ Assign(o)
    /\ UNCHANGED <<globalVars, events, handler, pipeVars, pending, childVars,
                   historyVars>>

\* sigchld_reset_signal_handler returned false: the error callback is that of a
\* handler which run() found valid.
ResetError(why) ==
    reset_errors' = reset_errors \cup ({o \in obj : sigchld[o] = "valid"} \X {why})

ResetInactive ==
    /\ pc = "assign"
    /\ ~sigchld_active
    /\ \E o \in obj : sigchld[o] # "none" /\ Assign(o)
    /\ ResetError("inactive")
    /\ UNCHANGED <<globalVars, events, handler, pipeVars, pending, childVars,
                   overlaid, meddled, lost>>

\* The handler, its pipe and the flag stay as they are.
ResetFails ==
    /\ pc = "assign"
    /\ sigchld_active /\ obj \subseteq Failing
    /\ \E o \in obj : sigchld[o] # "none" /\ Assign(o)
    /\ ResetError("sigaction")
    /\ UNCHANGED <<globalVars, events, handler, pipeVars, pending, childVars,
                   overlaid, meddled, lost>>

ResetNothing(h) == h
PrevHandler(h) == sigchld_sa_prev

\* The disposition is the previous one again; then the pipe is closed.
ResetHandler ==
    /\ pc = "assign"
    /\ sigchld_active
    /\ \A o \in obj : sigchld[o] # "none"
    /\ handler' = PrevHandler(handler)
    /\ pending' = (pending /\ sigchld_sa_prev = "pexec")
    /\ meddled' = (meddled \/ fresh = "valid" \/ batch # {})
    /\ pc' = "close"
    /\ UNCHANGED <<globalVars, objectVars, events, pipeVars, childVars, overlaid,
                   reset_errors, lost>>

CloseOld ==
    /\ pc = "close"
    /\ ClosePipe
    /\ sigchld_active' = FALSE
    /\ \E o \in obj : Assign(o)
    /\ UNCHANGED <<sigchld_sa_prev, events, handler, pending, childVars, historyVars>>

-----------------------------------------------------------------------------
(* run() after the construction, the event loop, and the destructor of     *)
(* pexec_multi.                                                            *)

\* An invalid handler ends run(); it stays in sigchld.
RunInvalid ==
    /\ pc = "check"
    /\ \A o \in obj : sigchld[o] = "invalid"
    /\ obj' = {} /\ pc' = "idle"
    /\ UNCHANGED <<globalVars, sigchld, fresh, batch, runs, left, destroyed, events,
                   handler, pipeVars, pending, childVars, historyVars>>

\* get_read_fd() reads the global number at this moment.
Register ==
    /\ pc = "check"
    /\ \A o \in obj : sigchld[o] = "valid"
    /\ events' = {sigchld_pipe_signal, Control}
    /\ spawned' = 0
    /\ batch' = obj /\ obj' = {} /\ pc' = "loop"
    /\ UNCHANGED <<globalVars, sigchld, fresh, runs, left, destroyed, handler, pipeVars,
                   pending, running, zombies, historyVars>>

Spawn ==
    /\ pc = "loop" /\ Control \in events
    /\ spawned < MaxChildren
    /\ spawned' = spawned + 1 /\ running' = running + 1
    /\ UNCHANGED <<globalVars, objectVars, events, handler, pipeVars, pending,
                   zombies, pc, historyVars>>

ReapOne(n) == IF n = 0 THEN 0 ELSE n - 1
ReapAll(n) == 0

\* The callback of the SIGCHLD descriptor: read_signal and the ::waitpid loop.
ReadSignal ==
    /\ pc = "loop"
    /\ sigchld_pipe_signal \in events \cap open
    /\ signals[sigchld_pipe_signal] > 0
    /\ signals' = [signals EXCEPT ![sigchld_pipe_signal] = @ - 1]
    /\ zombies' = ReapAll(zombies)
    /\ UNCHANGED <<globalVars, objectVars, events, handler, open, pending, running,
                   spawned, pc, historyVars>>

DefaultLoop(o) == o \notin External

\* run() has no loop any more, and destroys its handler.
LeaveDefault == batch' = {} /\ obj' = batch /\ events' = {} /\ pc' = "assign"

\* handle_stop.  What it removes is the number that the global holds now.  A
\* DEFAULT loop is interrupted, unless select_event asserts that the number is not
\* watched; an external one ends when it watches nothing.
HandleStop ==
    /\ pc = "loop" /\ Control \in events
    /\ IF \E o \in batch : DefaultLoop(o)
       THEN \/ sigchld_pipe_signal \in events /\ LeaveDefault
            \/ sigchld_pipe_signal \notin events /\ pc' = "abort"
               /\ UNCHANGED <<batch, obj, events>>
       ELSE /\ events' = events \ {sigchld_pipe_signal, Control}
            /\ batch' = IF events' = {} THEN {} ELSE batch
            /\ pc' = IF events' = {} THEN "idle" ELSE "loop"
            /\ UNCHANGED obj
    /\ UNCHANGED <<globalVars, sigchld, fresh, runs, left, destroyed, handler, pipeVars,
                   pending, childVars, historyVars>>

\* The job that stops the loop, or the null job behind it: every process is gone, of
\* an object in left those of earlier runs as well.
Stop == running = 0 /\ zombies = 0 /\ HandleStop

\* The callback of the SIGCHLD descriptor was due when a callback before it closed
\* the pipe: read_signal reads from -1 and wants the loop to stop.
ReadFails ==
    /\ sigchld_pipe_signal \notin events
    /\ HandleStop

\* ::select of a DEFAULT loop fails: the watched number is -1 or closed, and not
\* another descriptor's.  SELECT_ERROR is reported, and the children are left to
\* themselves.
SelectFails ==
    /\ pc = "loop"
    /\ \A o \in batch : DefaultLoop(o)
    /\ ~(events \ {Control} \subseteq open)
    /\ left' = IF running + zombies > 0 THEN left \cup batch ELSE left
    /\ running' = 0 /\ zombies' = 0
    /\ LeaveDefault
    /\ UNCHANGED <<globalVars, sigchld, fresh, runs, destroyed, handler, pipeVars,
                   pending, spawned, historyVars>>

\* ~pexec_multi destroys the handler that is left.  That of another object than the
\* one in the loop may be called by the user's code there.
Destroy(o) ==
    /\ pc \in {"idle", "loop"} /\ o \notin destroyed \cup batch
    /\ destroyed' = destroyed \cup {o}
    /\ \/ sigchld[o] = "none" /\ UNCHANGED <<obj, pc>>
       \/ sigchld[o] # "none" /\ obj' = {o} /\ pc' = "assign"
    /\ UNCHANGED <<globalVars, sigchld, fresh, batch, runs, left, events, handler,
                   pipeVars, pending, childVars, historyVars>>

-----------------------------------------------------------------------------
(* The kernel.                                                             *)

kernelUnchanged ==
    UNCHANGED <<globalVars, objectVars, events, handler, open, pc, historyVars>>

\* With the user's disposition SIGCHLD is no concern of the library.
ChildExit ==
    /\ running > 0
    /\ running' = running - 1 /\ zombies' = zombies + 1
    /\ pending' = (handler = "pexec")
    /\ UNCHANGED <<signals, spawned>> /\ kernelUnchanged

\* A child of the user's own exits, or one that was left behind, or one of the
\* children is stopped.
OtherSignal ==
    /\ handler = "pexec"
    /\ pending' = TRUE
    /\ UNCHANGED <<signals, childVars>> /\ kernelUnchanged

Put(n) == IF n < SigCap THEN n + 1 ELSE n

\* sigchld_signal_handler: a write to -1 or to a full pipe is lost.
SignalHandler ==
    /\ pending
    /\ pending' = FALSE
    /\ signals' = IF sigchld_pipe_signal \in open
                  THEN [signals EXCEPT ![sigchld_pipe_signal] = Put(@)]
                  ELSE signals
    /\ UNCHANGED childVars /\ kernelUnchanged

\* Every pexec_multi is gone, an assertion has failed, or the loop has lost its
\* SIGCHLD pipe and waits for ever.
Terminated == /\ \/ pc = "idle" /\ destroyed = Objects
                 \/ pc = "abort"
                 \/ pc = "loop" /\ sigchld_pipe_signal \notin open
              /\ UNCHANGED vars

Loop == ReadSignal \/ Stop
Thread == \/ SetHandler \/ AssignToEmpty \/ ResetInactive \/ ResetHandler \/ CloseOld
          \/ RunInvalid \/ Register \/ Loop
Next == \/ \E o \in Objects : MakePipe(o) \/ MakePipeFails(o) \/ Destroy(o)
        \/ SetHandlerFails \/ ResetFails \/ Thread \/ Spawn
        \/ ReadFails \/ SelectFails
        \/ ChildExit \/ OtherSignal \/ SignalHandler
        \/ Terminated

Spec == Init /\ [][Next]_vars

(* The thread is scheduled, and a pass of its loop visits the job pipe as  *)
(* well as the signals; the kernel delivers signals, children exit.        *)
Fairness == /\ WF_vars(Thread) /\ WF_vars(Stop)
            /\ WF_vars(SignalHandler) /\ WF_vars(ChildExit)
FairSpec == Spec /\ Fairness
-----------------------------------------------------------------------------
(* Properties the code is to have.                                         *)

\* Every variable keeps its type.
TypeOK ==
    /\ sigchld_pipe_signal \in Pipes \cup {NoPipe}
    /\ sigchld_sa_prev \in {"user", "pexec"} /\ handler \in {"user", "pexec"}
    /\ sigchld_active \in BOOLEAN /\ pending \in BOOLEAN
    /\ sigchld \in [Objects -> {"none", "valid", "invalid"}]
    /\ fresh \in {"none", "valid", "invalid"}
    /\ obj \in {{}} \cup {{o} : o \in Objects} /\ batch \in {{}} \cup {{o} : o \in Objects}
    /\ runs \in [Objects -> Nat] /\ left \subseteq Objects /\ destroyed \subseteq Objects
    /\ events \subseteq Pipes \cup {NoPipe, Control} /\ open \subseteq Pipes
    /\ signals \in [Pipes -> 0..SigCap]
    /\ running \in Nat /\ zombies \in Nat /\ spawned \in 0..MaxChildren
    /\ pc \in {"idle", "sigaction", "assign", "close", "check", "loop", "abort"}
    /\ overlaid \in BOOLEAN /\ meddled \in BOOLEAN
    /\ reset_errors \subseteq Objects \X {"inactive", "sigaction"}
    /\ lost \subseteq Pipes

\* The handler of the library is installed, with all that it needs.
Ready == handler = "pexec" /\ sigchld_active /\ sigchld_pipe_signal \in open

\* While sigchld_signal_handler is installed it has an open pipe to write to: the
\* order of the calls that set and reset it leaves no moment without.  Not so
\* after a run() that found it installed already, as it is beside an EXTERNAL
\* object that has run, and after a reset that failed.
HandlerHasPipe == handler = "pexec" /\ ~overlaid => sigchld_pipe_signal \in open

\* A loop that runs watches the pipe that the installed handler writes to, whatever
\* runs, failures and destructions came before its own handler was set, until an
\* older handler object is destroyed after that.
Armed == batch # {} /\ ~meddled => Ready /\ sigchld_pipe_signal \in events

\* With every handler object gone or unused, the user's disposition is back and no
\* pipe is open but those that were overwritten; or a reset has failed, and its
\* object was told.  Not so after a run() that found pexec's handler installed.
Restored ==
    /\ pc = "idle" /\ (\A o \in Objects : sigchld[o] # "valid") /\ ~overlaid
    /\ \A o \in Objects : <<o, "sigaction">> \notin reset_errors
    => handler = "user" /\ ~sigchld_active /\ open \subseteq lost

\* A child that has exited is about to be found, through coalesced signals and
\* a full pipe, in each loop that no destructor of an older handler has disturbed.
NoLostExit == batch # {} /\ ~meddled /\ zombies > 0 =>
    pending \/ \E n \in events \cap open : signals[n] > 0

\* Such a loop ends when its processes have: the exits of a batch are all noticed,
\* in each batch anew, if none was left behind by an earlier one of the object.
BatchEnds == batch # {} ~> batch = {} \/ meddled \/ batch \subseteq left

\* Every loop ends, also that of the second run() of an EXTERNAL object, which the
\* example makes when its first batch has been executed.
EveryBatchEnds == batch # {} ~> batch = {}

-----------------------------------------------------------------------------
(* The inductive invariant of SigchldHandlerProofs.                        *)

\* What the thread is doing.
Places ==
    /\ pc \in {"sigaction", "assign", "close", "check"} => obj # {}
    /\ pc \in {"idle", "sigaction", "check"} => batch = {}
    /\ pc = "loop" => batch # {} /\ obj = {}
    /\ pc \notin {"assign", "close"} => fresh = "none"
    /\ fresh # "none" => batch = {}
    /\ batch = {} => running = 0 /\ zombies = 0
    /\ batch # {} => events \ {Control} # {}

\* Only what was overwritten stays open, beside the pipe of the globals.
PipesKnown == lost = open \ {sigchld_pipe_signal}

\* The order of the calls, in whatever state the globals were found.
HandlerSet ==
    /\ pc = "sigaction" =>
           /\ sigchld_pipe_signal \in open
           /\ overlaid <=> handler = "pexec"
           /\ handler = "user" => ~sigchld_active
    /\ pc = "close" => (handler = "pexec" => overlaid)
    /\ pc \notin {"sigaction", "close"} =>
           /\ handler = "user" => ~sigchld_active /\ sigchld_pipe_signal \notin open
           /\ handler = "pexec" => overlaid \/ (Ready /\ sigchld_sa_prev = "user")

\* A handler that is installed belongs to an object, or to none whose reset failed.
HandlerOwned ==
    handler = "pexec" /\ ~overlaid =>
        \/ fresh = "valid" \/ \E o \in Objects : sigchld[o] = "valid"
        \/ \E o \in Objects : <<o, "sigaction">> \in reset_errors

\* A run in progress whose handler is the last that was set or reset.
RunArmed ==
    /\ pc = "close" => meddled \/ (fresh # "valid" /\ batch = {})
    /\ ~meddled /\ fresh = "valid" => Ready
    /\ ~meddled /\ pc = "check" => \A o \in obj : sigchld[o] = "valid" => Ready
    /\ ~meddled /\ batch # {} =>
           /\ Ready /\ events \cap (Pipes \cup {NoPipe}) = {sigchld_pipe_signal}
           /\ zombies > 0 => pending \/ signals[sigchld_pipe_signal] > 0

IInv == TypeOK /\ Places /\ PipesKnown /\ HandlerSet /\ HandlerOwned /\ RunArmed
=============================================================================
