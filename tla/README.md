# TLA+ specification of pexec

pexec is a C++ library that spawns processes, reads their output and reports
their state by callbacks. This directory holds TLA+ models of it, the TLC
configurations that check them, and proofs that TLAPS checks. Paths below are
relative to the repository; `pexec_multi.cpp` stands for
`src/src/pexec/pexec_multi.cpp`, and so on. `PROJECT.json` maps every definition
to the lines it models.

    tlasany PexecMulti.tla
    tlc -workers 2 -config multi_safety.cfg MCPexecMulti
    tlc -workers 2 -config queue.cfg QueueBuffer
    tlapm PexecMultiProofs.tla

Section 3 names the module and what is shown for each configuration.

## 1. Inventory

| component | state | operations | talks to |
|---|---|---|---|
| `pexec_multi` | job `buffer_`, `control_pipe`, `active_procs_`, `registered_fd_`, `stopping_`, `stop_flag_`, `stop_signum_` | `exec`, `stop` (any thread); `run`; `do_action`, `dispatch_job`, `on_proc_stopped_cb_` (loop thread) | callers by the buffer and one byte per job; `select_event`, `sigchld_handler`, handles by callbacks |
| `pexec_multi_handle` | callbacks, a `pexec<1024>` in NONBLOCKING mode | `exec`, the state callback, `on_stop` | its `pexec_multi`; the child's pipes |
| `pexec<>`, BLOCKING | four pipes, `proc_status`, `user_stopped_` | `exec`: pipes, signal handler, fork, loop, rest of the output, final state | `select_event`, a global self-pipe, `::waitpid(pid)` |
| `select_event` | `cbs_`, its own control pipe, the `fd_set` of a pass | `add_read_event`, `remove_read_event`, `loop`, `interrupt` | callbacks that add and remove watches during the pass |
| `sigchld_handler` | a global self-pipe, the previous disposition | construct, destruct, `read_signal` | the kernel; `update_status` of each reaped pid |
| `queue_buffer` | a deque, a mutex, a condition variable | `add`, `clear`, `clear_add`, `remove` (blocks while empty) | callers and the loop thread |
| `proc_status` | pid, state, exit data, descriptor numbers | `update_status`, `user_stop` | copied to users, who may call it from any thread |
| `argument_parser` | none | `str2arg`, `arg2str` | `exec` |
| `util`, `error`, `pexec_status`, `exec` wrapper | a global self-pipe in `util` | system call wrappers, names, collection of one call's output | |

**Interaction.** A caller's `exec` or `stop` puts a job into `buffer_` and then
writes a byte to the control pipe. The loop thread, in `::select`, finds the
byte, reads it, takes a job off the buffer and either spawns a process or starts
to stop. A process's output and its close-watch pipe have descriptors in the
select map. SIGCHLD's handler writes to a self-pipe; its callback reads one
signal number and calls `::waitpid(0, WNOHANG)` until nothing is left. Each
handle that ends runs its callback, which removes its descriptors, erases it from
`active_procs_`, and, if it was the last one of a stop, queues a null job; the null
job makes `handle_stop` interrupt the loop, and `run` returns.

**What is hard.**

* Two steps of `send_job` on several threads interleave with each other and with
  the loop.
* SIGCHLD is not queued, its pipe may be full, and it arrives between any two
  steps, for children of others and for stops and continues as well.
* A pass of `select_event::loop` works on bits from its start while its callbacks
  close descriptors, spawn processes that get the same numbers, and insert into
  and erase from the map under the iterator.
* A process can be ended by its exit, by `user_stop`, by `STOP_USER` and by a failed read, all
  within one pass.
* `run` returns only through a chain of callbacks: last exit, null job, byte, wake-up pipe.
* Copies of `proc_status` hold descriptor numbers after they are closed.

**What makes each component correct.**

* `pexec_multi`: `remove` never blocks the loop; a stop in progress is answered;
  `run` returns, and only when no process is left; no job is left queued beside a
  loop that sleeps; no reaped pid is signalled.
* handle: `on_stop` is called once, whichever way the process ends.
* `select_event`: its map is that of the open pipes; the iterator survives what callbacks
  do to the map; each readable descriptor is called once in a pass.
* `sigchld_handler`: no exit is lost, in any batch; the installed handler has a
  pipe; the user's disposition comes back.
* `pexec<>`, BLOCKING: `exec` returns when the child exits or the user stops it,
  and reports STOPPED only for a child it reaped.
* `queue_buffer`: first in, first out, to one `remove` each; no lost notification.
* `proc_status`: a status says how its own child ended; `user_stop` reaches its own process.
* `argument_parser`: a line means what a reader of one character at a time would
  take it to mean, and `str2arg(arg2str(a)) = a` where the quoting allows it.

## 2. Modules

| module | contents |
|---|---|
| `PexecMulti` | `pexec_multi` with the DEFAULT loop, its handles, `select_event`, `sigchld_handler` and `queue_buffer` as far as it uses them, with callers, children and the kernel |
| `MCPexecMulti` | symmetry for TLC |
| `PexecMultiProofs` | the theorems about `PexecMulti` |
| `PexecSingle` | repeated blocking `pexec<>::exec`, also on one object, with the global self-pipe and signal disposition, and other children of the program |
| `MCPexecSingle` | which calls share an object |
| `PexecSingleProofs` | the theorems about `PexecSingle` |
| `HandleLifecycle` | abstract: what the states of a process handle promise, with its theorems; `PexecMulti` and `PexecSingle` implement it |
| `WaitStatus` | the words of `::waitpid` and `update_status`; `PexecSingle` extends it, and `PexecSingleProofs` has its theorems |
| `SigchldHandler`, `MCSigchldHandler`, `SigchldHandlerProofs` | construction and destruction of `sigchld_handler` over the library's globals, by several `pexec_multi` objects, in DEFAULT and EXTERNAL mode |
| `QueueBuffer`, `QueueBufferProofs` | `queue_buffer`: mutex, condition variable, deque |
| `JobQueue` | abstract: the first-in first-out queue; `QueueBuffer` implements it, and `PexecMulti`, which never clears its buffer, `OnwardSpec` |
| `SelectEvent`, `SelectEventProofs` | `select_event`: the iteration of `loop` and what callbacks do to it |
| `SelectPass` | abstract: what a pass owes to the watches; `SelectEvent` implements it |
| `ArgParser`, `ArgParserProofs` | `str2arg`, `arg2str` |
| `FoldLeftTheorems` | induction over numbers and sequences, and what `FoldLeft` computes, for the proofs about `ArgParser` |

How they fit together: `PexecMulti` and `PexecSingle` are the two engines and
compose the others in the form that their abstract specifications allow:
`buffer` is `JobQueue` with atomic operations (`ImplementsQueue`), `todo` is the `due` of `SelectPass`
(less ordered and, for `Rehash`, weaker), `sig_pipe` is the pipe of a
`SigchldHandler` that is `Armed`. The fine steps (a lock, an iterator, a
`sigaction`) are in the modules of the parts.

### PexecMulti

The loop thread is `pc`:

| `pc` | the loop thread is | leaves by |
|---|---|---|
| `idle` | not in `run` | `Run` |
| `select` | in `::select` | `Select` |
| `pass` | between two callbacks of a pass; `todo` holds the set bits it has not come to | one action per callback: `ReadStream`, `ReadStreamFails`, `ReadClose`, `ReadSignal(Empty)`, `ReadControl`, `RunReturns` (the loop's own pipe) |
| `reap` | between two `::waitpid` calls of `read_signal` | `ReapActive`, `ReapOther`, `ReapDone` |
| `dispatch` | in `buffer_.remove()` | `DispatchNull`, `DispatchStop`, `DropJob`, `SpawnProc`, `SpawnFails` |
| `abort` | dead: `assert(pid > 0)` failed, or the `assert(0)` of `select_event::remove` | nothing |

`dispatch` and `reap` are where another thread or a child can change what the
callback sees, so the callback is cut there. Elsewhere a callback is one step: it
shares nothing with others but pipes, and one read or write of those is atomic.
`Exec` and `Stop` are the first half of `send_job`, `Interrupt` the second; `owed`
counts the callers in between. The null job from `on_proc_stopped_cb_` is queued
by the loop thread itself, in one step with its byte.

`Finish` is all that `stopped`, `user_stopped` and `fail_stopped` do: pipes
closed, state reported, descriptors removed from both maps, handle erased, and
the null job if it was the last. `FinishesFinish` (a lemma) states that
every way to end a handle goes through it.

*Data.* One unit of an output pipe is what a single read takes. A process's pipes
get a *slot*, a block of descriptor numbers free again once they are closed: this
is what lets a new process have the numbers of an old one. The content of output and
error lists is left out. A child is `none`, `running`, `zombie` or `reaped`;
SIGCHLD is one pending bit and the self-pipe a count.

*The pass.* `unordered_map` may place a new entry anywhere, so after
an insertion the pass may or may not come to a new entry whose number has its bit set
(`AfterInsert`). An insertion can also rehash. libstdc++ rehashes an
`unordered_map` from 13 to 29 buckets on the insertion of a 14th entry; the loop has three entries and each process
at most three, so up to three processes at a time never rehash. The map never shrinks, so each size is reached once per `run`. The insertion
invalidates the loop's iterator. It still points to its own entry, but the
order of the others has changed, so with `Rehash = TRUE` what is left of the pass is any set of the entries with
a set bit, apart from the one being visited.

### PexecSingle

`pc` is `idle`, `forked` (between the fork and the loop), `select`, `pass` or
`leave` (the loop has ended; the handler is to be reset, the rest read and the
final state reported). `ExecFails` is `exec` returning early at one of four
stages; only the fork comes after the handler is installed, which it then leaves so. `Reset` is
`reset_sigchld_signal_handler`, which may fail too and leaves the handler as well. `Others` are children of
the program that `exec` did not make. The disposition of SIGCHLD is `handler`, and
`sa_prev` what the call in progress found.

`proc` is the `proc_status` of each object: calls with the same `ObjectOf` share it,
and its fields outlive a call. A child ends with a status word (`Endings`), and
`ReadSignal` is the callback with `handle_sigchld`, `update_status` and
`handle_proc_return_code`: if `::waitpid` returns 0 the call is told WAITPID_ERROR
and decodes a status of 0, for which the process has exited, so that it stops all
the same. `pexec::exec` is a call whose object is its own; `result` and `errors`
are what it collects, and `Valid` is `pexec_status::valid`.

### HandleLifecycle

A handle is NONE, STARTED with a child of its own, and ends once in one of three
states; the end is reported once; it is STOPPED only if its child is reaped at that
step or before, or an error was reported. `PexecMulti` maps `state`, `on_stop` and
`child` to themselves, `told` to the empty set: with the loop of `pexec_multi` an error
never replaces the reaping. `PexecSingle` maps `told` to the calls with an error, and
`on_stop` to the returns of the call. A step that ends a handle may report an error with it (`MayTell`), as a blocking call does
whose signal handler cannot be reset.

### WaitStatus

The words are those of Linux: exit code times 256; signal plus the core-dump bit;
signal times 256 plus 127; 65535. The macros are defined as `<sys/wait.h>` does,
`WIFSIGNALED` with its signed char. `UpdateStatus` is the function of `proc_status.cpp`.

### SigchldHandler

The thread is `pc`: `sigaction` (pipe made, handler not set), `assign` (the
`unique_ptr` gets the new object or none, so the old one is to be destroyed), `close`
(disposition reset, pipe open), `check` (`run` looks whether the object is valid),
`loop`, `abort`. `sigchld_pipe_signal`, `sigchld_sa_prev` and `sigchld_active` are the three globals. `SignalHandler`
may come between any two of these steps. `obj` is the object in a call, `batch` the one whose loop runs.
`run` of an EXTERNAL object ends where
the user's loop watches nothing, and its handler stays until the next `run` or the
destructor. Every failure is there: of `pipe2` (`MakePipeFails`), of the two calls of `sigaction` (`SetHandlerFails`, `ResetFails`: false is
returned, the pipe and the flag stay), of `::select` for a closed number (`SelectFails`) and of a read from it (`ReadFails`).

One `run` is active at a time, which is all that the library's README asks for (`src/README.md:6`): an EXTERNAL object that has run, and one whose handler
could not be created, may lie beside the run of another, run again, or be destroyed, also by a callback of another's loop.
Some of these disturb the globals. What the properties depend on is recorded in history variables: `overlaid`, the
last `run` found pexec's handler installed; `meddled`, an older handler's destructor reset the disposition behind the
last `run`'s; `reset_errors`, whose handlers could not be reset; `lost`, open pipes whose numbers were overwritten; `left`, the objects whose `run` was
ended by a failing `::select` with children left. Children and reaping are counts; `PexecMulti` has them one by one.

### QueueBuffer

Each thread is at a place of its operation: `lock`, `check`, `front` (copy made,
not popped), `unlock`, `notify`, `asleep`. `cond_.wait` releases the mutex and
sleeps in one step. A notification wakes any one of those asleep; a wake-up may come
without one. The pop is the step at which the abstract queue is taken from.

### SelectEvent

`iter` is `actual_iterator_cbs_`, `ahead` what lies behind it, in no order: `MoveTo`
picks any. An added watch lands before the iterator or ahead of it. `Erase` is
`remove_read_event` with the flag `deleted`, and `Increment` what `loop` does with it. Two
things are as the library uses them: the loop's own pipe is never removed, and no callback
that returns SKIP_OTHER_FD has removed a watch (with both, the flag would stay up and
the next pass would call its first watch twice).

### ArgParser

A character is a letter, a space, a quote or a backslash. The state is a command
line or a list of arguments, empty ones too, written one character at a time, so that TLC goes through all of them.
`Items` is `split`; `Pieces` is the first half of `str2arg`, whose loops are folds (`AddSub` a turn of the
outer one, its `quoted` the odd `i`; `AddPiece` a turn of the inner one), `Merge` a turn of the loop of the second half,
whose `prev` is the last element of `out`; `AddArg` is a turn of `arg2str`.

## 3. Runs

Passing runs:

| run (module) | instance | what it shows |
|---|---|---|
| `multi_safety` (`MCPexecMulti`) | 2 processes, 2 `stop`s, 2 `run`s, `user_stop` on either, a signal pipe of one | each handle ends once, whichever of its descriptors or its exit comes first; no reaped pid in `active_procs_`; no assert of `select_event` fails, because the four descriptor tables agree; the jobs are dispatched in the order of the calls (`JobQueue`), and none waits without a byte; a stop is answered; USER_STOPPED has its cause; `run` returns with none left, also a second `run` that finds jobs and bytes of the first; each handle implements `HandleLifecycle`; the inductive invariant of the proofs, by which no exit is lost and `remove` never blocks |
| `multi_live` (`MCPexecMulti`) | a process that exits, leaves the group or is not created at all, and a daemon; all stop flags; rehash allowed | exits are noticed, a queued job is taken unless `run` itself ends before its turn, every stop returns that can: STOP_KILL and STOP_USER always, STOP_WAIT without the daemon, none with a child outside the group; a rehash by itself makes no table disagree, fails no assert and loses no exit: only the early return that it leads to does (`ConsistentUntilEarly`) |
| `single_exec` (`MCPexecSingle`) | 2 calls on one object (a command that cannot be executed, one that need not exit), both paused and continued, exit codes 0, 100 and 106, a killing signal, a foreign child, failures of each stage of `exec` and of the reset, `user_stop` | STOPPED is never both unreaped and untold; the status told is the child's; a child that has exited is told the FORK_* error of its code and no other (`ForkErrorsTold`); the exit of the child always has a signal on its way; between calls the disposition is the user's if and only if no fork and no reset has failed; exit and `user_stop` each end `exec`; each call implements `HandleLifecycle` |
| `sigchld` (`MCSigchldHandler`) | 3 objects that run twice each: a DEFAULT one, an EXTERNAL one and a DEFAULT one whose calls may fail, as those of the EXTERNAL one; 3 children a run, a signal pipe of one | the installed handler has a pipe (unless `overlaid`); a running loop watches that pipe, loses no exit and ends (unless `meddled`); nothing is left behind (unless `overlaid`, or a reset failed) |
| `queue` (`QueueBuffer`) | 2 threads that add and clear, 2 that remove, 2 jobs, one `clear`, one spurious wake-up | a job is in one place, with a caller, in the queue or with one `remove`; `notify_one` is enough; first in first out; the queue is drained |
| `select` (`SelectEvent`) | the loop's pipe and 3 more numbers, 2 additions, one cut pass | the inductive invariant, by which the iterator is of the map; each readable watch is called once in a pass; each is served |
| `args` (`ArgParser`) | all lines of up to 8 characters, all lists of up to 8 arguments and characters together | `str2arg` reads a line as a one-pass reader does; what survives `arg2str` and `str2arg` is exactly what has no empty argument, no quotes, and no backslash at the end of an argument but the last |

Where a module has an inductive invariant `IInv`, `TypeOK` is its first conjunct and is
checked with it, as are `DescriptorsMatch`, `ReadsSucceed`, `CopyIsFront` and `IteratorValid`, on which the
properties that the runs name rest.

Runs in which a statement of the repository is refuted. Each checks one property:

| run | statement | what the code does |
|---|---|---|
| `bad_rest` | the rest is read "until (errno == EAGAIN)" | it is read once |
| `bad_user` | `user_stop` can be called on the callback's `proc`, from other threads | a stale number stops another process |
| `bad_rehash` | `run` blocks until all have stopped | a second visit of the SIGCHLD pipe after a rehash ends it early |
| `bad_early` | STOPPED is "process exited" | any SIGCHLD ends a blocking `exec` with STOPPED |
| `bad_external` | "we can re-run new set of processes" with an external loop | the second `run` destroys its own SIGCHLD pipe with the old handler; its batch never ends |

`findings` in `PROJECT.json` quotes each statement with its line. More
disagreements are in the model but have no run of their own:

* `interrupt` ignores a failed write: at 64 KiB of waiting bytes a job loses its byte
  (`Put`), and one job stays in the buffer while the loop sleeps. With `CtlCap = 1` `JobsTaken` fails.
  `EveryJobHasByte` (section 4) says how much room is enough: a byte for each call of `exec` and `stop`.
* A process let go by STOP_USER or `user_stop` is reaped by the loop's `waitpid(0)` while another is
  watched (`ReapOther`), although "any ::waitpid calls must be performed by user" (`pexec_multi.h:45`).
* A command that itself returns 100 is reported as FORK_EXEC_ERROR (`ErrorsOf`), which
  `pexec_single.h:367` calls "only when file in args_c[0] not found". A child that was killed, on an object whose
  last command returned 100, is reported so as well: `ForkErrorsTold` says nothing of that child, nor of who exited with a code.
* A child that called `setsid` or `setpgid` is never found by `waitpid(0)`, and `run` waits for
  ever: `StopReturns` excepts it with `outside`.
* A failed `exec` of a handle leaves pid 0 and fails `assert(pid > 0)` (`pexec_multi.cpp:209`): `SpawnFails`, `pc = "abort"`.
* EAGAIN is to be skipped (`pexec_single.h:447`), but `read_std` ends a handle for it, which happens when a new process gets the numbers of
  one that ended in the same pass (`ReadStreamFails`).
* A failed `fork` leaves the SIGCHLD handler of a blocking `exec` installed, and so does a failed reset (`HandlerSet`, `Reset`); the
  calls that follow find it and put it back. `HandlerRestored` says that it is so in these cases and in no other.
* A `run` beside an EXTERNAL object that has run finds pexec's handler installed, saves it as the previous one, and puts it back at
  its end, with the pipe closed (`overlaid`).
* The destructor of an older handler object resets the handler and closes the pipe of the run in progress: in a second EXTERNAL `run`
  (`bad_external`), in a `run` after one whose handler could not be created, and in `~pexec_multi` called during the loop of another object (`meddled`).
* `handle_stop` removes the number that the global holds by then: after such a destructor a DEFAULT loop fails its assert (`HandleStop`, `pc = "abort"`),
  or `::select` fails for the closed number and `run` leaves its children behind (`SelectFails`).
* `arg2str` writes nothing for an empty argument, so that `str2arg` does not return it (`Representable`).

**Bounds.** Two processes are the fewest for which one can be last and another
not, and for which a number can be reused; two slots give each a block of its
own or a used one. The theorems of section 4 cover any number. One stream
stands for both in `PexecMulti`, whose callbacks are the same code; `PexecSingle` has both. One chunk per pipe tells
empty from not empty; `bad_rest` and `single_exec` have two. A signal pipe of
one makes the handler's write fail as soon as two signals come. The control pipe of four holds the
bytes of 2 `exec`s and 2 `stop`s, and no byte is lost: the null job that ends a stop takes the place
of the job that began it (`BufferBounded`). Two `run`s are
enough for state to be left over. `KillNums = {9}` stands for the signals that terminate.
The defaulted signal number -1, for which `cleanup` sends nothing, is part of
`Cleanup`; with it STOP_KILL does not stop a daemon, which is how `stop` is declared.
STOP_KILL and daemons are left out of `multi_safety`: a killed child exits, which a child
that is no daemon may do at any time. With `Rehash` two processes stand for four or more.

In `single_exec` two calls on one object are what a stale field needs; the codes are 0, a code of the
library's own that the command returns as well (100), and the last of these (106). In `sigchld` each
object runs twice, so that every object finds what another, or itself, has left; `MaxPipes = 6` is a pipe for each of the six runs,
so that one may be made while others are open, overwritten or lost. In `queue` two `remove`s
can sleep while two jobs come, so that one notification too few leaves one asleep beside a job. Three watches beside
the loop's own let a callback remove its own, one before and one behind. Eight
characters are enough for two quotes around a space, for a merge over three pieces, and for an empty argument between others; the theorems of section 4 cover any length.

**Symmetry** is used in `multi_safety` only, where processes and slots are
interchangeable: `UserStops` is all of `Procs`, and `MayFail`, `Daemons` and `Leavers` are empty.

**CHECK_DEADLOCK FALSE** appears where the system may really stop for good:
`single_exec` (a daemon that no one stops) and `args` (a user who writes no more).
Elsewhere the only states without another step are those of
`Terminated`, `Asleep` and `Ended`: `run` has returned or died, or waits for a job
or a child; every `remove` sleeps on an empty queue; `loop` has returned; in `SigchldHandler`, an assert has failed, or a loop has lost
its SIGCHLD pipe and waits for ever.

**Fairness.** `Interrupt`: a caller that has put its job writes its byte, no lock
in between. `Loop` (as one action): the thread in `run` or `exec` is scheduled when it can
move; no fairness among the callbacks is assumed, as each pass visits every set bit. `SignalHandler`: a
signal that some thread has unblocked is delivered. `ChildExit`: a child that is no daemon, or that
was killed, exits. In `SigchldHandler` the thread is one action too, with `Stop` fair by itself because a
pass visits the job pipe as well as the signals, and the user stops each batch, as `run` asks (`src/README.md:86`). In `QueueBuffer` each thread inside the queue runs, and a loop comes back to it;
in `SelectEvent` the loop runs and each callback returns.
Nothing obliges callers to call, users to stop, or children to write.

## 4. Proofs

`PexecMultiProofs` proves, for any sets of processes, slots and callers, any pipe
capacities and any bounds:

| theorem | statement |
|---|---|
| `TypeCorrect` | `[]TypeOK` |
| `OnStopOnce` | `[]OnStopExactlyOnce` |
| `PidsValid` | `[]ActivePidsValid` |
| `NeverBlocked` | `[]RemoveNeverBlocks` |
| `StopIsAnswered` | `[]StopAnswered` |
| `Descriptors` | `~Rehash`: `[]DescriptorsMatch` |
| `NoAssertFails` | `~Rehash`: `AssertsHold` |
| `NoneLost` | `~Rehash`: `[]NoLostChild` |
| `ConsistentUntil` | `ConsistentUntilEarly`: these three for any `Rehash`, until `run` returns with a process left |
| `RunLeavesNothing` | `~Rehash`: outside of `run` no process is STARTED, and no pipe and no watch is left |
| `ReturnsLast` | `~Rehash`: `ReturnsWhenAllStopped` |
| `EveryJobHasByte` | `IsFiniteSet(Procs)`: `[]JobsHaveBytes` |
| `UserStopCaused` | `~Rehash`: `UserStopHasCause` |
| `LifecycleImplemented` | `ImplementsLifecycle` |
| `QueueImplemented` | `ImplementsQueue` |
| `StoppedIsReaped`, `HandleOnward` | what `HandleLifecycle` promises, for the handles of `pexec_multi` |

The only assumptions are `PexecMultiAssumption`, on the constants, which TLC
evaluates in every run, and `~Rehash` and `IsFiniteSet(Procs)` where they are named. The processes are
counted in `JobsHaveBytes`, so there have to be finitely many. `ReturnsLast` is false with a rehash
(`bad_rehash`), and so is what rests on it: a STOP_USER may then no longer be in progress when its byte is read
(`UserStopCaused`), and a process that such a `run` has left behind is in no table of the next one. `ConsistentUntil` says
that this is the whole of the damage.

The inductive invariant `IInv` (in `PexecMulti`, checked by `multi_safety`) adds
to the properties what they rest on:

* `open = active_procs`: `ReadStreamFails` and `ReadClose` are guarded by the pipes, `ReapActive` by the
  table, so "ended once" needs the two to agree.
* `JobsWaiting`, `HandlesExecd`: a handle is spawned at most once, because its job is in the
  buffer at most once and only while its state is NONE. Without them a second
  spawn of an ended handle is not excluded.
* `Childless`: a handle that was not reported has no child, so that its spawn is a `Start`.
* `WakeTells`: the wake-up pipe is visited only after `handle_stop`, and from then on neither the SIGCHLD pipe nor
  a job is; outside of `run` nothing is watched. This holds with a rehash as well, for the loop's own pipes go only with `handle_stop`.
* `StopsInOrder`: `handle_stop` is reached by a job with no process left, as the SIGCHLD pipe is
  visited only with data in it. A rehash breaks exactly this, hence `~Rehash`.
* `LoopWatched`: the loop's three descriptors are in the map until `handle_stop`, so that its two removals find theirs.
* `BufferBounded`: the jobs in the buffer, and the null job that a stop in progress may still queue, are no more
  than the calls of `exec` and `stop` so far. So the pipe is never full when a byte is written, and
  `JobsHaveBytes`, an equality, is kept by every step.
* `NumbersKept`, and `StopAsked` for every handle with a byte in its close-watch pipe: such a byte is of a STOP_USER that is in progress, or
  of a `user_stop` with the number. A second `stop` cannot change the flag before the first is over, because its job is dropped.

Each conjunct has a lemma (`TypeStep`, `RemoveStep`, `AnswerStep`, `HandleStep`,
`PidStep`, `WakeStep`, `OrderStep`, `DescriptorStep`, `LostStep`, `ChildlessStep`, `BoundStep`, `BytesStep`,
`NumbersStep`, `CauseStep`, `WatchedStep`) with a step for each action
or group of actions; `CallsBounded` counts the calls, `WatchSteps` and `StopWrites` say which steps write to a
close-watch pipe and why, `SpawnedIsNew` that a handle that is spawned has no numbers and no data waiting,
`SpawnAddsNew` and `EndRemovesOwn` that it adds new numbers to the map and takes its own away, `MapSteps` and `StopMap` which other steps touch the map; `FinishEffect`, `AddJobEffect` and `OtherSteps` say once
what a step does to the jobs, `PassSteps` what a pass has before it. `ConsistentStep` and `AssertStep` have no hypothesis on `Rehash`:
they need `WakeTells`, and exclude the early return. `NextIInv` combines them.

`PexecSingleProofs` proves, for any calls, objects and other children, any exit codes, signals and pipe capacities:

| theorem | statement |
|---|---|
| `SingleTypeCorrect` | `[]TypeOK` |
| `NoReadFails` | `[]ReadsSucceed` |
| `AlwaysTold` | `[]StoppedOrTold` |
| `StatusTold` | `[]StatusTrue` |
| `ForkErrorsExact` | `[]ForkErrorsTold` |
| `UserHandlerBack` | `[]HandlerRestored` |
| `ExitNotLost` | `[]ExitPending` |
| `CallLifecycle` | `ImplementsLifecycle` |
| `CallOnward` | what `HandleLifecycle` promises, for the calls of `exec` |

from `PexecSingleAssumption` and the inductive invariant `IInv` of `PexecSingle`
(checked by `single_exec`):

* `TypeOK` and `ReadsSucceed` need each other: a count of unread data stays a natural number
  only because the callback of a pipe runs when there is something in it (`CoreStep`).
* `LeavesTold`: between the end of the loop and the report of the state the call has its
  answer. `CodesOwn`: a return code left in an object is that of a child some call on it reaped; `EndsKnown`: a
  child whose command could not be executed is recognised by its code.
* `ReapedLast`, `Tracked`: the child of the call in progress is reaped as the loop ends, and not before.
* `HandledInCall`: while a call runs, SIGCHLD is handled by the library, or the exit of the child would leave no signal
  (`ExitPending`, by `PendingStep`). The pipe is made before the fork and not emptied by the loop's start; a full pipe that drops a
  signal has one to be read.
* `UserHandlerKept`: the disposition between calls, and while a call runs the one to put back, is the user's exactly as long as
  no call was told of a failed fork or reset (`HandlerLeft`; `LeftKept`: an error that was told stays told).

`Decoding` carries the theorems about `WaitStatus` (`ExitDecoded`, `KillDecoded`, `PausedRuns`: every exit
code and every signal, with and without a core dump, is decoded to itself) to the words that the children end with.
`OneKind` is about all 65536 words: each is taken for exactly one of exited, signalled and running.

`SigchldHandlerProofs` proves `PipeForHandler`, `LoopArmed`, `DispositionBack` and
`ExitsFound` (the safety properties of `sigchld`) for any objects of either mode, any of which may fail, and any number of
runs, children and pipes, from `SigchldHandlerAssumption` alone. The invariant says what the globals hold in whatever state a `run` found them:

* `Places`: what the thread is doing at each `pc`, and that nothing is constructed while a loop runs.
* `PipesKnown`: every open pipe but the one of the globals was overwritten, so none is left out of `lost`.
* `HandlerSet`: the order of the calls. Between constructions and resets pexec's handler is installed with its flag and its pipe, and the user's with neither,
  unless the last `run` found pexec's (`overlaid`).
* `HandlerOwned`: an installed handler belongs to an object, or an object was told that its reset failed.
* `RunArmed`: until a reset comes behind it (`meddled`), a run in progress has its own handler installed and watches its own pipe, and an exit
  that was not found has its signal pending or in that pipe.

`QueueBufferProofs` proves `CopyPopped`, `JobsUnique`, `WakeupsKept` and `FifoImplemented` for any
number of threads, jobs, clears and spurious wake-ups. `JobInOnePlace` is inductive with `CopyIsFront`: what leaves the front is
what was copied, so no job is dropped with the copy of another in hand (`PlaceKept`, `PlaceStep`). `MutualExclusion` is what the copy and the pop rest on; `NoLostWakeup` is
inductive with it: a job is left only by a thread that is about to notify, and a thread that takes the
notification goes on to look.

`SelectEventProofs` proves `IteratorKept` and `PassImplemented` for any numbers. `FlagTells`: during a callback the
iterator is at its watch unless that watch is gone and the flag is up, and the flag is down between callbacks.

`HandleLifecycle` has theorems of its own: `EndReportedOnce` (`EndsOnce`), `StoppedMeansTold` (`StoppedIsTold`) and
`OnlyOnward` (`NeverBack`), from a small inductive invariant of the abstract states. A refinement carries
them over: `StoppedIsReaped`, `HandleOnward` and `CallOnward` follow from the instantiated theorem and from
`LifecycleImplemented` or `CallLifecycle`, with no look at the steps of the engine.

The five refinements (`ImplementsLifecycle` of both engines, `ImplementsQueue`, `ImplementsFifo`, `ImplementsPass`) map each action to one abstract action or to a stutter (`FrontStutters`,
`PassOverStutters`); the lemmas `SpawnIsFresh`, `FinishRefines`, `AddIsBehind`, `ExecRefines`, `SignalRefines`, `PopTakes`, `NothingReturns`
and so on do one each. In `PexecMulti` a job is taken when its byte is read, and returned when it is dispatched:
`RemoveNeverBlocks` is what makes it the head of a queue that is not empty.

`ArgParserProofs` is about lines and arguments of any length:

| theorem | statement |
|---|---|
| `LineRead` | `str2arg` and the one-pass reader return the same non-empty arguments for every line |
| `ReadBack` | `str2arg(arg2str(a)) = a` if and only if `Representable(a)`, for all lists `a`, with empty arguments too |
| `ReaderTypeCorrect`, `OnePassAlways`, `RoundTripAlways` | `[]TypeOK`, `[]ParsesInOnePass`, `[]RoundTrip` |

The functions are folds, and what a fold computes takes an induction over the sequence. The induction theorems
of the library have an operator as parameter, which the backend provers do not instantiate, so `FoldLeftTheorems` has an
induction over *sets*: `NatSetInduction` takes the smallest interval `0..k` with `k` outside of the set, by the
well-foundedness of the strict subsets of finite sets, and `SeqSetInduction` applies it to lengths. The folded
operator is a constant of the module, so that an `INSTANCE` gives the theorems for each of the seven folds. `FoldLeft`
chooses a function on sets of indices; `FoldExists` constructs it, `FoldUnique` shows that two of them
agree on a common start of their sequences, and `FoldOfEmpty` and `FoldOfAppend` are what the other proofs use.

* `LineRead` follows a line as it grows by a character (`QuoteStep`, `SpaceStep`, `LetterStep`). `Before` is
  what `str2arg` has at the last quote, `Whole` the pieces that no further character changes, `Current` the piece under way.
  The reader is `quoted` as `Before` is, `open` if `Current` is not empty, and its arguments are the pieces so far, merged
  (`ReadsAlike`). For a piece that goes on, a merge must grow at the same place as its piece: `MergeGrows`.
* `ReadBack`: no argument that is read is empty (`LineRead`), so a list with an empty one does not come back. Of the others (`WordsBack`), one way: the reader merges each argument as `arg2str` wrote it (`WordRead`, `QuotedRead`, `ArgsRead`), and without a
  backslash at an end nothing is merged (`MergedUnbroken`). The other way: no argument that is read has a quote (`ReadQuoteFree`), and where one
  is merged there are fewer of them.

*Only model-checked*: the liveness properties (`ExitNoticed`, `StopReturns`,
`JobsTaken`, `ExitEnds`, `StopEnds`, `BatchEnds`, `Drained`, `Served`), for TLAPS here has no rules for
fairness. Every invariant, action property and refinement that a passing run checks is a theorem.

## 5. Not modelled

* Standard input of a child, including `stdin_fd` closed by the user: the library
  writes nothing to it.
* A second `exec` of a `pexec_multi` job: each handle is made by one call.
* A rehash in `SelectEvent`: it is in `PexecMulti`, where `Rehash` weakens the pass.
* A `::select` that fails inside `PexecMulti` and `PexecSingle`: it does so for a closed
  descriptor in the map, which `DescriptorsMatch` excludes; `SelectFails` is in `SelectEvent`.
* The error branches of reads in a blocking `exec`: `ReadsSucceed` shows that
  no descriptor the pass comes to is empty, so they are not taken.
* In `SigchldHandler`, the children that a `run` left behind when its `::select` failed: their signals are `OtherSignal`s, and
  `BatchEnds` excepts the later runs of their object (`left`), which would wait for them too.
* The signal handler as more than one step: on another thread it may be about to write when the pipe is closed.
* `FD_SETSIZE`: descriptor numbers are abstract.
* The text of output and errors.
* Inheritance of the parent's pipes by siblings, which delays end-of-file only; the
  library does not wait for end-of-file.
* `queue_buffer::state`, which changes nothing, and printing.

## 6. Where the project could go

The modules that were planned (`HandleLifecycle`, `SigchldHandler`, `QueueBuffer`,
`SelectEvent`, `WaitStatus`, `ArgParser`, and calls on one `pexec<>` object) are all here. Left:

1. Standard input: who owns `stdin_fd`, and the descriptor that `close_fork_pipes` closes twice.
2. `PexecMulti` shown to implement `SelectPass`, beside the correspondence of section 2. Its callbacks are single
   steps, where `SelectPass` has a call, what the callback does to the map, and a return.
3. The signal handler on another thread, cut between reading the global and the write.
