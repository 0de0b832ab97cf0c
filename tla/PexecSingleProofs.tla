-------------------------- MODULE PexecSingleProofs --------------------------
(***************************************************************************)
(* The safety properties of PexecSingle hold for any calls, any other      *)
(* children, and any pipe capacities.  IInv, in PexecSingle, is kept in    *)
(* parts: CoreStep (types, and what a pass finds), ReportsStep (what the   *)
(* calls report, a lemma for each step that adds to it), DispositionStep   *)
(* (who handles SIGCHLD), PendingStep (an exit is announced).  Before them *)
(* is what update_status makes of a status word, after them the refinement.*)
(***************************************************************************)
EXTENDS PexecSingle, TLAPS

-----------------------------------------------------------------------------
(* What update_status makes of every status word that ::waitpid can give.  *)

\* The macros on the four kinds of words.
LEMMA Macros ==
    /\ \A n \in Codes8 : /\ WTERMSIG(ExitWord(n)) = 0 /\ WEXITSTATUS(ExitWord(n)) = n
    /\ \A sig \in Signals, core \in BOOLEAN : WTERMSIG(KillWord(sig, core)) = sig
    /\ \A sig \in Signals : WTERMSIG(StopWord(sig)) = 127
    /\ WTERMSIG(ContinuedWord) = 127
  <1>1. \A n \in Codes8 : WTERMSIG(ExitWord(n)) = 0 /\ WEXITSTATUS(ExitWord(n)) = n
    BY DEF Codes8, ExitWord, WTERMSIG, WEXITSTATUS
  <1>2. \A sig \in Signals, core \in BOOLEAN : WTERMSIG(KillWord(sig, core)) = sig
    BY DEF Signals, KillWord, WTERMSIG
  <1>3. \A sig \in Signals : WTERMSIG(StopWord(sig)) = 127
    BY DEF Signals, StopWord, WTERMSIG
  <1>4. WTERMSIG(ContinuedWord) = 127
    BY DEF ContinuedWord, WTERMSIG
  <1> QED BY <1>1, <1>2, <1>3, <1>4

\* The words are numbers of 16 bits, and hold an exit code or a signal.
LEMMA WordFacts ==
    /\ 0 \in Words
    /\ \A word \in Words : word \in Nat /\ word \div 256 \in Nat
    /\ \A n \in Codes8 : ExitWord(n) \in Words
    /\ \A sig \in Signals, core \in BOOLEAN : KillWord(sig, core) \in Words
  <1>1. MaxWord \in Nat /\ 65280 <= MaxWord
    BY DEF MaxWord
  <1>2. 0 \in Words /\ \A word \in Words : word \in Nat /\ word \div 256 \in Nat
    BY <1>1 DEF Words
  <1>3. ASSUME NEW n \in Codes8 PROVE n * 256 \in Words
    <2>1. n \in Int /\ 0 <= n /\ n <= 255
      BY DEF Codes8
    <2>2. n * 256 \in Int /\ 0 <= n * 256 /\ n * 256 <= 65280
      BY <2>1
    <2> QED BY <1>1, <2>2 DEF Words
  <1>4. \A sig \in Signals, core \in BOOLEAN : KillWord(sig, core) \in Words
    BY <1>1 DEF Signals, KillWord, Words
  <1> QED BY <1>2, <1>3, <1>4 DEF ExitWord

\* A child that exited, with any code, is reported exited with this code.
THEOREM ExitDecoded ==
    ASSUME NEW was, NEW n \in Codes8
    PROVE  UpdateStatus(was, ExitWord(n)) =
               [exited |-> TRUE, return_code |-> n, signaled |-> FALSE,
                signaled_signal |-> was.signaled_signal, running |-> FALSE]
  <1>1. WTERMSIG(ExitWord(n)) = 0 /\ WEXITSTATUS(ExitWord(n)) = n
    BY Macros
  <1>2. WIFEXITED(ExitWord(n)) = TRUE /\ WIFSIGNALED(ExitWord(n)) = FALSE
    BY <1>1 DEF WIFEXITED, WIFSIGNALED, SignedChar
  <1> QED BY <1>1, <1>2 DEF UpdateStatus

\* A child killed by any signal is reported killed by it, core dump or not; the
\* return code is left as an earlier child's status set it.
THEOREM KillDecoded ==
    ASSUME NEW was, NEW sig \in Signals, NEW core \in BOOLEAN
    PROVE  UpdateStatus(was, KillWord(sig, core)) =
               [exited |-> FALSE, return_code |-> was.return_code, signaled |-> TRUE,
                signaled_signal |-> sig, running |-> FALSE]
  <1>1. sig \in 1..64 /\ WTERMSIG(KillWord(sig, core)) = sig
    BY Macros DEF Signals
  <1>2. WIFEXITED(KillWord(sig, core)) = FALSE /\ WIFSIGNALED(KillWord(sig, core)) = TRUE
    BY <1>1 DEF WIFEXITED, WIFSIGNALED, SignedChar
  <1> QED BY <1>1, <1>2 DEF UpdateStatus

\* A child that was stopped or continued is running: its watch goes on.
THEOREM PausedRuns ==
    ASSUME NEW was, NEW word \in {StopWord(sig) : sig \in Signals} \cup {ContinuedWord}
    PROVE  UpdateStatus(was, word).running
  <1>1. WTERMSIG(word) = 127
    BY Macros
  <1>2. ~WIFEXITED(word) /\ ~WIFSIGNALED(word)
    BY <1>1 DEF WIFEXITED, WIFSIGNALED, SignedChar
  <1> QED BY <1>2 DEF UpdateStatus

\* A child exited, or was killed, or is running, whatever the word: update_status
\* never sets two of the fields, and never none.
THEOREM OneKind ==
    ASSUME NEW was, NEW word \in Words
    PROVE  LET new == UpdateStatus(was, word)
           IN  /\ new.exited \/ new.signaled \/ new.running
               /\ ~(new.exited /\ new.signaled) /\ ~(new.exited /\ new.running)
               /\ ~(new.signaled /\ new.running)
  <1>1. WTERMSIG(word) \in 0..127
    BY WordFacts DEF WTERMSIG
  <1>2. ~(WIFEXITED(word) /\ WIFSIGNALED(word))
    BY <1>1 DEF WIFEXITED, WIFSIGNALED, SignedChar
  <1> QED BY <1>2 DEF UpdateStatus

\* Whatever the status, the fields keep their types.
LEMMA UpdateType ==
    ASSUME NEW was \in ProcStatus, NEW word \in Words
    PROVE  UpdateStatus(was, word) \in ProcStatus
  <1> DEFINE high == word \div 256
  <1>1. word \in Nat /\ high \in Nat
    BY WordFacts
  <1>2. WTERMSIG(word) \in 0..127
    BY <1>1 DEF WTERMSIG
  <1>3. high % 256 \in 0..255
    <2> HIDE DEF high
    <2> QED BY <1>1
  <1>4. WEXITSTATUS(word) \in Codes8
    BY <1>3 DEF WEXITSTATUS, Codes8
  <1>5. WIFEXITED(word) \in BOOLEAN /\ WIFSIGNALED(word) \in BOOLEAN
    BY DEF WIFEXITED, WIFSIGNALED
  <1> QED BY <1>2, <1>4, <1>5 DEF UpdateStatus, ProcStatus

-----------------------------------------------------------------------------
(* Types, and what a pass of the loop finds.                               *)

USE DEF vars, loopVars, procVars, callVars, childVars, pipeVars, sigVars, dispVars

Core == TypeOK /\ (pc # "pass" => todo = {}) /\ ReadsSucceed

\* No other name of the loop is that of an output stream.
LEMMA StreamNames == "close" \notin Streams /\ "sig" \notin Streams /\ "wake" \notin Streams
  BY PexecSingleAssumption

\* Every error that exec() reports is one of the known ones.
LEMMA ErrorNames ==
    /\ \A stage \in Stages : StageError(stage) \in Errors
    /\ \A n : ErrorsOf(n) \subseteq Errors
    /\ \A c : NotExited(c) = {"WAITPID_ERROR"} /\ NotExited(c) \subseteq Errors
  <1>1. \A n \in 100..106 : n - 99 \in 1..7
    OBVIOUS
  <1> QED BY <1>1 DEF ErrorsOf, NotExited, Errors

\* Every object has a proc_status, and every way to end is a status word.
LEMMA ProcFacts ==
    /\ \A c \in Calls : ObjectOf[c] \in Objects
    /\ NoStatus \in ProcStatus /\ 0 \in Words
    /\ \A c \in Children : Endings(c) \subseteq Words
  <1>1. \A n \in BrokenCodes : n \in Codes8
    BY PexecSingleAssumption DEF Codes8
  <1>2. NoStatus \in ProcStatus /\ 0 \in Words
    BY WordFacts DEF NoStatus, ProcStatus, Codes8
  <1>3. ASSUME NEW c \in Children PROVE Endings(c) \subseteq Words
    <2>1. Codes \subseteq Codes8 /\ KillSignals \subseteq Signals
      BY PexecSingleAssumption
    <2>2. Killed \subseteq Words
      BY <2>1, WordFacts DEF Killed
    <2>3. {ExitWord(n) : n \in BrokenCodes} \subseteq Words
      BY <1>1, WordFacts
    <2>4. {ExitWord(n) : n \in Codes} \subseteq Words
      BY <2>1, WordFacts
    <2>5. ExitWord(0) \in Words
      <3>1. 0 \in Codes8
        BY DEF Codes8
      <3> QED BY <3>1, WordFacts
    <2> QED BY <2>2, <2>3, <2>4, <2>5 DEF Endings
  <1>4. \A c \in Calls : ObjectOf[c] \in Objects
    BY DEF Objects
  <1> QED BY <1>2, <1>3, <1>4

\* The program starts outside of exec(), with nothing to read.
LEMMA CoreInit == Init => Core
  <1> SUFFICES ASSUME Init PROVE Core
    OBVIOUS
  <1>1. unread \in [Calls -> [Streams -> 0..MaxChunks]]
    BY PexecSingleAssumption DEF Init
  <1>2. /\ child \in [Children -> {"none", "running", "zombie", "reaped"}]
        /\ status \in [Children -> Words]
        /\ proc \in [Objects -> ProcStatus] /\ result \in [Calls -> ProcStatus]
        /\ state \in [Calls -> {"NONE", "STARTED"} \cup Final]
    BY ProcFacts DEF Init
  <1>3. errors \in [Calls -> SUBSET Errors]
    BY DEF Init
  <1>4. sig_pipe \in 0..SigCap
    BY PexecSingleAssumption DEF Init
  <1> QED BY <1>1, <1>2, <1>3, <1>4 DEF Init, Core, TypeOK, ReadsSucceed

\* Every step keeps the types, and never takes from a descriptor of the pass what
\* ::select saw in it but by the callback of that descriptor.
LEMMA CoreStep == Core /\ [Next]_vars => Core'
  <1> SUFFICES ASSUME Core, [Next]_vars PROVE Core'
    OBVIOUS
  <1> USE PexecSingleAssumption, StreamNames DEF Core, TypeOK, ReadsSucceed
  <1>1. ASSUME NEW c \in Calls, Exec(c) PROVE Core'
    <2>1. proc' = [proc EXCEPT ![ObjectOf[c]].running = TRUE]
          /\ result' = [result EXCEPT ![c] = proc'[ObjectOf[c]]]
      BY <1>1 DEF Exec
    <2>2. proc' \in [Objects -> ProcStatus]
      <3> DEFINE o == ObjectOf[c]
      <3>1. o \in Objects /\ proc[o] \in ProcStatus
        BY ProcFacts
      <3>2. [proc[o] EXCEPT !.running = TRUE] \in ProcStatus
        BY <3>1 DEF ProcStatus
      <3>3. proc' = [proc EXCEPT ![o] = [proc[o] EXCEPT !.running = TRUE]]
        BY <2>1, <3>1
      <3> HIDE DEF o
      <3> QED BY <3>1, <3>2, <3>3
    <2>3. result' \in [Calls -> ProcStatus]
      BY <2>1, <2>2, ProcFacts
    <2> QED BY <1>1, <2>2, <2>3 DEF Exec, Children
  <1>2. ASSUME NEW c \in Calls, NEW stage \in Stages, ExecFails(c, stage) PROVE Core'
    <2>1. errors' \in [Calls -> SUBSET Errors] /\ result' \in [Calls -> ProcStatus]
      BY <1>2, ErrorNames, ProcFacts DEF ExecFails
    <2>2. state' \in [Calls -> {"NONE", "STARTED"} \cup Final] /\ todo' = {}
      BY <1>2 DEF ExecFails, Final
    <2> QED BY <1>2, <2>1, <2>2 DEF ExecFails
  <1>3. ASSUME LoopIo PROVE Core'
    BY <1>3 DEF LoopIo, PipeOfExec
  <1>4. ASSUME Select PROVE Core'
    BY <1>4 DEF Select, Readable
  <1>5. ASSUME NEW k \in Streams, ReadStream(k) PROVE Core'
    <2>1. PICK c \in cur : unread' = [unread EXCEPT ![c][k] = @ - 1]
      BY <1>5 DEF ReadStream
    <2>2. cur = {c} /\ c \in Calls
      BY <2>1
    <2>3. unread[c][k] > 0
      BY <1>5, <2>2 DEF ReadStream, Readable
    <2>4. unread[c][k] - 1 \in 0..MaxChunks
      BY <2>2, <2>3
    <2>5. unread' \in [Calls -> [Streams -> 0..MaxChunks]]
      BY <2>1, <2>2, <2>4
    <2>6. \A f \in todo' : Readable(f)'
      <3> SUFFICES ASSUME NEW f \in todo' PROVE Readable(f)'
        OBVIOUS
      <3>1. f \in todo /\ f # k /\ Readable(f)
        BY <1>5 DEF ReadStream, Resume
      <3>2. CASE f \in Streams
        <4>1. unread'[c][f] = unread[c][f]
          BY <2>1, <2>2, <3>1, <3>2
        <4> QED BY <1>5, <2>2, <3>1, <3>2, <4>1 DEF ReadStream, Readable
      <3>3. CASE f \notin Streams
        BY <1>5, <3>1, <3>3 DEF ReadStream, Readable
      <3> QED BY <3>2, <3>3
    <2> QED BY <1>5, <2>5, <2>6 DEF ReadStream, Resume
  <1>6. ASSUME ReadClose PROVE Core'
    BY <1>6 DEF ReadClose, Resume, Readable, LoopInterrupted
  <1>7. ASSUME ReadWake PROVE Core'
    BY <1>7 DEF ReadWake, StopLoop
  <1>8. ASSUME ReadSignal PROVE Core'
    <2>1. sig_pipe' \in 0..SigCap
      BY <1>8 DEF ReadSignal, Readable
    <2>2. PICK c \in cur :
              /\ HandleSigchld(c)
              /\ IF Updated(c).running THEN Resume(todo \ {"sig"}) ELSE StopLoop
      BY <1>8 DEF ReadSignal
    <2>3. errors' \in [Calls -> SUBSET Errors]
      BY <2>2, ErrorNames DEF HandleSigchld
    <2>4. child' \in [Children -> {"none", "running", "zombie", "reaped"}]
      BY <2>2 DEF HandleSigchld
    <2>5. proc' \in [Objects -> ProcStatus] /\ result' \in [Calls -> ProcStatus]
      <3>1. WaitedFor(c) \in Words /\ proc[ObjectOf[c]] \in ProcStatus
        BY ProcFacts DEF WaitedFor, Children
      <3>2. Updated(c) \in ProcStatus
        BY <3>1, UpdateType DEF Updated
      <3> QED BY <2>2, <3>2 DEF HandleSigchld
    <2>6. /\ todo' = {} \/ todo' = todo \ {"sig"}
          /\ pc' # "pass" => todo' = {}
          /\ pc' \in {"select", "pass", "leave"}
      BY <2>2 DEF Resume, StopLoop
    <2>7. \A f \in todo' : Readable(f)'
      BY <1>8, <2>6 DEF ReadSignal, Readable
    <2> QED BY <1>8, <2>1, <2>3, <2>4, <2>5, <2>6, <2>7 DEF ReadSignal
  <1>9. ASSUME Return PROVE Core'
    <2>1. PICK c \in cur :
              /\ Reset(c)
              /\ unread' = IF user_stopped THEN unread
                           ELSE [unread EXCEPT ![c] = ReadRest(c)]
              /\ state' = [state EXCEPT ![c] = IF user_stopped THEN "USER_STOPPED"
                                               ELSE "STOPPED"]
      BY <1>9 DEF Return
    <2>2. ReadRest(c) \in [Streams -> 0..MaxChunks]
      BY DEF ReadRest
    <2>3. unread' \in [Calls -> [Streams -> 0..MaxChunks]]
      BY <2>1, <2>2
    <2>4. state' \in [Calls -> {"NONE", "STARTED"} \cup Final] /\ result' \in [Calls -> ProcStatus]
      BY <1>9, <2>1, ProcFacts DEF Final, Return
    <2>5. errors' \in [Calls -> SUBSET Errors]
      BY <2>1 DEF Reset, Errors
    <2>6. handler' \in {"user", "pexec"}
      BY <2>1 DEF Reset
    <2> QED BY <1>9, <2>3, <2>4, <2>5, <2>6 DEF Return
  <1>10. ASSUME NEW c \in Calls, UserStop(c) PROVE Core'
    BY <1>10 DEF UserStop, Readable
  <1>11. ASSUME NEW c \in Calls, NEW k \in Streams, ChildWrite(c, k) PROVE Core'
    <2>1. unread' = [unread EXCEPT ![c][k] = @ + 1] /\ unread[c][k] < MaxChunks
      BY <1>11 DEF ChildWrite
    <2>2. unread[c][k] \in 0..MaxChunks /\ unread[c][k] + 1 \in 0..MaxChunks
      BY <2>1
    <2>3. unread' \in [Calls -> [Streams -> 0..MaxChunks]]
      BY <2>1, <2>2
    <2>4. \A d \in Calls, j \in Streams : unread[d][j] > 0 => unread'[d][j] > 0
      BY <2>1, <2>2
    <2>5. \A f \in todo : Readable(f)'
      BY <1>11, <2>4 DEF ChildWrite, kernelUnchanged, Readable
    <2> QED BY <1>11, <2>3, <2>5 DEF ChildWrite, kernelUnchanged
  <1>12. ASSUME NEW c \in Children, ChildExit(c) PROVE Core'
    <2>1. status' \in [Children -> Words]
      BY <1>12, ProcFacts DEF ChildExit
    <2> QED BY <1>12, <2>1 DEF ChildExit, kernelUnchanged, SignalRaised, Readable
  <1>13. ASSUME NEW c \in Children, ChildPauses(c) PROVE Core'
    BY <1>13 DEF ChildPauses, kernelUnchanged, SignalRaised, Readable
  <1>14. ASSUME SignalHandler PROVE Core'
    <2>1. sig_pipe' \in 0..SigCap /\ (sig_pipe > 0 => sig_pipe' > 0)
      BY <1>14 DEF SignalHandler, Put
    <2> QED BY <1>14, <2>1 DEF SignalHandler, kernelUnchanged, Readable
  <1>15. ASSUME Terminated \/ UNCHANGED vars PROVE Core'
    BY <1>15 DEF Terminated, Readable
  <1> QED BY <1>1, <1>2, <1>3, <1>4, <1>5, <1>6, <1>7, <1>8, <1>9, <1>10, <1>11, <1>12,
             <1>13, <1>14, <1>15 DEF Next, Caller, Loop, Kernel

-----------------------------------------------------------------------------
(* What a call reports.                                                    *)

Reports == /\ Tracked /\ EndsKnown /\ ReapedLast
           /\ LeavesTold /\ StoppedOrTold /\ CodesOwn /\ StatusTrue /\ ForkErrorsTold

\* A status of 0, an exit and a kill each end the process in update_status; a code
\* that is not 0 is that of an exit, or the one the object had.
LEMMA Decoding ==
    ASSUME Core, EndsKnown, NEW c \in Calls
    PROVE  /\ ~Updated(c).running
           /\ child[c] = "zombie" =>
                  /\ Tells(Updated(c), status[c])
                  /\ \/ status[c] = ExitWord(Updated(c).return_code)
                     \/ /\ ~WIFEXITED(status[c])
                        /\ Updated(c).return_code = proc[ObjectOf[c]].return_code
           /\ child[c] = "zombie" /\ c \in Broken => Updated(c).return_code \in 100..106
           /\ child[c] # "zombie" => Updated(c).return_code = 0
  <1> DEFINE r == proc[ObjectOf[c]]
  <1>1. ASSUME NEW n \in Codes8, WaitedFor(c) = ExitWord(n)
        PROVE  /\ ~Updated(c).running /\ Updated(c).return_code = n
               /\ Tells(Updated(c), ExitWord(n))
    <2>1. Updated(c) = [exited |-> TRUE, return_code |-> n, signaled |-> FALSE,
                        signaled_signal |-> r.signaled_signal, running |-> FALSE]
      BY <1>1, ExitDecoded DEF Updated
    <2>2. \A m \in Codes8 : ExitWord(n) = ExitWord(m) => m = n
      BY DEF ExitWord, Codes8
    <2>3. \A sig \in Signals : ExitWord(n) # KillWord(sig, FALSE)
      BY DEF ExitWord, KillWord, Codes8, Signals
    <2>4. ~Updated(c).running /\ Updated(c).return_code = n /\ Updated(c).exited
      BY <2>1
    <2> QED BY <2>2, <2>3, <2>4 DEF Tells
  <1>2. ASSUME NEW sig \in Signals, WaitedFor(c) = KillWord(sig, FALSE)
        PROVE  /\ ~Updated(c).running /\ Updated(c).return_code = r.return_code
               /\ Tells(Updated(c), KillWord(sig, FALSE))
               /\ ~WIFEXITED(KillWord(sig, FALSE))
    <2>1. Updated(c) = [exited |-> FALSE, return_code |-> r.return_code, signaled |-> TRUE,
                        signaled_signal |-> sig, running |-> FALSE]
      BY <1>2, KillDecoded DEF Updated
    <2>2. \A s \in Signals : KillWord(sig, FALSE) = KillWord(s, FALSE) => s = sig
      BY DEF KillWord, Signals
    <2>3. \A m \in Codes8 : ExitWord(m) # KillWord(sig, FALSE)
      BY DEF ExitWord, KillWord, Codes8, Signals
    <2>4. ~WIFEXITED(KillWord(sig, FALSE))
      BY DEF WIFEXITED, WTERMSIG, KillWord, Signals
    <2>5. /\ ~Updated(c).running /\ Updated(c).return_code = r.return_code
          /\ ~Updated(c).exited /\ Updated(c).signaled_signal = sig
      BY <2>1
    <2> QED BY <2>2, <2>3, <2>4, <2>5 DEF Tells
  <1>3. CASE child[c] # "zombie"
    <2>1. WaitedFor(c) = ExitWord(0) /\ 0 \in Codes8
      BY <1>3 DEF WaitedFor, ExitWord, Codes8
    <2> QED BY <1>1, <1>3, <2>1
  <1>4. CASE child[c] = "zombie"
    <2>1. WaitedFor(c) = status[c] /\ status[c] \in Endings(c)
      BY <1>4 DEF WaitedFor, EndsKnown, Children
    <2>2. \A n \in BrokenCodes : n \in 100..106 /\ n \in Codes8
      BY PexecSingleAssumption DEF Codes8
    <2>3. CASE c \in Broken
      <3>1. PICK n \in BrokenCodes : status[c] = ExitWord(n)
        BY <2>1, <2>3, PexecSingleAssumption DEF Endings
      <3> QED BY <1>1, <1>4, <2>1, <2>2, <3>1
    <2>4. CASE c \notin Broken
      <3>1. c \notin Others
        BY PexecSingleAssumption
      <3>2. \/ \E n \in Codes8 : status[c] = ExitWord(n)
            \/ \E sig \in Signals : status[c] = KillWord(sig, FALSE)
        BY <2>1, <2>4, <3>1, PexecSingleAssumption DEF Endings, Killed
      <3> QED BY <1>1, <1>2, <1>4, <2>1, <2>4, <3>2
    <2> QED BY <2>3, <2>4
  <1> QED BY <1>3, <1>4

\* A code of the library's own stands for one error, each for another one, and none
\* for an error that has no code.
LEMMA ErrorsDistinct ==
    /\ ErrorsOf(0) = {}
    /\ \A n \in 100..106 : ErrorsOf(n) # {}
    /\ \A n : ErrorsOf(n) \cap {"FORK_ERROR", "SIGACTION_RESET_ERROR"} = {}
    /\ \A n \in 100..106, m \in Codes8 : ForkErrors[n - 99] \in ErrorsOf(m) <=> n = m
    /\ \A n \in 100..106, stage \in Stages : StageError(stage) # ForkErrors[n - 99]
    /\ \A n \in 100..106 : ForkErrors[n - 99] # "WAITPID_ERROR"
    /\ \A n \in 100..106 : ForkErrors[n - 99] # "SIGACTION_RESET_ERROR"
  <1>1. ErrorsOf(0) = {} /\ \A n \in 100..106 : ErrorsOf(n) = {ForkErrors[n - 99]}
    BY DEF ErrorsOf
  <1>2. \A n : n \notin 100..106 => ErrorsOf(n) = {}
    BY DEF ErrorsOf
  <1>3. ASSUME NEW n \in 100..106
        PROVE  \/ n = 100 \/ n = 101 \/ n = 102 \/ n = 103 \/ n = 104 \/ n = 105 \/ n = 106
    OBVIOUS
  <1>4. /\ ForkErrors[100 - 99] = "FORK_EXEC_ERROR"
        /\ ForkErrors[101 - 99] = "FORK_STDIN_NONBLOCK_ERROR"
        /\ ForkErrors[102 - 99] = "FORK_STDOUT_NONBLOCK_ERROR"
        /\ ForkErrors[103 - 99] = "FORK_STDERR_NONBLOCK_ERROR"
        /\ ForkErrors[104 - 99] = "FORK_DUP2_STDIN_ERROR"
        /\ ForkErrors[105 - 99] = "FORK_DUP2_STDOUT_ERROR"
        /\ ForkErrors[106 - 99] = "FORK_DUP2_STDERR_ERROR"
    BY DEF ForkErrors
  <1>5. \A n, m \in 100..106 : ForkErrors[n - 99] = ForkErrors[m - 99] => n = m
    BY <1>3, <1>4
  <1>6. \A n \in 100..106 :
            /\ \A stage \in Stages : StageError(stage) # ForkErrors[n - 99]
            /\ ForkErrors[n - 99] # "WAITPID_ERROR"
            /\ ForkErrors[n - 99] # "SIGACTION_RESET_ERROR"
    BY <1>3, <1>4 DEF StageError, Stages
  <1>7. \A n \in 100..106, m \in Codes8 : ForkErrors[n - 99] \in ErrorsOf(m) <=> n = m
    BY <1>1, <1>2, <1>5
  <1>8. \A n : ErrorsOf(n) \cap {"FORK_ERROR", "SIGACTION_RESET_ERROR"} = {}
    <2>1. \A n \in 100..106 : ForkErrors[n - 99] \notin {"FORK_ERROR", "SIGACTION_RESET_ERROR"}
      BY <1>3, <1>4
    <2> QED BY <1>1, <1>2, <2>1
  <1> QED BY <1>1, <1>6, <1>7, <1>8

\* What a call was told of its child stays right while it is told of no other code,
\* no child is reaped, and no reaped one gets another status.
LEMMA ToldKept ==
    ASSUME ForkErrorsTold,
           \A d \in Calls : /\ ToldCodes(d)' = ToldCodes(d)
                            /\ child'[d] = "reaped" <=> child[d] = "reaped"
                            /\ child[d] = "reaped" => status'[d] = status[d]
    PROVE  ForkErrorsTold'
  <1>1. \A d \in Calls : OwnCodes(d)' = OwnCodes(d)
    BY DEF OwnCodes
  <1>2. \A d \in Calls : CodeLeft(d)' <=> CodeLeft(d)
    BY <1>1 DEF CodeLeft
  <1> QED BY <1>1, <1>2 DEF ForkErrorsTold

\* The steps that change what is known of a call or a child; the others leave it, and
\* the loop's end, alone.
LEMMA QuietSteps ==
    ASSUME [Next]_vars, ~ReadSignal, ~Return,
           \A c \in Calls : ~Exec(c),
           \A c \in Calls, stage \in Stages : ~ExecFails(c, stage),
           \A c \in Children : ~ChildExit(c)
    PROVE  /\ UNCHANGED <<callVars, childVars>>
           /\ pc' = "leave" /\ ~user_stopped' => pc = "leave" /\ ~user_stopped
           /\ pc = "leave" => pc' = "leave"
  <1> DEFINE Quiet == /\ UNCHANGED <<callVars, childVars>>
                      /\ pc' = "leave" /\ ~user_stopped' => pc = "leave" /\ ~user_stopped
                      /\ pc = "leave" => pc' = "leave"
  <1>1. ASSUME LoopIo \/ Select \/ ReadClose \/ ReadWake PROVE Quiet
    BY <1>1 DEF LoopIo, Select, ReadClose, ReadWake, Resume, StopLoop
  <1>2. ASSUME NEW k \in Streams, ReadStream(k) PROVE Quiet
    BY <1>2 DEF ReadStream, Resume
  <1>3. ASSUME NEW c \in Calls, UserStop(c) PROVE Quiet
    BY <1>3 DEF UserStop
  <1>4. ASSUME NEW c \in Calls, NEW k \in Streams, ChildWrite(c, k) PROVE Quiet
    BY <1>4 DEF ChildWrite, kernelUnchanged
  <1>5. ASSUME NEW c \in Children, ChildPauses(c) PROVE Quiet
    BY <1>5 DEF ChildPauses, kernelUnchanged
  <1>6. ASSUME SignalHandler \/ Terminated \/ UNCHANGED vars PROVE Quiet
    BY <1>6 DEF SignalHandler, Terminated, kernelUnchanged
  <1> QED BY <1>1, <1>2, <1>3, <1>4, <1>5, <1>6 DEF Next, Caller, Loop, Kernel

\* Nothing that is known of a call is changed by the steps that leave it alone.
LEMMA QuietReports ==
    ASSUME Core, Reports, UNCHANGED <<callVars, childVars>>,
           pc' = "leave" /\ ~user_stopped' => pc = "leave" /\ ~user_stopped,
           pc = "leave" => pc' = "leave"
    PROVE  Reports'
  <1>1. ForkErrorsTold'
    BY ToldKept DEF Reports, ToldCodes
  <1> QED BY <1>1 DEF Reports, Tracked, EndsKnown, ReapedLast, LeavesTold, StoppedOrTold,
                      CodesOwn, StatusTrue, Valid

\* A fresh call has no child, no error and no result that count.
LEMMA ExecReports ==
    ASSUME Core, Reports, NEW c \in Calls, Exec(c) PROVE Reports'
  <1> USE DEF Core, TypeOK
  <1>1. /\ state[c] = "NONE" /\ child[c] = "none" /\ cur = {} /\ cur' = {c}
        /\ child' = [child EXCEPT ![c] = "running"] /\ status' = status /\ errors' = errors
        /\ state' = [state EXCEPT ![c] = "STARTED"] /\ pc' = "forked"
        /\ \A d \in Calls \ {c} : result'[d] = result[d]
    BY DEF Exec, Reports, Tracked
  <1>2. proc' = [proc EXCEPT ![ObjectOf[c]].running = TRUE]
    BY DEF Exec
  <1>3. \A o \in Objects : proc'[o].return_code = proc[o].return_code
    BY <1>2, ProcFacts DEF ProcStatus
  <1>4. Tracked' /\ EndsKnown' /\ ReapedLast' /\ LeavesTold' /\ StoppedOrTold' /\ StatusTrue'
    BY <1>1 DEF Reports, Tracked, EndsKnown, ReapedLast, LeavesTold, StoppedOrTold,
                StatusTrue, Valid, Children
  <1>5. \A d \in Calls : child[d] = "reaped" => d # c /\ child'[d] = "reaped"
    BY <1>1 DEF Children
  <1>6. CodesOwn'
    BY <1>1, <1>3, <1>5 DEF Reports, CodesOwn
  <1>7. ForkErrorsTold'
    <2>1. \A d \in Calls : child'[d] = "reaped" <=> child[d] = "reaped"
      BY <1>1 DEF Children
    <2> QED BY <1>1, <2>1, ToldKept DEF Reports, ToldCodes
  <1> QED BY <1>4, <1>6, <1>7 DEF Reports

\* A call that fails before its fork reports an error of its own.
LEMMA FailReports ==
    ASSUME Core, Reports, NEW c \in Calls, NEW stage \in Stages, ExecFails(c, stage)
    PROVE  Reports'
  <1> USE DEF Core, TypeOK
  <1>1. /\ state[c] = "NONE" /\ child[c] = "none" /\ cur = {}
        /\ UNCHANGED <<cur, child, status, proc, pc>>
        /\ state' = [state EXCEPT ![c] = "FAIL_STOPPED"]
        /\ errors' = [errors EXCEPT ![c] = @ \cup {StageError(stage)}]
        /\ \A d \in Calls \ {c} : result'[d] = result[d]
    BY DEF ExecFails, Reports, Tracked
  <1>2. Tracked' /\ EndsKnown' /\ ReapedLast' /\ LeavesTold' /\ StoppedOrTold' /\ StatusTrue'
            /\ CodesOwn'
    BY <1>1 DEF Reports, Tracked, EndsKnown, ReapedLast, LeavesTold, StoppedOrTold,
                StatusTrue, CodesOwn, Valid
  <1>3. \A d \in Calls : ToldCodes(d)' = ToldCodes(d)
    BY <1>1, ErrorsDistinct DEF ToldCodes
  <1>4. ForkErrorsTold'
    BY <1>1, <1>3, ToldKept DEF Reports
  <1> QED BY <1>2, <1>4 DEF Reports

\* A child that exits leaves its status, and nobody has looked at it yet.
LEMMA ExitReports ==
    ASSUME Core, Reports, NEW c \in Children, ChildExit(c) PROVE Reports'
  <1> USE DEF Core, TypeOK
  <1>1. /\ child[c] = "running" /\ UNCHANGED <<callVars, pc, user_stopped>>
        /\ child' = [child EXCEPT ![c] = "zombie"]
        /\ \E word \in Endings(c) : status' = [status EXCEPT ![c] = word]
    BY DEF ChildExit, kernelUnchanged
  <1>2. /\ \A d \in Children : child'[d] = "reaped" <=> child[d] = "reaped"
        /\ \A d \in Children : child[d] = "reaped" => status'[d] = status[d]
        /\ \A d \in Children : child[d] = "none" => child'[d] = "none"
        /\ \A d \in Children \ {c} : child'[d] = child[d] /\ status'[d] = status[d]
        /\ status'[c] \in Endings(c)
    BY <1>1
  <1>3. Calls \subseteq Children /\ cur \subseteq Calls
    BY DEF Children
  <1>4. EndsKnown'
    BY <1>2 DEF Reports, EndsKnown, Endings
  <1>5. Tracked' /\ ReapedLast' /\ LeavesTold' /\ StoppedOrTold' /\ StatusTrue'
    BY <1>1, <1>2, <1>3 DEF Reports, Tracked, ReapedLast, LeavesTold, StoppedOrTold,
                            StatusTrue, Valid
  <1>6. CodesOwn'
    BY <1>1, <1>2, <1>3 DEF Reports, CodesOwn
  <1>7. ForkErrorsTold'
    BY <1>1, <1>2, <1>3, ToldKept DEF Reports, ToldCodes
  <1> QED BY <1>4, <1>5, <1>6, <1>7 DEF Reports

\* handle_sigchld reaps the child of the call, or reports WAITPID_ERROR.
LEMMA SignalReports ==
    ASSUME Core, Reports, ReadSignal PROVE Reports'
  <1> USE DEF Core, TypeOK
  <1>1. PICK c \in Calls : /\ cur = {c} /\ HandleSigchld(c) /\ cur' = cur
                           /\ UNCHANGED <<state, status, user_stopped>>
                           /\ pc' = "leave" /\ pc = "pass"
    BY Decoding DEF ReadSignal, StopLoop, Reports
  <1>0. CodesOwn
    BY DEF Reports
  <1> DEFINE now == Updated(c)
  <1>2. /\ child[c] # "reaped" /\ state[c] = "STARTED"
        /\ c \in Children /\ ObjectOf[c] \in Objects /\ Calls \subseteq Children
    BY <1>1, ProcFacts DEF Reports, ReapedLast, Tracked, Children
  <1>3. /\ proc'[ObjectOf[c]] = now /\ result'[c] = now
        /\ \A o \in Objects \ {ObjectOf[c]} : proc'[o] = proc[o]
        /\ \A d \in Calls \ {c} : result'[d] = result[d] /\ errors'[d] = errors[d]
        /\ \A d \in Children \ {c} : child'[d] = child[d]
        /\ child'[c] = IF child[c] = "zombie" THEN "reaped" ELSE child[c]
        /\ errors'[c] = (errors[c] \cup (IF child[c] = "zombie" THEN {} ELSE NotExited(c)))
                             \cup ErrorsOf(now.return_code)
    BY <1>1, <1>2, Decoding DEF HandleSigchld, Reports
  <1> HIDE DEF now
  <1>4. /\ child[c] = "zombie" =>
               /\ Tells(now, status[c])
               /\ \/ status[c] = ExitWord(now.return_code)
                  \/ ~WIFEXITED(status[c]) /\ now.return_code = proc[ObjectOf[c]].return_code
        /\ child[c] = "zombie" /\ c \in Broken => now.return_code \in 100..106
        /\ child[c] # "zombie" => now.return_code = 0
    BY Decoding DEF Reports, now
  <1>5. Tracked' /\ ReapedLast' /\ EndsKnown'
    BY <1>1, <1>2, <1>3 DEF Reports, Tracked, ReapedLast, EndsKnown, Endings
  <1>6. LeavesTold'
    <2>1. c \in Broken => errors'[c] # {}
      BY <1>3, <1>4, ErrorsDistinct DEF NotExited
    <2>2. child'[c] = "reaped" \/ "WAITPID_ERROR" \in errors'[c]
      BY <1>3 DEF NotExited
    <2>3. child'[c] = "reaped" => Tells(proc'[ObjectOf[c]], status'[c])
      BY <1>1, <1>2, <1>3, <1>4
    <2> QED BY <1>1, <2>1, <2>2, <2>3 DEF LeavesTold, Valid
  <1>7. StoppedOrTold' /\ StatusTrue'
    BY <1>1, <1>2, <1>3 DEF Reports, StoppedOrTold, StatusTrue, Valid
  <1>8. \A d \in Calls : child[d] = "reaped" => d # c /\ child'[d] = "reaped"
    BY <1>2, <1>3
  <1>9. ASSUME now.return_code # 0
        PROVE  \E d \in Calls : /\ ObjectOf[d] = ObjectOf[c]
                                /\ child'[d] = "reaped" /\ status[d] = ExitWord(now.return_code)
                                /\ d # c => ~WIFEXITED(status[c])
    <2>1. CASE status[c] = ExitWord(now.return_code) /\ child[c] = "zombie"
      BY <1>3, <2>1
    <2>2. CASE ~WIFEXITED(status[c]) /\ now.return_code = proc[ObjectOf[c]].return_code
      <3>1. PICK d \in Calls : /\ ObjectOf[d] = ObjectOf[c] /\ child[d] = "reaped"
                               /\ status[d] = ExitWord(now.return_code)
        <4> HIDE DEF Core, TypeOK
        <4> QED BY <1>0, <1>2, <1>9, <2>2 DEF CodesOwn
      <3> QED BY <1>8, <2>2, <3>1
    <2> QED BY <1>4, <1>9, <2>1, <2>2
  <1>10. CodesOwn'
    <2> SUFFICES ASSUME NEW o \in Objects, proc'[o].return_code # 0
                 PROVE  \E d \in Calls : /\ ObjectOf[d] = o /\ child'[d] = "reaped"
                                         /\ status'[d] = ExitWord(proc'[o].return_code)
      BY DEF CodesOwn
    <2>1. CASE o = ObjectOf[c]
      BY <1>1, <1>3, <1>9, <2>1
    <2>2. CASE o # ObjectOf[c]
      BY <1>1, <1>3, <1>8, <2>2 DEF Reports, CodesOwn
    <2> QED BY <2>1, <2>2
  <1>11. ForkErrorsTold'
    <2>1. ASSUME NEW d \in Calls \ {c}
          PROVE  /\ ToldCodes(d)' = ToldCodes(d) /\ OwnCodes(d)' = OwnCodes(d)
                 /\ child'[d] = child[d] /\ status'[d] = status[d]
      BY <1>1, <1>2, <1>3 DEF ToldCodes, OwnCodes
    <2>2. OwnCodes(c) = {} /\ ToldCodes(c) = {}
      BY <1>2 DEF OwnCodes, Reports, ForkErrorsTold
    <2>3. now.return_code \in Codes8
      <3>1. WaitedFor(c) \in Words /\ proc[ObjectOf[c]] \in ProcStatus
        BY <1>2, ProcFacts DEF WaitedFor
      <3> QED BY <3>1, UpdateType DEF now, Updated, ProcStatus
    <2>4. ToldCodes(c)' = {n \in 100..106 : n = now.return_code}
      <3>1. \A n \in 100..106 : ForkErrors[n - 99] \notin errors[c]
        BY <2>2 DEF ToldCodes
      <3>2. ASSUME NEW n \in 100..106
            PROVE  ForkErrors[n - 99] \in errors'[c] <=> n = now.return_code
        <4> DEFINE err == ForkErrors[n - 99]
        <4>1. err # "WAITPID_ERROR" /\ (err \in ErrorsOf(now.return_code) <=> n = now.return_code)
          <5>1. \A m \in Codes8 : err \in ErrorsOf(m) <=> n = m
            BY ErrorsDistinct, Zenon
          <5>2. err # "WAITPID_ERROR"
            BY ErrorsDistinct, Zenon
          <5> HIDE DEF err, Core, TypeOK
          <5> QED BY <2>3, <5>1, <5>2
        <4>2. err \notin errors[c]
          BY <3>1
        <4>3. err \in errors'[c] <=> err \in ErrorsOf(now.return_code)
          <5> HIDE DEF err
          <5> QED BY <1>3, <4>1, <4>2 DEF NotExited
        <4> QED BY <4>1, <4>3
      <3> QED BY <3>2 DEF ToldCodes
    <2>5. CASE child[c] # "zombie"
      <3>1. child'[c] # "reaped" /\ ToldCodes(c)' = {} /\ OwnCodes(c)' = {}
        BY <1>2, <1>3, <1>4, <2>4, <2>5 DEF OwnCodes
      <3>2. \A d \in Calls \ {c} : CodeLeft(d)' <=> CodeLeft(d)
        BY <2>1, <2>2, <3>1 DEF CodeLeft
      <3> QED BY <2>1, <3>1, <3>2 DEF Reports, ForkErrorsTold
    <2>6. CASE child[c] = "zombie"
      <3>1. child'[c] = "reaped" /\ OwnCodes(c)' = {n \in 100..106 : status[c] = ExitWord(n)}
        BY <1>1, <1>3, <2>6 DEF OwnCodes
      <3>2. ASSUME WIFEXITED(status[c]) \/ ~CodeLeft(c)' PROVE ToldCodes(c)' = OwnCodes(c)'
        <4>1. CASE status[c] = ExitWord(now.return_code)
          <5>1. \A n \in 100..106 : status[c] = ExitWord(n) <=> n = now.return_code
            BY <2>3, <4>1 DEF ExitWord, Codes8
          <5> QED BY <2>4, <3>1, <5>1
        <4>2. CASE /\ ~WIFEXITED(status[c])
                   /\ now.return_code = proc[ObjectOf[c]].return_code
          <5>1. \A n \in 100..106 : status[c] # ExitWord(n)
            BY <4>2, Macros DEF WIFEXITED, Codes8
          <5>2. ASSUME now.return_code \in 100..106 PROVE FALSE
            <6>1. PICK d \in Calls : /\ ObjectOf[d] = ObjectOf[c] /\ child[d] = "reaped"
                                     /\ status[d] = ExitWord(now.return_code)
              <7>1. now.return_code # 0
                BY <5>2
              <7> HIDE DEF Core, TypeOK
              <7> QED BY <1>0, <1>2, <4>2, <7>1 DEF CodesOwn
            <6>2. d # c /\ now.return_code \in OwnCodes(d)
              BY <1>2, <5>2, <6>1 DEF OwnCodes
            <6>3. CodeLeft(c)'
              BY <2>1, <6>1, <6>2 DEF CodeLeft
            <6> QED BY <3>2, <4>2, <6>3
          <5> QED BY <2>4, <3>1, <5>1, <5>2
        <4> QED BY <1>4, <2>6, <4>1, <4>2
      <3>3. ASSUME NEW d \in Calls \ {c} PROVE CodeLeft(d) => CodeLeft(d)'
        BY <2>1, <2>2 DEF CodeLeft
      <3>4. status'[c] = status[c]
        BY <1>1
      <3> QED BY <2>1, <3>1, <3>2, <3>3, <3>4 DEF Reports, ForkErrorsTold
    <2> QED BY <2>5, <2>6
  <1> QED BY <1>5, <1>6, <1>7, <1>10, <1>11 DEF Reports

\* The call returns with the answer that the loop found.
LEMMA ReturnReports ==
    ASSUME Core, Reports, Return PROVE Reports'
  <1> USE DEF Core, TypeOK
  <1>1. PICK c \in Calls :
            /\ cur = {c} /\ cur' = {} /\ pc = "leave" /\ pc' = "idle"
            /\ UNCHANGED <<proc, child, status>> /\ Reset(c)
            /\ state' = [state EXCEPT ![c] = IF user_stopped THEN "USER_STOPPED"
                                              ELSE "STOPPED"]
            /\ result' = [result EXCEPT ![c] = proc[ObjectOf[c]]]
    <2>1. PICK c \in cur :
              /\ Reset(c)
              /\ state' = [state EXCEPT ![c] = IF user_stopped THEN "USER_STOPPED"
                                                ELSE "STOPPED"]
              /\ result' = [result EXCEPT ![c] = proc[ObjectOf[c]]]
      BY DEF Return
    <2>2. c \in Calls /\ cur = {c}
      OBVIOUS
    <2> QED BY <2>1, <2>2 DEF Return
  <1>2. /\ \A d \in Calls : errors[d] \subseteq errors'[d]
        /\ \A d \in Calls : errors'[d] \subseteq errors[d] \cup {"SIGACTION_RESET_ERROR"}
    BY <1>1 DEF Reset
  <1>3. ForkErrorsTold'
    <2>1. ASSUME NEW d \in Calls PROVE ToldCodes(d)' = ToldCodes(d)
      <3>1. ASSUME NEW n \in 100..106
            PROVE  ForkErrors[n - 99] \in errors'[d] <=> ForkErrors[n - 99] \in errors[d]
        <4>1. ForkErrors[n - 99] # "SIGACTION_RESET_ERROR"
          BY ErrorsDistinct, Zenon
        <4> QED BY <1>2, <4>1
      <3> QED BY <3>1 DEF ToldCodes
    <2> QED BY <1>1, <2>1, ToldKept DEF Reports
  <1>4. Tracked' /\ EndsKnown' /\ ReapedLast' /\ LeavesTold' /\ CodesOwn'
    BY <1>1 DEF Reports, Tracked, EndsKnown, ReapedLast, LeavesTold, CodesOwn
  <1>5. StoppedOrTold' /\ StatusTrue'
    BY <1>1, <1>2 DEF Reports, LeavesTold, StoppedOrTold, StatusTrue, Valid
  <1> QED BY <1>3, <1>4, <1>5 DEF Reports

\* Every step keeps what is known of the calls.
LEMMA ReportsStep == Core /\ Reports /\ [Next]_vars => Reports'
  BY ExecReports, FailReports, ExitReports, SignalReports, ReturnReports, QuietSteps,
     QuietReports

-----------------------------------------------------------------------------
(* Who handles SIGCHLD.                                                    *)

\* A step that tells no call of a failed fork or reset leaves HandlerLeft as it is.
LEMMA LeftKept ==
    ASSUME \A c \in Calls : errors'[c] \cap {"FORK_ERROR", "SIGACTION_RESET_ERROR"}
                                = errors[c] \cap {"FORK_ERROR", "SIGACTION_RESET_ERROR"}
    PROVE  HandlerLeft' <=> HandlerLeft
  BY DEF HandlerLeft

\* exec() puts back the disposition it found, which was the user's unless a fork or a
\* reset had failed before.
LEMMA DispositionStep ==
    Core /\ HandledInCall /\ UserHandlerKept /\ [Next]_vars => UserHandlerKept'
  <1> SUFFICES ASSUME Core, HandledInCall, UserHandlerKept, [Next]_vars PROVE UserHandlerKept'
    OBVIOUS
  <1>0. errors' = errors => (HandlerLeft' <=> HandlerLeft)
    BY LeftKept
  <1>e. errors \in [Calls -> SUBSET Errors] /\ (pc = "idle" <=> cur = {}) /\ cur \subseteq Calls
    BY DEF Core, TypeOK
  <1>1. ASSUME NEW c \in Calls, Exec(c) PROVE UserHandlerKept'
    BY <1>0, <1>1 DEF Exec, UserHandlerKept
  <1>2. ASSUME NEW c \in Calls, NEW stage \in Stages, ExecFails(c, stage)
        PROVE  UserHandlerKept'
    <2>1. /\ pc = "idle" /\ pc' = "idle"
          /\ errors' = [errors EXCEPT ![c] = @ \cup {StageError(stage)}]
      BY <1>2 DEF ExecFails
    <2>2. CASE stage = "fork"
      <3>1. "FORK_ERROR" \in errors'[c] /\ handler' = "pexec"
        BY <1>2, <1>e, <2>1, <2>2 DEF ExecFails, HandlerSet, StageError
      <3>2. HandlerLeft'
        BY <3>1 DEF HandlerLeft
      <3> QED BY <2>1, <3>1, <3>2 DEF UserHandlerKept
    <2>3. CASE stage # "fork"
      <3>1. StageError(stage) \notin {"FORK_ERROR", "SIGACTION_RESET_ERROR"} /\ handler' = handler
        BY <1>2, <2>3 DEF ExecFails, HandlerSet, StageError, Stages
      <3>2. HandlerLeft' <=> HandlerLeft
        BY <1>e, <2>1, <3>1, LeftKept
      <3> QED BY <2>1, <3>1, <3>2 DEF UserHandlerKept
    <2> QED BY <2>2, <2>3
  <1>3. ASSUME Return PROVE UserHandlerKept'
    <2>1. PICK c \in cur : Reset(c) /\ pc' = "idle" /\ pc # "idle"
      BY <1>3 DEF Return
    <2>2. CASE handler' = sa_prev /\ errors' = errors
      BY <1>0, <2>1, <2>2 DEF UserHandlerKept
    <2>3. CASE ~(handler' = sa_prev /\ errors' = errors)
      <3>1. "SIGACTION_RESET_ERROR" \in errors'[c] /\ c \in Calls /\ handler' = "pexec"
        BY <1>e, <2>1, <2>3 DEF Reset, HandledInCall
      <3>2. HandlerLeft'
        BY <3>1 DEF HandlerLeft
      <3> QED BY <2>1, <3>1, <3>2 DEF UserHandlerKept
    <2> QED BY <2>2, <2>3
  <1>4. ASSUME LoopIo \/ Select \/ ReadClose \/ ReadWake PROVE UserHandlerKept'
    BY <1>0, <1>4 DEF LoopIo, Select, ReadClose, ReadWake, Resume, StopLoop, UserHandlerKept
  <1>5. ASSUME NEW k \in Streams, ReadStream(k) PROVE UserHandlerKept'
    BY <1>0, <1>5 DEF ReadStream, Resume, UserHandlerKept
  <1>6. ASSUME NEW c \in Calls, UserStop(c) PROVE UserHandlerKept'
    BY <1>0, <1>6 DEF UserStop, UserHandlerKept
  <1>7. ASSUME NEW c \in Calls, NEW k \in Streams, ChildWrite(c, k) PROVE UserHandlerKept'
    BY <1>0, <1>7 DEF ChildWrite, kernelUnchanged, UserHandlerKept
  <1>8. ASSUME NEW c \in Children, ChildExit(c) \/ ChildPauses(c) PROVE UserHandlerKept'
    BY <1>0, <1>8 DEF ChildExit, ChildPauses, kernelUnchanged, UserHandlerKept
  <1>9. ASSUME SignalHandler \/ Terminated \/ UNCHANGED vars PROVE UserHandlerKept'
    BY <1>0, <1>9 DEF SignalHandler, Terminated, kernelUnchanged, UserHandlerKept
  <1>10. ASSUME ReadSignal PROVE UserHandlerKept'
    <2>1. /\ pc = "pass" /\ pc' \in {"select", "pass", "leave"} /\ UNCHANGED <<handler, sa_prev>>
          /\ \E c \in cur : HandleSigchld(c)
      BY <1>10 DEF ReadSignal, Resume, StopLoop
    <2>2. PICK c \in Calls : HandleSigchld(c)
      BY <1>e, <2>1
    <2>3. /\ \A d \in Calls \ {c} : errors'[d] = errors[d]
          /\ errors[c] \subseteq errors'[c]
          /\ errors'[c] \subseteq errors[c] \cup {"WAITPID_ERROR"}
                                \cup ErrorsOf(Updated(c).return_code)
      BY <1>e, <2>2 DEF HandleSigchld, NotExited
    <2>4. HandlerLeft' <=> HandlerLeft
      BY <2>3, ErrorsDistinct, LeftKept
    <2> QED BY <2>1, <2>4 DEF UserHandlerKept
  <1> QED BY <1>1, <1>2, <1>3, <1>4, <1>5, <1>6, <1>7, <1>8, <1>9, <1>10
          DEF Next, Caller, Loop, Kernel

\* SIGCHLD is handled from before the fork until the loop has ended, so that an exit
\* leaves a signal pending or its number in the pipe.
LEMMA PendingStep ==
    ASSUME Core, EndsKnown, HandledInCall, ExitPending, [Next]_vars
    PROVE  HandledInCall' /\ ExitPending'
  <1> DEFINE Pending == HandledInCall /\ ExitPending
  <1> SUFFICES Pending'
    OBVIOUS
  <1> USE DEF HandledInCall, ExitPending
  <1>0. /\ cur \subseteq Calls /\ (pc = "idle" <=> cur = {}) /\ sig_pipe \in 0..SigCap
        /\ SigCap \in Nat \ {0}
        /\ child \in [Children -> {"none", "running", "zombie", "reaped"}]
    BY PexecSingleAssumption DEF Core, TypeOK
  <1>1. ASSUME NEW c \in Calls, Exec(c) PROVE Pending'
    BY <1>0, <1>1 DEF Exec, Children
  <1>2. ASSUME NEW c \in Calls, NEW stage \in Stages, ExecFails(c, stage) PROVE Pending'
    BY <1>0, <1>2 DEF ExecFails
  <1>3. CASE LoopIo
    BY <1>0, <1>3 DEF LoopIo, PipeOfExec
  <1>4. CASE ReadSignal
    <2>1. PICK c \in cur : IF Updated(c).running THEN Resume(todo \ {"sig"}) ELSE StopLoop
      BY <1>4 DEF ReadSignal
    <2>2. pc' = "leave"
      BY <1>0, <2>1, Decoding DEF StopLoop
    <2> QED BY <1>4, <2>2 DEF ReadSignal
  <1>5. CASE Return
    BY <1>5 DEF Return
  <1>6. CASE Select \/ ReadClose \/ ReadWake
    BY <1>6 DEF Select, ReadClose, ReadWake, Resume, StopLoop
  <1>7. ASSUME NEW k \in Streams, ReadStream(k) PROVE Pending'
    BY <1>7 DEF ReadStream, Resume
  <1>8. ASSUME NEW c \in Calls, UserStop(c) PROVE Pending'
    BY <1>8 DEF UserStop
  <1>9. ASSUME NEW c \in Calls, NEW k \in Streams, ChildWrite(c, k) PROVE Pending'
    BY <1>9 DEF ChildWrite, kernelUnchanged
  <1>10. ASSUME NEW c \in Children, ChildExit(c) \/ ChildPauses(c) PROVE Pending'
    BY <1>0, <1>10 DEF ChildExit, ChildPauses, SignalRaised, kernelUnchanged
  <1>11. CASE SignalHandler
    BY <1>0, <1>11 DEF SignalHandler, Put, kernelUnchanged
  <1>12. CASE Terminated \/ UNCHANGED vars
    BY <1>12 DEF Terminated
  <1> QED BY <1>1, <1>2, <1>3, <1>4, <1>5, <1>6, <1>7, <1>8, <1>9, <1>10, <1>11, <1>12
          DEF Next, Caller, Loop, Kernel

-----------------------------------------------------------------------------
(* The inductive invariant, and what follows from it.                      *)

\* The inductive invariant holds before the first call.
LEMMA InitIInv == Init => IInv
  <1> SUFFICES ASSUME Init PROVE IInv
    OBVIOUS
  <1>1. Tracked /\ EndsKnown /\ ReapedLast /\ LeavesTold /\ StoppedOrTold /\ StatusTrue
            /\ HandledInCall /\ ExitPending
    BY PexecSingleAssumption
       DEF Init, Tracked, EndsKnown, ReapedLast, LeavesTold, StoppedOrTold, StatusTrue,
           HandledInCall, ExitPending, Children
  <1>2. UserHandlerKept
    BY DEF Init, UserHandlerKept, HandlerLeft
  <1>3. CodesOwn /\ ForkErrorsTold
    BY DEF Init, CodesOwn, ForkErrorsTold, ToldCodes, NoStatus, Children
  <1> QED BY <1>1, <1>2, <1>3, CoreInit DEF IInv, Core

\* Every step of the caller, its loop, the children and the kernel keeps it.
LEMMA NextIInv == IInv /\ [Next]_vars => IInv'
  <1> SUFFICES ASSUME IInv, [Next]_vars PROVE IInv'
    OBVIOUS
  <1>1. Core /\ Reports
    BY DEF IInv, Core, Reports
  <1>2. Core' /\ Reports'
    BY <1>1, CoreStep, ReportsStep
  <1>3. UserHandlerKept'
    BY <1>1, DispositionStep DEF IInv
  <1>4. HandledInCall' /\ ExitPending'
    BY <1>1, PendingStep DEF IInv, Reports
  <1> QED BY <1>2, <1>3, <1>4 DEF IInv, Core, Reports

\* The inductive invariant holds for ever, for every value of the constants.
THEOREM Inductive == Spec => []IInv
  BY InitIInv, NextIInv, PTL DEF Spec

\* Every variable keeps its type, and one call at most is in progress.
THEOREM SingleTypeCorrect == Spec => []TypeOK
  <1>1. IInv => TypeOK
    BY DEF IInv
  <1> QED BY <1>1, Inductive, PTL

\* A blocking exec() that reports STOPPED has reaped its child, or has reported
\* WAITPID_ERROR; and no command that could not be executed goes unreported.
THEOREM AlwaysTold == Spec => []StoppedOrTold
  <1>1. IInv => StoppedOrTold
    BY DEF IInv
  <1> QED BY <1>1, Inductive, PTL

\* The loop's callbacks never find an empty pipe, whatever is written, paused or
\* stopped between ::select and the callback.
THEOREM NoReadFails == Spec => []ReadsSucceed
  <1>1. IInv => ReadsSucceed
    BY DEF IInv
  <1> QED BY <1>1, Inductive, PTL

\* What STOPPED hands over is what became of the call's own child, whatever the
\* object ran before and the order in which exits, pauses and calls come.
THEOREM StatusTold == Spec => []StatusTrue
  <1>1. IInv => StatusTrue
    BY DEF IInv
  <1> QED BY <1>1, Inductive, PTL

\* The exit of the call's child is never lost: until the loop ends it has a signal
\* pending or in the pipe.
THEOREM ExitNotLost == Spec => []ExitPending
  <1>1. IInv => ExitPending
    BY DEF IInv
  <1> QED BY <1>1, Inductive, PTL

\* A call is told exactly the error of its own child's exit code, for each of the codes
\* 100 to 106; only when its child was killed may it be that of another call's.
THEOREM ForkErrorsExact == Spec => []ForkErrorsTold
  <1>1. IInv => ForkErrorsTold
    BY DEF IInv
  <1> QED BY <1>1, Inductive, PTL

\* Whenever exec() is not running SIGCHLD is the user's again, exactly if no fork and no
\* reset has failed; whatever else fails, and however calls end.
THEOREM UserHandlerBack == Spec => []HandlerRestored
  <1>1. IInv => HandlerRestored
    BY DEF IInv, UserHandlerKept, HandlerRestored
  <1> QED BY <1>1, Inductive, PTL

-----------------------------------------------------------------------------
(* The refinement.                                                         *)

\* The call is started with a child of its own.
LEMMA ExecRefines == ASSUME Core, Tracked, NEW c \in Calls, Exec(c) PROVE Life!Start(c)
  <1> USE DEF Core, TypeOK
  <1>1. /\ state[c] = "NONE" /\ child[c] = "none" /\ c \in Children
        /\ state' = [state EXCEPT ![c] = "STARTED"]
        /\ child' = [child EXCEPT ![c] = "running"] /\ errors' = errors
    BY DEF Exec, Tracked, Children
  <1>2. OwnChild[c] = "none" /\ OwnChild' = [OwnChild EXCEPT ![c] = "running"]
    BY <1>1 DEF OwnChild, Children
  <1>3. Returns' = Returns
    BY <1>1 DEF Returns, Final
  <1>4. Told' = Told
    BY <1>1 DEF Told, Valid
  <1> QED BY <1>1, <1>2, <1>3, <1>4 DEF Life!Start

\* A call that comes to a final state has returned once more.
LEMMA ReturnsOnce ==
    ASSUME NEW c \in Calls, state[c] \notin Final, state'[c] \in Final,
           \A d \in Calls \ {c} : state'[d] = state[d]
    PROVE  Returns' = [Returns EXCEPT ![c] = @ + 1]
  <1>1. Returns[c] = 0 /\ Returns[c] + 1 = 1
    BY DEF Returns
  <1>2. Returns' = [d \in Calls |-> IF d = c THEN 1 ELSE Returns[d]]
    BY DEF Returns
  <1>3. [Returns EXCEPT ![c] = 1] = [d \in Calls |-> IF d = c THEN 1 ELSE Returns[d]]
    BY DEF Returns
  <1> QED BY <1>1, <1>2, <1>3

\* A call without a child ends with an error of its own.
LEMMA FailRefines ==
    ASSUME Core, NEW c \in Calls, NEW stage \in Stages, ExecFails(c, stage)
    PROVE  Life!FailToStart(c)
  <1> USE DEF Core, TypeOK
  <1>1. /\ state[c] = "NONE" /\ child' = child
        /\ state' = [state EXCEPT ![c] = "FAIL_STOPPED"]
        /\ errors' = [errors EXCEPT ![c] = @ \cup {StageError(stage)}]
    BY DEF ExecFails
  <1>2. Returns' = [Returns EXCEPT ![c] = @ + 1]
    <2>1. state[c] \notin Final /\ state'[c] \in Final
      BY <1>1 DEF Final
    <2>2. \A d \in Calls \ {c} : state'[d] = state[d]
      BY <1>1
    <2> QED BY <2>1, <2>2, ReturnsOnce
  <1>3. errors'[c] # {} /\ \A d \in Calls \ {c} : errors'[d] = errors[d]
    <2>1. errors'[c] = errors[c] \cup {StageError(stage)}
      BY <1>1
    <2>2. StageError(stage) \in errors'[c]
      BY <2>1
    <2> QED BY <1>1, <2>2
  <1>4. Told' = Told \cup {c}
    BY <1>3 DEF Told, Valid
  <1> QED BY <1>1, <1>2, <1>4
          DEF Life!FailToStart, Life!End, Life!MayTell, OwnChild

\* The exit of a call's child is seen, that of another child is not.
LEMMA ExitRefines ==
    ASSUME Core, NEW c \in Children, ChildExit(c)
    PROVE  (c \in Calls /\ Life!ChildExits(c)) \/ UNCHANGED Life!vars
  <1> USE DEF Core, TypeOK
  <1>1. /\ child[c] = "running" /\ UNCHANGED <<state, errors>>
        /\ child' = [child EXCEPT ![c] = "zombie"]
    BY DEF ChildExit, kernelUnchanged
  <1>2. Returns' = Returns /\ Told' = Told
    BY <1>1 DEF Returns, Told, Valid
  <1>3. CASE c \in Calls
    BY <1>1, <1>2, <1>3 DEF Life!ChildExits, OwnChild, Children
  <1>4. CASE c \notin Calls
    BY <1>1, <1>2, <1>4 DEF Life!vars, OwnChild, Children
  <1> QED BY <1>3, <1>4

\* handle_sigchld reaps the child or reports an error, and ends nothing itself.
LEMMA SignalRefines ==
    ASSUME Core, ReadSignal PROVE \E c \in Calls : Life!ReapOrTell(c)
  <1> USE DEF Core, TypeOK
  <1>1. PICK c \in Calls : HandleSigchld(c) /\ UNCHANGED state
    BY DEF ReadSignal
  <1>2. /\ \A d \in Calls \ {c} : errors'[d] = errors[d] /\ child'[d] = child[d]
        /\ child'[c] = IF child[c] = "zombie" THEN "reaped" ELSE child[c]
        /\ errors[c] \subseteq errors'[c]
    BY <1>1 DEF HandleSigchld, Children
  <1>3. Told' \in {Told, Told \cup {c}}
    BY <1>2 DEF Told, Valid
  <1>4. \/ OwnChild[c] = "zombie" /\ OwnChild' = [OwnChild EXCEPT ![c] = "reaped"]
        \/ OwnChild' = OwnChild
    BY <1>2 DEF OwnChild
  <1>5. Returns' = Returns
    BY <1>1 DEF Returns
  <1>6. Life!ReapOrTell(c)
    BY <1>1, <1>3, <1>4, <1>5 DEF Life!ReapOrTell, Life!Reap, Life!MayTell
  <1> QED BY <1>6

\* The call ends once, stopped with its child reaped or an error told.
LEMMA ReturnRefines ==
    ASSUME Core, Tracked, LeavesTold, Return
    PROVE  \E c \in Calls : Life!Stop(c) \/ Life!GiveUp(c, "USER_STOPPED")
  <1>1. PICK c \in cur : /\ Reset(c)
                         /\ state' = [state EXCEPT ![c] = IF user_stopped THEN "USER_STOPPED"
                                                          ELSE "STOPPED"]
    BY DEF Return
  <1> USE DEF Core, TypeOK
  <1>2. c \in Calls /\ state[c] = "STARTED" /\ pc = "leave" /\ child' = child
    BY DEF Return, Tracked
  <1>3. /\ Returns' = [Returns EXCEPT ![c] = @ + 1] /\ OwnChild' = OwnChild
        /\ Life!MayTell(c)
    <2>1. state'[c] \in Final /\ state[c] \notin Final
      BY <1>1, <1>2 DEF Final
    <2>2. \A d \in Calls \ {c} : state'[d] = state[d]
      BY <1>1, <1>2
    <2>3. Returns' = [Returns EXCEPT ![c] = @ + 1]
      BY <1>2, <2>1, <2>2, ReturnsOnce
    <2>4. /\ \A d \in Calls \ {c} : errors'[d] = errors[d]
          /\ errors[c] \subseteq errors'[c]
      BY <1>1, <1>2 DEF Reset
    <2>5. Told' \in {Told, Told \cup {c}}
      BY <1>2, <2>4 DEF Told, Valid
    <2> QED BY <1>2, <2>3, <2>5 DEF OwnChild, Life!MayTell
  <1>4. CASE user_stopped
    BY <1>1, <1>2, <1>3, <1>4 DEF Life!GiveUp, Life!End
  <1>5. CASE ~user_stopped
    <2>1. child[c] = "reaped" \/ "WAITPID_ERROR" \in errors[c]
      BY <1>2, <1>5 DEF LeavesTold
    <2>2. OwnChild[c] = "reaped" \/ c \in Told
      BY <1>2, <2>1 DEF OwnChild, Told, Valid
    <2> QED BY <1>1, <1>2, <1>3, <1>5, <2>2 DEF Life!Stop, Life!End
  <1>6. c \in Calls
    BY <1>2
  <1> QED BY <1>4, <1>5, <1>6

\* Every call of exec() lives as HandleLifecycle promises, the states that are
\* reported and what has become of the child taken together.
THEOREM CallLifecycle == Spec => ImplementsLifecycle
  <1>1. Init => Life!Init
    BY DEF Init, Life!Init, Returns, OwnChild, Told, Valid, Final, Children
  <1>2. IInv /\ [Next]_vars => [Life!Next]_Life!vars
    <2> SUFFICES ASSUME IInv, [Next]_vars PROVE Life!Next \/ UNCHANGED Life!vars
      OBVIOUS
    <2>1. Core /\ Tracked /\ LeavesTold
      BY DEF IInv, Core
    <2>2. CASE \E c \in Calls : Exec(c)
      BY <2>1, <2>2, ExecRefines DEF Life!Next
    <2>3. CASE \E c \in Calls, stage \in Stages : ExecFails(c, stage)
      BY <2>1, <2>3, FailRefines DEF Life!Next
    <2>4. CASE \E c \in Children : ChildExit(c)
      BY <2>1, <2>4, ExitRefines DEF Life!Next
    <2>5. CASE ReadSignal
      BY <2>1, <2>5, SignalRefines DEF Life!Next
    <2>6. CASE Return
      BY <2>1, <2>6, ReturnRefines DEF Life!Next
    <2>7. CASE UNCHANGED <<callVars, childVars>>
      BY <2>7 DEF Life!vars, Returns, OwnChild, Told, Valid
    <2> QED BY <2>2, <2>3, <2>4, <2>5, <2>6, <2>7, QuietSteps
  <1> QED BY <1>1, <1>2, Inductive, PTL DEF Spec, ImplementsLifecycle, Life!Spec

\* A call of exec() that has returned is reported in no other state again, and gets no
\* second child.
THEOREM CallOnward == Spec => [][\A p \in Calls : Life!Onward(p)]_vars
  <1>1. Life!Spec => Life!NeverBack
    BY Life!OnlyOnward
  <1>2. UNCHANGED Life!vars => \A p \in Calls : Life!Onward(p)
    BY DEF Life!vars, Life!Onward
  <1>3. Spec => Life!Spec
    BY CallLifecycle DEF ImplementsLifecycle
  <1> QED BY <1>1, <1>2, <1>3, PTL DEF Life!NeverBack
==============================================================================
