------------------------ MODULE SigchldHandlerProofs ------------------------
(***************************************************************************)
(* Proofs about SigchldHandler, for any objects of either mode, any of     *)
(* which may fail, any numbers of runs, children and pipes.                *)
(***************************************************************************)
EXTENDS SigchldHandler, TLAPS

\* Nothing has run yet.
LEMMA InitIInv == Init => IInv
  <1> SUFFICES ASSUME Init PROVE IInv
    OBVIOUS
  <1> USE SigchldHandlerAssumption DEF Init
  <1>1. TypeOK
    <2>1. 0 \in 0..SigCap /\ 0 \in 0..MaxChildren
      OBVIOUS
    <2>2. signals \in [Pipes -> 0..SigCap]
      BY <2>1
    <2>3. sigchld \in [Objects -> {"none", "valid", "invalid"}] /\ runs \in [Objects -> Nat]
      OBVIOUS
    <2> QED BY <2>1, <2>2, <2>3 DEF TypeOK, NoPipe
  <1>2. Places /\ PipesKnown /\ HandlerSet /\ HandlerOwned /\ RunArmed
    BY DEF Places, PipesKnown, HandlerSet, HandlerOwned, RunArmed
  <1> QED BY <1>1, <1>2 DEF IInv

\* The constructor makes its pipe before it sets the handler.
LEMMA ConstructStep ==
    ASSUME IInv, NEW o \in Objects,
           MakePipe(o) \/ MakePipeFails(o) \/ SetHandler \/ SetHandlerFails
    PROVE  IInv'
  <1> USE SigchldHandlerAssumption DEF IInv
  <1>1. CASE MakePipe(o)
    <2> USE <1>1 DEF MakePipe, StartRun
    <2>1. PICK n \in Pipes :
              /\ FreePipe(n) /\ sigchld_pipe_signal' = n
              /\ open' = open \cup {n} /\ signals' = [signals EXCEPT ![n] = 0]
      OBVIOUS
    <2>2. n \notin open
      BY <2>1 DEF FreePipe
    <2>3. TypeOK'
      <3>1. 0 \in 0..SigCap
        OBVIOUS
      <3>2. signals' \in [Pipes -> 0..SigCap]
        BY <2>1, <3>1 DEF TypeOK
      <3>3. overlaid' \in BOOLEAN /\ meddled' \in BOOLEAN
        BY Zenon
      <3>4. /\ sigchld_pipe_signal' \in Pipes \cup {NoPipe} /\ open' \subseteq Pipes
            /\ obj' \in {{}} \cup {{p} : p \in Objects}
            /\ runs' \in [Objects -> Nat] /\ lost' \subseteq Pipes
            /\ reset_errors' \subseteq Objects \X {"inactive", "sigaction"}
        BY <2>1 DEF TypeOK
      <3> QED BY <3>2, <3>3, <3>4 DEF TypeOK, childVars
    <2>4. Places'
      BY DEF Places, childVars
    <2>5. PipesKnown'
      BY <2>1, <2>2 DEF PipesKnown, TypeOK
    <2>6. HandlerSet' /\ HandlerOwned'
      BY <2>1 DEF HandlerSet, HandlerOwned
    <2>7. RunArmed'
      BY DEF RunArmed, Places
    <2> QED BY <2>3, <2>4, <2>5, <2>6, <2>7
  <1>2. CASE MakePipeFails(o)
    <2> USE <1>2 DEF MakePipeFails, StartRun, globalVars, pipeVars, childVars, historyVars
    <2>1. TypeOK'
      BY DEF TypeOK
    <2>2. Places' /\ PipesKnown'
      BY DEF Places, PipesKnown
    <2>3. HandlerSet' /\ HandlerOwned'
      BY DEF HandlerSet, HandlerOwned, Ready, Places
    <2>4. RunArmed'
      BY DEF RunArmed, Places
    <2> QED BY <2>1, <2>2, <2>3, <2>4
  <1>3. CASE SetHandler
    <2> USE <1>3 DEF SetHandler, pipeVars, childVars, historyVars
    <2>1. TypeOK'
      BY DEF TypeOK
    <2>2. Places' /\ PipesKnown'
      BY DEF Places, PipesKnown
    <2>3. HandlerSet' /\ HandlerOwned'
      BY DEF HandlerSet, HandlerOwned, Ready, TypeOK
    <2>4. RunArmed'
      BY DEF RunArmed, Places, Ready, HandlerSet
    <2> QED BY <2>1, <2>2, <2>3, <2>4
  <1>4. CASE SetHandlerFails
    <2> USE <1>4 DEF SetHandlerFails, ClosePipe, Failed, childVars, historyVars
    <2>1. TypeOK'
      BY DEF TypeOK
    <2>2. Places' /\ PipesKnown'
      BY DEF Places, PipesKnown, TypeOK, Pipes, NoPipe
    <2>3. HandlerSet' /\ HandlerOwned'
      BY DEF HandlerSet, HandlerOwned, TypeOK, Pipes, NoPipe
    <2>4. RunArmed'
      BY DEF RunArmed, Places
    <2> QED BY <2>1, <2>2, <2>3, <2>4
  <1> QED BY <1>1, <1>2, <1>3, <1>4

\* An assignment that resets nothing.  Of a valid object that is destroyed without
\* a reset, a handler that is installed has been told of.
LEMMA NoResetStep ==
    ASSUME IInv, AssignToEmpty \/ ResetInactive \/ ResetFails
    PROVE  IInv'
  <1> USE SigchldHandlerAssumption DEF IInv
  <1>1. PICK o \in Objects : obj = {o} /\ Assign(o)
    BY DEF AssignToEmpty, ResetInactive, ResetFails, TypeOK
  <1>2. /\ pc = "assign"
        /\ UNCHANGED <<globalVars, events, handler, pipeVars, pending, childVars,
                       overlaid, meddled, lost>>
    BY DEF AssignToEmpty, ResetInactive, ResetFails, historyVars
  <1>3. /\ reset_errors \subseteq reset_errors'
        /\ reset_errors' \subseteq Objects \X {"inactive", "sigaction"}
    BY <1>1 DEF AssignToEmpty, ResetInactive, ResetFails, ResetError, historyVars, TypeOK
  <1>4. \/ sigchld[o] # "valid" \/ ~sigchld_active
        \/ <<o, "sigaction">> \in reset_errors'
    BY <1>1 DEF AssignToEmpty, ResetInactive, ResetFails, ResetError
  <1> USE <1>1, <1>2 DEF Assign, globalVars, pipeVars, childVars
  <1>5. TypeOK'
    BY <1>3 DEF TypeOK
  <1>6. Places' /\ PipesKnown'
    BY DEF Places, PipesKnown
  <1>7. HandlerSet'
    BY DEF HandlerSet, Ready
  <1>8. HandlerOwned'
    <2> SUFFICES ASSUME handler = "pexec", ~overlaid,
                        \A p \in Objects : <<p, "sigaction">> \notin reset_errors',
                        fresh # "valid"
                 PROVE  \E p \in Objects : sigchld'[p] = "valid"
      BY DEF HandlerOwned, TypeOK
    <2>1. PICK p \in Objects : sigchld[p] = "valid"
      BY <1>3 DEF HandlerOwned
    <2>2. sigchld[o] # "valid"
      BY <1>4 DEF HandlerSet, Ready
    <2> QED BY <2>1, <2>2 DEF TypeOK
  <1>9. RunArmed'
    BY DEF RunArmed, Places, Ready, TypeOK
  <1> QED BY <1>5, <1>6, <1>7, <1>8, <1>9

\* The disposition goes back to what was found, then the pipe is closed.
LEMMA ResetStep == ASSUME IInv, ResetHandler \/ CloseOld PROVE IInv'
  <1> USE SigchldHandlerAssumption DEF IInv
  <1>1. CASE ResetHandler
    <2> USE <1>1 DEF ResetHandler, PrevHandler, globalVars, objectVars, pipeVars, childVars
    <2>1. TypeOK'
      BY DEF TypeOK
    <2>2. Places' /\ PipesKnown'
      BY DEF Places, PipesKnown
    <2>3. HandlerSet'
      BY DEF HandlerSet, Ready, TypeOK
    <2>4. HandlerOwned'
      BY <2>3 DEF HandlerOwned, HandlerSet
    <2>5. RunArmed'
      BY DEF RunArmed, TypeOK
    <2> QED BY <2>1, <2>2, <2>3, <2>4, <2>5
  <1>2. CASE CloseOld
    <2>1. PICK o \in Objects : obj = {o} /\ Assign(o)
      BY <1>2 DEF CloseOld, TypeOK
    <2> USE <1>2, <2>1 DEF CloseOld, ClosePipe, Assign, childVars, historyVars
    <2>2. TypeOK'
      BY DEF TypeOK
    <2>3. Places'
      BY DEF Places
    <2>6. PipesKnown'
      BY DEF PipesKnown, TypeOK, Pipes, NoPipe
    <2>4. HandlerSet' /\ HandlerOwned'
      BY DEF HandlerSet, HandlerOwned, TypeOK, Pipes, NoPipe
    <2>5. RunArmed'
      BY DEF RunArmed, TypeOK
    <2> QED BY <2>2, <2>3, <2>4, <2>5, <2>6
  <1> QED BY <1>1, <1>2

\* run() after the construction, and the destructor of pexec_multi.
LEMMA RunStep ==
    ASSUME IInv, NEW o \in Objects,
           RunInvalid \/ Register \/ Spawn \/ ReadSignal \/ Destroy(o)
    PROVE  IInv'
  <1> USE SigchldHandlerAssumption DEF IInv, historyVars, globalVars, objectVars, childVars,
          pipeVars
  <1>1. CASE RunInvalid
    BY <1>1 DEF RunInvalid, TypeOK, Places, PipesKnown, HandlerSet, HandlerOwned, RunArmed,
                Ready
  <1>2. CASE Register
    <2>1. TypeOK'
      BY <1>2 DEF Register, TypeOK
    <2>2. sigchld_pipe_signal # Control /\ Control \notin Pipes \cup {NoPipe}
      BY DEF TypeOK, Pipes, NoPipe, Control
    <2>3. Places' /\ PipesKnown'
      BY <1>2, <2>2 DEF Register, Places, PipesKnown
    <2>4. HandlerSet' /\ HandlerOwned'
      BY <1>2 DEF Register, HandlerSet, HandlerOwned, Ready
    <2>5. RunArmed'
      BY <1>2, <2>2 DEF Register, RunArmed, Ready, Places, TypeOK
    <2> QED BY <2>1, <2>3, <2>4, <2>5
  <1>3. CASE Spawn
    <2>1. TypeOK'
      BY <1>3 DEF Spawn, TypeOK
    <2>2. Places' /\ PipesKnown' /\ HandlerSet' /\ HandlerOwned'
      BY <1>3 DEF Spawn, Places, PipesKnown, HandlerSet, HandlerOwned, Ready
    <2>3. RunArmed'
      BY <1>3 DEF Spawn, RunArmed, Ready
    <2> QED BY <2>1, <2>2, <2>3
  <1>4. CASE ReadSignal
    <2>1. TypeOK'
      BY <1>4 DEF ReadSignal, ReapAll, TypeOK
    <2>2. Places' /\ PipesKnown' /\ HandlerSet' /\ HandlerOwned'
      BY <1>4 DEF ReadSignal, ReapAll, Places, PipesKnown, HandlerSet, HandlerOwned, Ready
    <2>3. RunArmed'
      BY <1>4 DEF ReadSignal, ReapAll, RunArmed, Ready, Places
    <2> QED BY <2>1, <2>2, <2>3
  <1>5. CASE Destroy(o)
    BY <1>5 DEF Destroy, TypeOK, Places, PipesKnown, HandlerSet, HandlerOwned, RunArmed, Ready
  <1> QED BY <1>1, <1>2, <1>3, <1>4, <1>5

\* Every way out of the loop.
LEMMA LeaveStep == ASSUME IInv, Stop \/ ReadFails \/ SelectFails PROVE IInv'
  <1> USE SigchldHandlerAssumption DEF IInv, historyVars, globalVars, objectVars, childVars,
          pipeVars
  <1>1. CASE Stop \/ ReadFails
    <2> USE <1>1 DEF Stop, ReadFails, HandleStop, LeaveDefault
    <2>1. TypeOK'
      BY DEF TypeOK
    <2>2. Places' /\ PipesKnown'
      BY DEF Places, PipesKnown, DefaultLoop
    <2>3. HandlerSet' /\ HandlerOwned'
      BY DEF HandlerSet, HandlerOwned, Ready
    <2>4. RunArmed'
      BY DEF RunArmed, Ready, Places, TypeOK
    <2> QED BY <2>1, <2>2, <2>3, <2>4
  <1>2. CASE SelectFails
    BY <1>2 DEF SelectFails, LeaveDefault, TypeOK, Places, PipesKnown, HandlerSet,
                HandlerOwned, RunArmed, Ready
  <1> QED BY <1>1, <1>2

\* Signals are raised, merged, delivered, and lost when the pipe is full.
LEMMA KernelStep ==
    ASSUME IInv, ChildExit \/ OtherSignal \/ SignalHandler PROVE IInv'
  <1> USE SigchldHandlerAssumption DEF IInv, kernelUnchanged, globalVars, objectVars,
          historyVars, Places, PipesKnown, HandlerSet, HandlerOwned, Ready
  <1>1. CASE ChildExit
    <2>1. TypeOK'
      BY <1>1 DEF ChildExit, TypeOK
    <2>2. Places' /\ PipesKnown' /\ HandlerSet' /\ HandlerOwned'
      BY <1>1 DEF ChildExit
    <2>3. RunArmed'
      BY <1>1 DEF ChildExit, RunArmed
    <2> QED BY <2>1, <2>2, <2>3
  <1>2. CASE OtherSignal
    <2>1. TypeOK'
      BY <1>2 DEF OtherSignal, childVars, TypeOK
    <2>2. Places' /\ PipesKnown' /\ HandlerSet' /\ HandlerOwned'
      BY <1>2 DEF OtherSignal, childVars
    <2>3. RunArmed'
      BY <1>2 DEF OtherSignal, childVars, RunArmed
    <2> QED BY <2>1, <2>2, <2>3
  <1>3. CASE SignalHandler
    <2>1. \A n \in 0..SigCap : Put(n) \in 0..SigCap /\ Put(n) > 0
      BY DEF Put
    <2>2. /\ signals' \in [Pipes -> 0..SigCap]
          /\ sigchld_pipe_signal \in open => signals'[sigchld_pipe_signal] > 0
      BY <1>3, <2>1 DEF SignalHandler, TypeOK
    <2>3. /\ pending' = FALSE
          /\ UNCHANGED <<globalVars, objectVars, events, handler, open, pc, childVars,
                         historyVars>>
      BY <1>3 DEF SignalHandler
    <2>4. TypeOK'
      BY <2>2, <2>3 DEF childVars, TypeOK
    <2>5. Places' /\ PipesKnown' /\ HandlerSet' /\ HandlerOwned'
      BY <2>3 DEF childVars
    <2>6. RunArmed'
      BY <2>2, <2>3 DEF childVars, RunArmed
    <2> QED BY <2>4, <2>5, <2>6
  <1> QED BY <1>1, <1>2, <1>3

\* Every step keeps the inductive invariant.
LEMMA NextIInv == IInv /\ [Next]_vars => IInv'
  <1> SUFFICES ASSUME IInv, [Next]_vars PROVE IInv'
    OBVIOUS
  <1>1. CASE Terminated \/ UNCHANGED vars
    <2> USE <1>1 DEF Terminated, vars, globalVars, objectVars, pipeVars, childVars,
                     historyVars, IInv
    <2>1. TypeOK'
      BY DEF TypeOK
    <2>2. Places' /\ PipesKnown'
      BY DEF Places, PipesKnown
    <2>3. HandlerSet' /\ HandlerOwned'
      BY DEF HandlerSet, HandlerOwned, Ready
    <2>4. RunArmed'
      BY DEF RunArmed, Ready
    <2> QED BY <2>1, <2>2, <2>3, <2>4
  <1>2. ASSUME NEW o \in Objects, MakePipe(o) \/ MakePipeFails(o) PROVE IInv'
    BY <1>2, ConstructStep
  <1>3. ASSUME NEW o \in Objects, Destroy(o) PROVE IInv'
    BY <1>3, RunStep
  <1>4. CASE SetHandler \/ SetHandlerFails \/ RunInvalid \/ Register \/ Spawn \/ ReadSignal
    <2>1. obj \cup batch # {} /\ obj \cup batch \subseteq Objects
      BY <1>4 DEF SetHandler, SetHandlerFails, RunInvalid, Register, Spawn, ReadSignal,
                  IInv, TypeOK, Places
    <2>2. PICK o \in Objects : o \in obj \cup batch
      BY <2>1
    <2> QED BY <1>4, <2>2, ConstructStep, RunStep
  <1>5. CASE AssignToEmpty \/ ResetInactive \/ ResetFails
    BY <1>5, NoResetStep
  <1>6. CASE ResetHandler \/ CloseOld
    BY <1>6, ResetStep
  <1>7. CASE Stop \/ ReadFails \/ SelectFails
    BY <1>7, LeaveStep
  <1>8. CASE ChildExit \/ OtherSignal \/ SignalHandler
    BY <1>8, KernelStep
  <1> QED BY <1>1, <1>2, <1>3, <1>4, <1>5, <1>6, <1>7, <1>8 DEF Next, Thread, Loop

\* The inductive invariant holds for ever, for any objects, children and pipes.
THEOREM Inductive == Spec => []IInv
  BY InitIInv, NextIInv, PTL DEF Spec

\* sigchld_signal_handler never writes to a pipe that is closed, nor to -1, unless a
\* run() has found it installed already.
THEOREM PipeForHandler == Spec => []HandlerHasPipe
  <1>1. IInv => HandlerHasPipe
    BY DEF IInv, HandlerSet, HandlerHasPipe, Ready, TypeOK
  <1> QED BY <1>1, Inductive, PTL

\* Every loop that runs watches the pipe of the installed handler, until a handler
\* object older than its own is destroyed.
THEOREM LoopArmed == Spec => []Armed
  <1>1. IInv => Armed
    BY DEF IInv, RunArmed, Armed
  <1> QED BY <1>1, Inductive, PTL

\* When no handler object is left the program is as before the first run(), or a
\* reset has failed and was reported, or a run() had found the handler installed.
THEOREM DispositionBack == Spec => []Restored
  <1>1. IInv => Restored
    BY DEF IInv, TypeOK, Places, PipesKnown, HandlerSet, HandlerOwned, Restored, Ready
  <1> QED BY <1>1, Inductive, PTL

\* No exit of a child is missed for want of a signal, in a loop that is armed.
THEOREM ExitsFound == Spec => []NoLostExit
  <1>1. IInv => NoLostExit
    BY DEF IInv, RunArmed, NoLostExit, Ready
  <1> QED BY <1>1, Inductive, PTL
=============================================================================
