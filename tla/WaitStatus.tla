----------------------------- MODULE WaitStatus -----------------------------
(***************************************************************************)
(* The 16-bit status of ::waitpid, and what proc_status::update_status     *)
(* makes of it.  The words are those of Linux: what the kernel puts into   *)
(* them and what the macros of <sys/wait.h> take out is external.          *)
(***************************************************************************)
EXTENDS Integers

MaxWord == 65535
Words == 0..MaxWord
Codes8 == 0..255           \* exit codes: the least significant 8 bits
Signals == 1..64

\* A child that exited, one killed by a signal, one stopped, one continued.
ExitWord(n) == n * 256
KillWord(sig, core) == sig + (IF core THEN 128 ELSE 0)
StopWord(sig) == sig * 256 + 127
ContinuedWord == 65535

WTERMSIG(status) == status % 128
LowByte(status) == status % 256
WEXITSTATUS(status) == (status \div 256) % 256
WIFEXITED(status) == WTERMSIG(status) = 0

\* ((signed char) ((status & 0x7f) + 1) >> 1) > 0
SignedChar(n) == IF n > 127 THEN n - 256 ELSE n
WIFSIGNALED(status) == SignedChar(WTERMSIG(status) + 1) \div 2 > 0

\* The fields of proc_status that update_status assigns; stopped, continued and
\* the core dump are set without WUNTRACED and WCONTINUED to no effect.
ProcStatus == [exited : BOOLEAN, return_code : Codes8,
               signaled : BOOLEAN, signaled_signal : 0..127, running : BOOLEAN]

NoStatus == [exited |-> FALSE, return_code |-> 0,
             signaled |-> FALSE, signaled_signal |-> 0, running |-> FALSE]

\* The code and the signal keep what they were when they do not apply.
UpdateStatus(proc, status) ==
    [exited          |-> WIFEXITED(status),
     return_code     |-> IF WIFEXITED(status) THEN WEXITSTATUS(status)
                         ELSE proc.return_code,
     signaled        |-> WIFSIGNALED(status),
     signaled_signal |-> IF WIFSIGNALED(status) THEN WTERMSIG(status)
                         ELSE proc.signaled_signal,
     running         |-> ~(WIFSIGNALED(status) \/ WIFEXITED(status))]
=============================================================================
