----------------------------- MODULE SystemCalls -----------------------------
(***************************************************************************)
(* examples/systemcalls/systemcalls.c: the threads of a program run        *)
(* commands with do_system, do_exec and do_exec_redirect.  Its process has *)
(* a descriptor table and the buffer of stdout, both of which fork copies. *)
(* The command is writer (Writer.tla), or a path that does not exist.      *)
(***************************************************************************)
EXTENDS Integers, SequencesExt

CONSTANTS
  Caller,       \* the threads that call these functions
  Command,      \* of "writer" and "missing", those they run
  Failures,     \* the calls that may fail: "open", "fork", "waitpid", "dup2",
                \* and those of Writer.tla
  Std,          \* the standard descriptors that are open
  NoCall        \* a thread that is in none of the functions

ASSUME CallerAssumption == IsFiniteSet(Caller)

VARIABLES
  proc,         \* the program: running or aborted
  fds,          \* its descriptor table
  stdio,        \* who has printed what the buffer of stdout holds
  pc,           \* per caller, where it is
  call,         \* per caller, the function it is in, or was last in
  fd,           \* per caller, the local of do_exec_redirect
  child,        \* per caller, the process its call has forked
  result,       \* per caller, what its last call has returned
  unforked      \* history: the callers whose redirected fork has failed

vars == <<proc, fds, stdio, pc, call, fd, child, result, unforked>>

Program == INSTANCE Writer

Closed == [kind |-> "closed"]
Tty    == [kind |-> "tty"]
Output(t) == [kind |-> "output", of |-> t]

Fd == 0 .. 2 + 2 * Cardinality(Caller)

NoChild ==
  [state |-> "none", code |-> 0, did |-> "nothing", fds |-> <<>>, stdio |-> <<>>]

Reaped(c) ==
  [state |-> "reaped", code |-> 0, did |-> c.did, fds |-> <<>>, stdio |-> <<>>]

Places == {"idle", "open", "flush", "fork", "wait", "close"}

Init ==
  /\ proc = "running"
  /\ fds = [n \in Fd |-> IF n \in Std THEN Tty ELSE Closed]
  /\ stdio = <<>>
  /\ pc = [t \in Caller |-> "idle"]
  /\ call = [t \in Caller |-> NoCall]
  /\ fd = [t \in Caller |-> 0]
  /\ child = [t \in Caller |-> NoChild]
  /\ result = [t \in Caller |-> FALSE]
  /\ unforked = {}

At(t, place) == proc = "running" /\ pc[t] = place
Goto(t, place) == pc' = [pc EXCEPT ![t] = place]

\* return r
Return(t, r) == Goto(t, "idle") /\ result' = [result EXCEPT ![t] = r]

----------------------------------------------------------------------------
(* The functions.                                                          *)

Enter(t, fn, command) ==
  /\ At(t, "idle")
  /\ call' = [call EXCEPT ![t] = [fn |-> fn, command |-> command]]
  /\ child' = [child EXCEPT ![t] = NoChild]
  /\ fd' = [fd EXCEPT ![t] = 0]
  /\ result' = [result EXCEPT ![t] = FALSE]
  /\ Goto(t, CASE fn = "do_system" -> "fork" [] fn = "do_exec" -> "flush"
               [] fn = "do_exec_redirect" -> "open")
  /\ UNCHANGED <<proc, fds, stdio, unforked>>

\* open of the output file, which takes the lowest free descriptor.
OpenOutput(t) ==
  /\ At(t, "open")
  /\ \E n \in Fd :
       /\ fds[n] = Closed /\ \A m \in Fd : fds[m] = Closed => n <= m
       /\ fd' = [fd EXCEPT ![t] = n]
       /\ fds' = [fds EXCEPT ![n] = Output(t)]
  /\ Goto(t, "flush")
  /\ UNCHANGED <<proc, stdio, call, child, result, unforked>>

\* Regression: the result of open is not looked at.
OpenFailsUnnoticed(t) ==
  /\ At(t, "open") /\ "open" \in Failures
  /\ fd' = [fd EXCEPT ![t] = -1]
  /\ Goto(t, "flush")
  /\ UNCHANGED <<proc, fds, stdio, call, child, result, unforked>>

\* The open fails, at the latest when the table is full: the whole program
\* aborts.
OpenFails(t) ==
  /\ At(t, "open")
  /\ "open" \in Failures \/ \A n \in Fd : fds[n] # Closed
  /\ proc' = "aborted"
  /\ UNCHANGED <<fds, stdio, pc, call, fd, child, result, unforked>>

\* Regression: stdout is not flushed before the fork.
FlushNothing(t) ==
  /\ At(t, "flush")
  /\ Goto(t, "fork")
  /\ UNCHANGED <<proc, fds, stdio, call, fd, child, result, unforked>>

\* fflush(stdout)
Flush(t) ==
  /\ At(t, "flush")
  /\ stdio' = <<>>
  /\ Goto(t, "fork")
  /\ UNCHANGED <<proc, fds, call, fd, child, result, unforked>>

\* system forks a shell, which starts without the buffer of stdout.
Fork(t) ==
  /\ At(t, "fork")
  /\ child' = [child EXCEPT ![t] =
       [state |-> IF call[t].fn = "do_exec_redirect" THEN "dup2" ELSE "exec",
        fds   |-> fds,
        stdio |-> IF call[t].fn = "do_system" THEN <<>> ELSE stdio,
        code  |-> 0, did |-> "nothing"]]
  /\ Goto(t, "wait")
  /\ UNCHANGED <<proc, fds, stdio, call, fd, result, unforked>>

\* fork fails: the output file stays open.
ForkFails(t) ==
  /\ At(t, "fork") /\ "fork" \in Failures
  /\ Return(t, FALSE)
  /\ unforked' = IF call[t].fn = "do_exec_redirect" THEN unforked \cup {t}
                 ELSE unforked
  /\ UNCHANGED <<proc, fds, stdio, call, fd, child>>

\* Regression: a command that exits has succeeded.
SucceededIfExited(code) == code >= 0

\* WIFEXITED and WEXITSTATUS; -1 stands for a signal that ended the child.
Succeeded(code) == code = 0

AfterWait(t, r) ==
  IF call[t].fn = "do_exec_redirect"
  THEN Goto(t, "close") /\ result' = [result EXCEPT ![t] = r]
  ELSE Return(t, r)

\* waitpid, or system's own wait, gets the status.
Wait(t) ==
  /\ At(t, "wait") /\ child[t].state = "zombie"
  /\ child' = [child EXCEPT ![t] = Reaped(@)]
  /\ AfterWait(t, Succeeded(child[t].code))
  /\ UNCHANGED <<proc, fds, stdio, call, fd, unforked>>

\* waitpid is interrupted: status is whatever was on the stack.
WaitInterrupted(t) ==
  /\ At(t, "wait") /\ call[t].fn # "do_system" /\ "waitpid" \in Failures
  /\ \E r \in BOOLEAN : AfterWait(t, r)
  /\ UNCHANGED <<proc, fds, stdio, call, fd, child, unforked>>

\* Regression: the parent does not close its descriptor.
CloseForgotten(t) ==
  /\ At(t, "close")
  /\ Goto(t, "idle")
  /\ UNCHANGED <<proc, fds, stdio, call, fd, child, result, unforked>>

CloseOutput(t) ==
  /\ At(t, "close")
  /\ fds' = [fds EXCEPT ![fd[t]] = Closed]
  /\ Goto(t, "idle")
  /\ UNCHANGED <<proc, stdio, call, fd, child, result, unforked>>

InCall(t) == OpenOutput(t) \/ Flush(t) \/ Fork(t) \/ Wait(t) \/ CloseOutput(t)
Fails(t) == OpenFails(t) \/ ForkFails(t) \/ WaitInterrupted(t)

----------------------------------------------------------------------------
(* The child.                                                              *)

\* Regression: the descriptor is closed before it is duplicated.
DupClosed(c, n) == [c EXCEPT !.fds[n] = Closed, !.fds[1] = Closed]

\* dup2(fd, 1) and close(fd)
Dup(c, n) ==
  LET dup == [c.fds EXCEPT ![1] = c.fds[n]]
  IN  [c EXCEPT !.fds = [dup EXCEPT ![n] = Closed]]

Redirect(t) ==
  /\ child[t].state = "dup2"
  /\ child' = [child EXCEPT ![t] = [Dup(@, fd[t]) EXCEPT !.state = "exec"]]

\* dup2 fails: the child aborts.
RedirectFails(t) ==
  /\ child[t].state = "dup2" /\ "dup2" \in Failures
  /\ child' = [child EXCEPT ![t] = Program!Exit(@, -1)]

\* execv, or the shell of system, starts the command.
Exec(t) ==
  /\ child[t].state = "exec" /\ call[t].command # "missing"
  /\ child' = [child EXCEPT ![t].state = "main", ![t].stdio = <<>>]

\* execv fails and the child exits with -1, or the shell with 127.
ExecFails(t) ==
  /\ child[t].state = "exec" /\ call[t].command = "missing"
  /\ child' = [child EXCEPT ![t] =
                 Program!Exit(@, IF call[t].fn = "do_system" THEN 127 ELSE 255)]

Runs(t) ==
  \E next \in Program!Step(child[t]) :
    child' = [child EXCEPT ![t] = next]

\* A signal ends the command.
Killed(t) ==
  /\ child[t].state \in {"main", "open", "write", "close"}
  /\ child' = [child EXCEPT ![t] = Program!Exit(@, -1)]

Child(t) ==
  /\ Redirect(t) \/ RedirectFails(t) \/ Exec(t) \/ ExecFails(t) \/ Runs(t) \/ Killed(t)
  /\ UNCHANGED <<proc, fds, stdio, pc, call, fd, result, unforked>>
=============================================================================
