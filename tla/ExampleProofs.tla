---------------------------- MODULE ExampleProofs ----------------------------
(***************************************************************************)
(* The invariants of a program on top of examples/, for any number of      *)
(* callers, started threads and calls, any commands and any failures.      *)
(***************************************************************************)
EXTENDS ExamplePrograms, SequenceTheorems, FiniteSetTheorems, TLAPS

File == {Closed, Tty} \cup {Output(t) : t \in Caller}

CommandCall == [fn : Function, command : Command]
StartCall   == [fn : {"start_thread_obtaining_mutex"}, thread : Starts]

\* A forked process that has not ended.
Alive == {"dup2", "exec", "main", "open", "write", "close"}
Done  == {"all", "part"}

Process ==
  [state : Alive \cup {"none", "zombie", "reaped"},
   code  : {-1, 0, 1, 127, 255},
   did   : Done \cup {"nothing", "truncated"},
   fds   : {<<>>} \cup [Fd -> File],
   stdio : Seq(Caller)]

Data == [memory : {"none", "live", "freed"}, thread_complete_success : BOOLEAN]

\* The types, in full.
Typed ==
  /\ proc \in {"running", "aborted"}
  /\ fds \in [Fd -> File]
  /\ stdio \in Seq(Caller)
  /\ pc \in [Caller -> Places \cup {"malloc", "create"}]
  /\ call \in [Caller -> {NoCall} \cup CommandCall \cup StartCall]
  /\ fd \in [Caller -> Fd]
  /\ child \in [Caller -> Process]
  /\ result \in [Caller -> BOOLEAN]
  /\ unforked \subseteq Caller
  /\ place \in [Starts -> Threads!ThreadPlaces]
  /\ args \in [Starts -> Data]
  /\ mutex \in Starts \cup Caller \cup {NoThread}
  /\ calls \in 0 .. MaxCalls

\* What is in call[t] and child[t] where t is.
CallMatches(t) ==
  /\ pc[t] \in {"open", "flush", "fork", "wait", "close"} => call[t] \in CommandCall
  /\ pc[t] \in {"open", "close"} => call[t].fn = "do_exec_redirect"
  /\ pc[t] \in {"malloc", "create"} => call[t] \in StartCall
  /\ pc[t] \in {"malloc", "create"} => child[t].state \in {"none", "reaped"}
  /\ pc[t] \in {"open", "flush", "fork"} => child[t].state = "none"
  /\ pc[t] = "wait" => child[t].state \in Alive \cup {"zombie"}
  /\ child[t].state \in Alive \cup {"zombie"} => call[t] \in CommandCall
  /\ child[t].state \in Alive => child[t].fds \in [Fd -> File]
  /\ child[t].state = "dup2" => call[t].fn = "do_exec_redirect"

TypeInv == Typed /\ \A t \in Caller : CallMatches(t)

----------------------------------------------------------------------------
(* Lemmas about the operators.                                             *)

\* The output file of a call is none of the others, nor the terminal.
LEMMA OutputIsOwn ==
  /\ Closed # Tty
  /\ \A t : Output(t) # Closed /\ Output(t) # Tty
  /\ \A t, u : Output(t) = Output(u) => t = u
<1>1. Closed # Tty
  <2>1. Closed.kind # Tty.kind
    BY DEF Closed, Tty
  <2> QED
    BY <2>1
<1>2. ASSUME NEW t PROVE Output(t) # Closed /\ Output(t) # Tty
  <2>1. Output(t).kind # Closed.kind /\ Output(t).kind # Tty.kind
    BY DEF Output, Closed, Tty
  <2> QED
    BY <2>1
<1>3. ASSUME NEW t, NEW u, Output(t) = Output(u) PROVE t = u
  <2>1. Output(t).of = Output(u).of
    BY <1>3
  <2> QED
    BY <2>1 DEF Output
<1> QED
  BY <1>1, <1>2, <1>3

\* A descriptor table has the three standard descriptors.
LEMMA StdoutIsFd == Fd \subseteq Nat /\ {0, 1, 2} \subseteq Fd
<1>1. Cardinality(Caller) \in Nat
  BY CallerAssumption, FS_CardinalityType
<1> QED
  BY <1>1 DEF Fd

\* What is left of a process that has ended is a zombie.
LEMMA ExitLeaves ==
  ASSUME NEW p \in Process, NEW code \in {-1, 0, 1, 127, 255}
  PROVE  /\ Program!Exit(p, code) \in Process
         /\ Program!Exit(p, code).state = "zombie"
         /\ Program!Exit(p, code).code = code
         /\ Program!Exit(p, code).did = p.did
<1>1. <<>> \in Seq(Caller)
  OBVIOUS
<1> QED
  BY <1>1 DEF Program!Exit, Process

\* What is left of a caller's child once waitpid has got its status.
LEMMA ReapedFields ==
  ASSUME NEW p \in Process
  PROVE  Reaped(p) \in Process /\ Reaped(p).state = "reaped" /\ Reaped(p).did = p.did
<1>1. <<>> \in Seq(Caller)
  OBVIOUS
<1> QED
  BY <1>1 DEF Reaped, Process

\* A step of writer keeps the descriptors of a process that goes on, and
\* writer is at its close, or exits with 0, only after it has written.
LEMMA WriterStep ==
  ASSUME NEW p \in Process, NEW next \in Program!Step(p)
  PROVE  /\ next \in Process
         /\ p.state \in {"main", "open", "write", "close"}
         /\ \/ next.state \in {"open", "write", "close"} /\ next.fds = p.fds
            \/ next.state = "zombie"
         /\ next.state = "close" => next.did \in Done
         /\ next.state = "zombie" /\ next.code = 0 =>
              p.state = "close" /\ next.did = p.did
<1>1. p.state = "main" \/ p.state = "open" \/ p.state = "write" \/ p.state = "close"
  BY DEF Program!Step
<1>2. CASE p.state = "main"
  <2>1. next \in Program!CheckArguments(p)
    BY <1>2 DEF Program!Step
  <2>2. CASE next = Program!Exit(p, 1)
    BY <1>2, <2>2, ExitLeaves
  <2>3. CASE next = [p EXCEPT !.state = "open"]
    BY <1>2, <2>3 DEF Process, Alive
  <2> QED
    BY <2>1, <2>2, <2>3 DEF Program!CheckArguments
<1>3. CASE p.state = "open"
  <2>1. next \in Program!OpenFile(p)
    BY <1>3 DEF Program!Step
  <2>2. CASE next = Program!Exit(p, 1)
    BY <1>3, <2>2, ExitLeaves
  <2>3. CASE next = [p EXCEPT !.state = "write", !.did = "truncated"]
    BY <1>3, <2>3 DEF Process, Alive
  <2> QED
    BY <2>1, <2>2, <2>3 DEF Program!OpenFile, Program!Or
<1>4. CASE p.state = "write"
  <2>1. next \in Program!WriteString(p)
    BY <1>4 DEF Program!Step
  <2>2. CASE next = Program!Exit(p, 1)
    BY <1>4, <2>2, ExitLeaves
  <2>3. ASSUME NEW amount \in {"all", "part"},
               next = [p EXCEPT !.state = "close", !.did = amount]
        PROVE  /\ next \in Process
               /\ next.state = "close" /\ next.fds = p.fds
               /\ next.did \in Done
    BY <2>3 DEF Process, Alive, Done
  <2> QED
    BY <1>4, <2>1, <2>2, <2>3 DEF Program!WriteString, Program!Or
<1>5. CASE p.state = "close"
  <2>1. next = Program!Exit(p, 0)
    BY <1>5 DEF Program!Step, Program!CloseFile
  <2> QED
    BY <1>5, <2>1, ExitLeaves
<1> QED
  BY <1>1, <1>2, <1>3, <1>4, <1>5

----------------------------------------------------------------------------
(* Types.                                                                  *)

\* The initial state is typed.
LEMMA InitTyped == InitPrograms => TypeInv
<1> SUFFICES ASSUME InitPrograms PROVE TypeInv
  OBVIOUS
<1> USE DEF InitPrograms, Init, Threads!Init
<1>1. fds \in [Fd -> File]
  BY DEF File
<1>2. NoChild \in Process /\ NoChild.state = "none"
  BY DEF NoChild, Process
<1>3. 0 \in Fd
  BY StdoutIsFd
<1>4. Typed
  BY <1>1, <1>2, <1>3, MaxCallsAssumption
  DEF Typed, Places, Threads!NoData, Threads!ThreadPlaces, Data
<1>5. ASSUME NEW t \in Caller PROVE CallMatches(t)
  BY <1>2 DEF CallMatches, Alive
<1> QED
  BY <1>4, <1>5 DEF TypeInv

\* A caller that moves on, in one of the functions or into one, disturbs no
\* other caller.
LEMMA CallerMoves ==
  ASSUME TypeInv, NEW t \in Caller, CallMatches(t)',
         \A u \in Caller \ {t} :
           pc'[u] = pc[u] /\ call'[u] = call[u] /\ child'[u] = child[u]
  PROVE  \A u \in Caller : CallMatches(u)'
<1> TAKE u \in Caller
<1>1. CASE u = t
  BY <1>1
<1>2. CASE u # t
  BY <1>2 DEF TypeInv, CallMatches
<1> QED
  BY <1>1, <1>2

\* The steps of do_system, do_exec and do_exec_redirect.
LEMMA CommandKeepsTypes ==
  ASSUME TypeInv, NEW t \in Caller,
         InCall(t) \/ Fails(t), UNCHANGED <<place, args, mutex, calls>>
  PROVE  TypeInv'
<1> USE DEF At, Goto, Return
<1>1. CASE OpenOutput(t)
  <2>1. PICK n \in Fd : fd' = [fd EXCEPT ![t] = n] /\ fds' = [fds EXCEPT ![n] = Output(t)]
    BY <1>1 DEF OpenOutput
  <2>2. Typed'
    BY <1>1, <2>1 DEF OpenOutput, TypeInv, Typed, File, Places
  <2>3. CallMatches(t)'
    BY <1>1 DEF OpenOutput, TypeInv, Typed, CallMatches, Alive
  <2> QED
    BY <1>1, <2>2, <2>3, CallerMoves DEF OpenOutput, TypeInv, Typed
<1>2. CASE Flush(t)
  <2>1. Typed'
    BY <1>2 DEF Flush, TypeInv, Typed, Places
  <2>2. CallMatches(t)'
    BY <1>2 DEF Flush, TypeInv, Typed, CallMatches, Alive
  <2> QED
    BY <1>2, <2>1, <2>2, CallerMoves DEF Flush, TypeInv, Typed
<1>3. CASE Fork(t)
  <2>1. child'[t] \in Process
    BY <1>3 DEF Fork, TypeInv, Typed, Process, Alive
  <2>2. child'[t].state \in {"dup2", "exec"} /\ child'[t].fds = fds
    BY <1>3 DEF Fork, TypeInv, Typed
  <2>3. Typed'
    BY <1>3, <2>1 DEF Fork, TypeInv, Typed, Places
  <2>4. CallMatches(t)'
    BY <1>3, <2>2 DEF Fork, TypeInv, Typed, CallMatches, Alive
  <2> QED
    BY <1>3, <2>3, <2>4, CallerMoves DEF Fork, TypeInv, Typed
<1>4. CASE Wait(t)
  <2>1. child'[t] \in Process /\ child'[t].state = "reaped"
    BY <1>4, ReapedFields DEF Wait, TypeInv, Typed
  <2>2. Succeeded(child[t].code) \in BOOLEAN
    BY DEF Succeeded
  <2>3. Typed'
    BY <1>4, <2>1, <2>2 DEF Wait, AfterWait, TypeInv, Typed, Places
  <2>4. CallMatches(t)'
    BY <1>4, <2>1 DEF Wait, AfterWait, TypeInv, Typed, CallMatches, Alive
  <2> QED
    BY <1>4, <2>3, <2>4, CallerMoves DEF Wait, AfterWait, TypeInv, Typed
<1>5. CASE CloseOutput(t)
  <2>1. Typed'
    BY <1>5 DEF CloseOutput, TypeInv, Typed, Places, File
  <2>2. CallMatches(t)'
    BY <1>5 DEF CloseOutput, TypeInv, Typed, CallMatches, Alive
  <2> QED
    BY <1>5, <2>1, <2>2, CallerMoves DEF CloseOutput, TypeInv, Typed
<1>6. CASE OpenFails(t)
  BY <1>6 DEF OpenFails, TypeInv, Typed, CallMatches
<1>7. CASE ForkFails(t)
  <2>1. Typed'
    BY <1>7 DEF ForkFails, TypeInv, Typed, Places
  <2>2. CallMatches(t)'
    BY <1>7 DEF ForkFails, TypeInv, Typed, CallMatches, Alive
  <2> QED
    BY <1>7, <2>1, <2>2, CallerMoves DEF ForkFails, TypeInv, Typed
<1>8. CASE WaitInterrupted(t)
  <2>1. PICK r \in BOOLEAN : AfterWait(t, r)
    BY <1>8 DEF WaitInterrupted
  <2>2. Typed'
    BY <1>8, <2>1 DEF WaitInterrupted, AfterWait, TypeInv, Typed, Places
  <2>3. CallMatches(t)'
    BY <1>8, <2>1 DEF WaitInterrupted, AfterWait, TypeInv, Typed, CallMatches, Alive
  <2> QED
    BY <1>8, <2>1, <2>2, <2>3, CallerMoves DEF WaitInterrupted, AfterWait, TypeInv, Typed
<1> QED
  BY <1>1, <1>2, <1>3, <1>4, <1>5, <1>6, <1>7, <1>8 DEF InCall, Fails

\* The table of a child after dup2(n, 1) and close(n).
Redirected(table, n) == [[table EXCEPT ![1] = table[n]] EXCEPT ![n] = Closed]

\* What a step of a forked process p, redirected to n, makes of it.
Follows(p, n, next) ==
  /\ next \in Process
  /\ next.state \in (Alive \ {"dup2"}) \cup {"zombie"}
  /\ next.state \in Alive =>
       /\ next.fds \in [Fd -> File]
       /\ next.fds = IF p.state = "dup2" THEN Redirected(p.fds, n) ELSE p.fds
  /\ next.state = "exec" => p.state = "dup2" /\ next.stdio = p.stdio
  /\ next.state = "close" => next.did \in Done
  /\ next.state = "zombie" /\ next.code = 0 => p.state = "close" /\ next.did = p.did

\* The steps of the forked process: it keeps who and what it was forked for.
LEMMA ChildStep ==
  ASSUME TypeInv, NEW t \in Caller, Child(t)
  PROVE  /\ child[t].state \in Alive
         /\ \E next \in Process :
              Follows(child[t], fd[t], next) /\ child' = [child EXCEPT ![t] = next]
<1> DEFINE p == child[t]
<1>1. p \in Process /\ (p.state \in Alive => p.fds \in [Fd -> File])
  BY DEF TypeInv, Typed, CallMatches
<1>2. ASSUME NEW code \in {-1, 127, 255}, child' = [child EXCEPT ![t] = Program!Exit(p, code)]
      PROVE  \E next \in Process :
               Follows(p, fd[t], next) /\ child' = [child EXCEPT ![t] = next]
  <2>1. /\ Program!Exit(p, code) \in Process
        /\ Program!Exit(p, code).state = "zombie"
        /\ Program!Exit(p, code).code # 0
    BY <1>1, ExitLeaves
  <2>2. Follows(p, fd[t], Program!Exit(p, code))
    BY <2>1 DEF Follows, Alive
  <2> USE <2>1
  <2> WITNESS Program!Exit(p, code) \in Process
  <2> QED
    BY <1>2, <2>2
<1>3. CASE Redirect(t)
  <2>1. fd[t] \in Fd /\ 1 \in Fd /\ p.fds \in [Fd -> File]
    BY <1>1, <1>3, StdoutIsFd DEF Redirect, TypeInv, Typed, Alive
  <2> DEFINE table == Redirected(p.fds, fd[t])
             next == [[p EXCEPT !.fds = table] EXCEPT !.state = "exec"]
  <2>2. table \in [Fd -> File]
    BY <2>1 DEF File, Redirected
  <2>3. next \in Process /\ next.state = "exec" /\ next.fds = table /\ next.stdio = p.stdio
    <3> HIDE DEF table
    <3> QED
      BY <1>1, <2>2 DEF Process, Alive
  <2>4. child' = [child EXCEPT ![t] = next]
    BY <1>3 DEF Redirect, Dup, Redirected
  <2>5. Follows(p, fd[t], next)
    <3> HIDE DEF next, table
    <3> QED
      BY <1>3, <2>2, <2>3 DEF Follows, Redirect, Alive, table
  <2> QED
    BY <1>3, <2>3, <2>4, <2>5 DEF Redirect, Alive
<1>4. CASE RedirectFails(t) \/ Killed(t)
  BY <1>2, <1>4 DEF RedirectFails, Killed, Alive
<1>5. CASE Exec(t)
  <2> DEFINE next == [[p EXCEPT !.state = "main"] EXCEPT !.stdio = <<>>]
  <2>1. next \in Process /\ next.state = "main" /\ next.fds = p.fds
    <3>1. <<>> \in Seq(Caller)
      OBVIOUS
    <3> QED
      BY <1>1, <3>1 DEF Process, Alive
  <2>2. child' = [child EXCEPT ![t] = next]
    BY <1>5 DEF Exec, TypeInv, Typed
  <2>3. Follows(p, fd[t], next)
    <3> HIDE DEF next
    <3> QED
      BY <1>1, <1>5, <2>1 DEF Follows, Exec, Alive
  <2> QED
    BY <1>5, <2>1, <2>2, <2>3 DEF Exec, Alive
<1>6. CASE ExecFails(t)
  <2>1. \E code \in {127, 255} : child' = [child EXCEPT ![t] = Program!Exit(p, code)]
    BY <1>6 DEF ExecFails
  <2> QED
    BY <1>2, <1>6, <2>1 DEF ExecFails, Alive
<1>7. CASE Runs(t)
  <2>1. PICK next \in Program!Step(p) : child' = [child EXCEPT ![t] = next]
    BY <1>7 DEF Runs
  <2>2. Follows(p, fd[t], next) /\ next \in Process /\ p.state \in Alive
    BY <1>1, <2>1, WriterStep DEF Follows, Alive
  <2> QED
    BY <2>1, <2>2
<1> QED
  BY <1>3, <1>4, <1>5, <1>6, <1>7 DEF Child

\* A step of a forked process disturbs no type.
LEMMA ChildKeepsTypes ==
  ASSUME TypeInv, NEW t \in Caller, Child(t), UNCHANGED <<place, args, mutex, calls>>
  PROVE  TypeInv'
<1>1. PICK next \in Process :
        Follows(child[t], fd[t], next) /\ child' = [child EXCEPT ![t] = next]
  BY ChildStep
<1>2. child[t].state \in Alive
  BY ChildStep
<1>3. Typed'
  BY <1>1 DEF Child, TypeInv, Typed
<1>4. CallMatches(t)'
  BY <1>1, <1>2 DEF Follows, Child, TypeInv, Typed, CallMatches, Alive
<1> QED
  BY <1>1, <1>3, <1>4, CallerMoves DEF Child, TypeInv, Typed

\* A caller enters one of the functions.
LEMMA CallsKeepTypes ==
  ASSUME TypeInv, NEW t \in Caller, Calls(t)
  PROVE  TypeInv'
<1>1. calls' \in 0 .. MaxCalls
  BY MaxCallsAssumption DEF Calls, TypeInv, Typed
<1>2. ASSUME NEW fn \in Function, NEW command \in Command, Enter(t, fn, command),
             UNCHANGED <<place, args, mutex>>
      PROVE  TypeInv'
  <2>1. NoChild \in Process /\ NoChild.state = "none"
    BY DEF NoChild, Process
  <2>2. PICK to \in {"fork", "flush", "open"} :
          pc' = [pc EXCEPT ![t] = to] /\ (to = "open" => fn = "do_exec_redirect")
    BY <1>2 DEF Enter, Goto, Function
  <2>3. 0 \in Fd
    BY StdoutIsFd
  <2>4. Typed'
    BY <1>1, <1>2, <2>1, <2>2, <2>3 DEF Enter, TypeInv, Typed, CommandCall, Places
  <2>5. CallMatches(t)'
    BY <1>2, <2>1, <2>2 DEF Enter, TypeInv, Typed, CallMatches, CommandCall, Alive
  <2> QED
    BY <1>2, <2>2, <2>4, <2>5, CallerMoves DEF Enter, TypeInv, Typed
<1>3. ASSUME NEW w \in Starts, Threads!Start(t, w), proc = "running",
             child[t].state \in {"none", "reaped"},
             UNCHANGED <<proc, fds, fd, child, unforked>>
      PROVE  TypeInv'
  <2>1. Typed'
    BY <1>1, <1>3 DEF Threads!Start, Threads!Goto, TypeInv, Typed, StartCall
  <2>2. CallMatches(t)'
    BY <1>3 DEF Threads!Start, Threads!Goto, TypeInv, Typed, CallMatches, StartCall, Alive
  <2> QED
    BY <1>3, <2>1, <2>2, CallerMoves DEF Threads!Start, Threads!Goto, TypeInv, Typed
<1> QED
  BY <1>2, <1>3 DEF Calls

\* The steps of start_thread_obtaining_mutex and of the threads it starts.
LEMMA StartingKeepsTypes ==
  ASSUME TypeInv, NEW t \in Caller, Threads!Starting(t) \/ Threads!Fails(t),
         UNCHANGED <<proc, fds, fd, child, unforked, calls>>
  PROVE  TypeInv'
<1> USE DEF Threads!Goto, Threads!Return
<1>1. pc[t] \in {"malloc", "create"} => call[t].thread \in Starts
  BY DEF TypeInv, CallMatches, StartCall
<1>2. ASSUME Threads!ErrorLog(t) PROVE stdio' \in Seq(Caller)
  BY <1>2 DEF Threads!ErrorLog, TypeInv, Typed
<1>3. CASE Threads!Malloc(t)
  <2>1. Threads!NewData \in Data
    BY DEF Threads!NewData, Data
  <2>2. Typed'
    BY <1>1, <1>3, <2>1 DEF Threads!Malloc, TypeInv, Typed
  <2>3. CallMatches(t)'
    BY <1>3 DEF Threads!Malloc, TypeInv, Typed, CallMatches, Alive
  <2> QED
    BY <1>3, <2>2, <2>3, CallerMoves DEF Threads!Malloc, TypeInv, Typed
<1>4. CASE Threads!MallocFails(t)
  <2>1. Typed'
    BY <1>2, <1>4 DEF Threads!MallocFails, TypeInv, Typed, Places
  <2>2. CallMatches(t)'
    BY <1>4 DEF Threads!MallocFails, TypeInv, Typed, CallMatches, Alive
  <2> QED
    BY <1>4, <2>1, <2>2, CallerMoves DEF Threads!MallocFails, TypeInv, Typed
<1>5. CASE Threads!Create(t)
  <2>1. Typed'
    BY <1>1, <1>5 DEF Threads!Create, TypeInv, Typed, Places, Threads!ThreadPlaces
  <2>2. CallMatches(t)'
    BY <1>5 DEF Threads!Create, TypeInv, Typed, CallMatches, Alive
  <2> QED
    BY <1>5, <2>1, <2>2, CallerMoves DEF Threads!Create, TypeInv, Typed
<1>6. CASE Threads!CreateFails(t)
  <2>1. args' \in [Starts -> Data]
    BY <1>1, <1>6 DEF Threads!CreateFails, Threads!Freed, TypeInv, Typed, Data
  <2>2. Typed'
    BY <1>2, <1>6, <2>1 DEF Threads!CreateFails, TypeInv, Typed, Places
  <2>3. CallMatches(t)'
    BY <1>6 DEF Threads!CreateFails, TypeInv, Typed, CallMatches, Alive
  <2> QED
    BY <1>6, <2>2, <2>3, CallerMoves DEF Threads!CreateFails, TypeInv, Typed
<1> QED
  BY <1>3, <1>4, <1>5, <1>6 DEF Threads!Starting, Threads!Fails

\* The steps of threadfunc.
LEMMA ThreadKeepsTypes ==
  ASSUME TypeInv, NEW w \in Starts, Threads!ThreadFunc(w) \/ Threads!Join(w),
         UNCHANGED <<proc, fds, fd, child, unforked, calls>>
  PROVE  TypeInv'
<1> USE DEF Threads!Move, Threads!callers, TypeInv, Typed, CallMatches, Threads!ThreadPlaces
<1>1. CASE Threads!WaitToObtain(w)
  BY <1>1 DEF Threads!WaitToObtain
<1>2. CASE Threads!Obtain(w)
  BY <1>2 DEF Threads!Obtain
<1>3. CASE Threads!Release(w)
  BY <1>3 DEF Threads!Release
<1>4. CASE Threads!Report(w)
  <2>1. args' \in [Starts -> Data]
    BY <1>4 DEF Threads!Report, Data
  <2> QED
    BY <1>4, <2>1 DEF Threads!Report
<1>5. CASE Threads!Join(w)
  <2>1. args' \in [Starts -> Data]
    BY <1>5 DEF Threads!Join, Threads!Freed, Data
  <2> QED
    BY <1>5, <2>1 DEF Threads!Join
<1> QED
  BY <1>1, <1>2, <1>3, <1>4, <1>5 DEF Threads!ThreadFunc

\* Every step keeps the types.
LEMMA StepKeepsTypes == TypeInv /\ [NextPrograms]_allvars => TypeInv'
<1> SUFFICES ASSUME TypeInv, [NextPrograms]_allvars PROVE TypeInv'
  OBVIOUS
<1>1. CASE UNCHANGED allvars
  BY <1>1 DEF allvars, vars, TypeInv, Typed, CallMatches
<1>2. ASSUME NEW t \in Caller, Calls(t) PROVE TypeInv'
  BY <1>2, CallsKeepTypes
<1>3. ASSUME NEW t \in Caller, Proceeds(t) \/ CallFails(t) PROVE TypeInv'
  BY <1>3, CommandKeepsTypes, StartingKeepsTypes
  DEF Proceeds, CallFails, OfCommand, OfThreads
<1>4. ASSUME NEW t \in Caller, ChildProceeds(t) PROVE TypeInv'
  BY <1>4, ChildKeepsTypes DEF ChildProceeds, OfCommand
<1>5. ASSUME NEW w \in Starts, ThreadRuns(w) \/ OfThreads(Threads!Join(w)) PROVE TypeInv'
  BY <1>5, ThreadKeepsTypes DEF ThreadRuns, OfThreads
<1>6. ASSUME NEW t \in Caller,
             OfThreads(Threads!CallerLocks(t) \/ Threads!CallerUnlocks(t))
      PROVE  TypeInv'
  BY <1>6 DEF OfThreads, Threads!CallerLocks, Threads!CallerUnlocks, Threads!callers,
              TypeInv, Typed, CallMatches
<1> QED
  BY <1>1, <1>2, <1>3, <1>4, <1>5, <1>6 DEF NextPrograms, Rest

\* Every variable keeps its type, whatever fails: no child is ever forked with
\* an fd that open has not given (systemcalls.c:146).
THEOREM ProgramTypes == FairSpec => []TypeOK
<1>1. TypeInv => TypeOK
  BY DEF TypeInv, Typed, TypeOK, File, Process
<1> QED
  BY <1>1, InitTyped, StepKeepsTypes, PTL DEF FairSpec, SpecPrograms

\* The types that the other proofs rest on: the place of each caller fits its
\* call and its child (systemcalls.c:38, 73, 117 and 147).
THEOREM AlwaysTyped == SpecPrograms => []TypeInv
BY InitTyped, StepKeepsTypes, PTL DEF SpecPrograms

----------------------------------------------------------------------------
(* thread_data.                                                            *)

\* A caller that is starting a thread is the only one to start it.
DataInv ==
  /\ \A t \in Caller : pc[t] \in {"malloc", "create"} => place[call[t].thread] = "unborn"
  /\ \A t, u \in Caller :
       /\ pc[t] \in {"malloc", "create"} /\ pc[u] \in {"malloc", "create"}
       /\ call[t].thread = call[u].thread
       => t = u
  /\ ThreadDataOwned

\* A step that starts and ends no thread.
LEMMA OthersKeepData ==
  ASSUME TypeInv, DataInv, UNCHANGED <<place, args>>,
         \A t \in Caller : pc'[t] \in {"malloc", "create"} =>
           pc'[t] = pc[t] /\ call'[t] = call[t],
         \A t \in Caller : pc[t] \in {"malloc", "create"} =>
           pc'[t] = pc[t] /\ call'[t] = call[t]
  PROVE  DataInv'
BY DEF DataInv, ThreadDataOwned

\* A step of do_system, do_exec and do_exec_redirect is one of those.
LEMMA CommandStaysClear ==
  ASSUME TypeInv, NEW t \in Caller, InCall(t) \/ Fails(t)
  PROVE  /\ pc[t] \notin {"malloc", "create"} /\ pc'[t] \notin {"malloc", "create"}
         /\ \A u \in Caller \ {t} : pc'[u] = pc[u]
         /\ call' = call
BY DEF InCall, Fails, OpenOutput, Flush, Fork, Wait, CloseOutput, OpenFails, ForkFails,
       WaitInterrupted, AfterWait, At, Goto, Return, TypeInv, Typed

\* Every step keeps each thread_data with its one owner.
LEMMA StepKeepsData == TypeInv /\ DataInv /\ [NextPrograms]_allvars => DataInv'
<1> SUFFICES ASSUME TypeInv, DataInv, [NextPrograms]_allvars PROVE DataInv'
  OBVIOUS
<1>1. CASE UNCHANGED allvars
  BY <1>1, OthersKeepData DEF allvars, vars
<1>2. ASSUME NEW t \in Caller, NEW fn \in Function, NEW command \in Command,
             Enter(t, fn, command), UNCHANGED <<place, args, mutex>>
      PROVE  DataInv'
  <2>1. /\ pc[t] \notin {"malloc", "create"} /\ pc'[t] \notin {"malloc", "create"}
        /\ \A u \in Caller \ {t} : pc'[u] = pc[u] /\ call'[u] = call[u]
    BY <1>2 DEF Enter, At, Goto, Function, TypeInv, Typed
  <2> QED
    BY <1>2, <2>1, OthersKeepData
<1>3. ASSUME NEW t \in Caller, NEW w \in Starts, Threads!Start(t, w) PROVE DataInv'
  <2>1. /\ pc[t] = "idle" /\ pc'[t] = "malloc" /\ call'[t].thread = w
        /\ \A u \in Caller \ {t} : pc'[u] = pc[u] /\ call'[u] = call[u]
        /\ place' = place /\ args' = args
    BY <1>3 DEF Threads!Start, Threads!Goto, TypeInv, Typed
  <2>2. /\ place[w] = "unborn"
        /\ \A u \in Caller : pc[u] \in {"malloc", "create"} => call[u].thread # w
    BY <1>3 DEF Threads!Start
  <2> QED
    BY <2>1, <2>2 DEF DataInv, ThreadDataOwned
<1>4. ASSUME NEW t \in Caller, InCall(t) \/ Fails(t), UNCHANGED <<place, args, mutex>>
      PROVE  DataInv'
  BY <1>4, CommandStaysClear, OthersKeepData
<1>5. ASSUME NEW t \in Caller, Threads!Starting(t) \/ Threads!Fails(t) PROVE DataInv'
  <2> DEFINE w == call[t].thread
  <2>1. /\ call' = call
        /\ \A u \in Caller \ {t} : pc'[u] = pc[u]
    BY <1>5 DEF Threads!Starting, Threads!Fails, Threads!Malloc, Threads!MallocFails,
       Threads!Create, Threads!CreateFails, Threads!Goto, Threads!Return, TypeInv, Typed
  <2>2. pc[t] \in {"malloc", "create"}
    BY <1>5 DEF Threads!Starting, Threads!Fails, Threads!Malloc, Threads!MallocFails,
       Threads!Create, Threads!CreateFails
  <2>3. w \in Starts /\ place[w] = "unborn"
        /\ \A u \in Caller \ {t} : pc[u] \in {"malloc", "create"} => call[u].thread # w
    BY <2>2 DEF TypeInv, CallMatches, StartCall, DataInv
  <2>4. CASE Threads!Malloc(t)
    <3>1. /\ pc[t] = "malloc" /\ pc'[t] = "create" /\ place' = place
          /\ args' = [args EXCEPT ![w] = Threads!NewData]
      BY <2>4 DEF Threads!Malloc, Threads!Goto, TypeInv, Typed
    <3>2. \A x \in Starts : args'[x].memory = IF x = w THEN "live" ELSE args[x].memory
      BY <2>3, <3>1 DEF TypeInv, Typed, Threads!NewData
    <3> QED
      BY <2>1, <2>3, <3>1, <3>2 DEF DataInv, ThreadDataOwned
  <2>5. CASE Threads!MallocFails(t)
    <3>1. pc[t] = "malloc" /\ pc'[t] = "idle" /\ place' = place /\ args' = args
      BY <2>5 DEF Threads!MallocFails, Threads!Goto, Threads!Return, TypeInv, Typed
    <3> QED
      BY <2>1, <2>3, <3>1 DEF DataInv, ThreadDataOwned
  <2>6. CASE Threads!Create(t)
    <3>1. /\ pc[t] = "create" /\ pc'[t] = "idle" /\ args' = args
          /\ place' = [place EXCEPT ![w] = "wait"]
      BY <2>6 DEF Threads!Create, Threads!Goto, Threads!Return, TypeInv, Typed
    <3>2. \A x \in Starts : place'[x] = IF x = w THEN "wait" ELSE place[x]
      BY <2>3, <3>1 DEF TypeInv, Typed
    <3>3. \A u \in Caller : pc[u] \in {"malloc", "create"} => call[u].thread \in Starts
      BY DEF TypeInv, CallMatches, StartCall
    <3> QED
      BY <2>1, <2>3, <3>1, <3>2, <3>3 DEF DataInv, ThreadDataOwned
  <2>7. CASE Threads!CreateFails(t)
    <3>1. /\ pc[t] = "create" /\ pc'[t] = "idle" /\ place' = place
          /\ args' = [args EXCEPT ![w].memory = "freed"]
      BY <2>7 DEF Threads!CreateFails, Threads!Freed, Threads!Goto, Threads!Return,
                  TypeInv, Typed
    <3>2. \A x \in Starts : args'[x].memory = IF x = w THEN "freed" ELSE args[x].memory
      BY <2>3, <3>1 DEF TypeInv, Typed, Data
    <3> QED
      BY <2>1, <2>3, <3>1, <3>2 DEF DataInv, ThreadDataOwned
  <2> QED
    BY <1>5, <2>4, <2>5, <2>6, <2>7 DEF Threads!Starting, Threads!Fails
<1>6. ASSUME NEW w \in Starts, Threads!ThreadFunc(w) \/ Threads!Join(w) PROVE DataInv'
  <2>1. place[w] \notin {"unborn", "joined"} /\ pc' = pc /\ call' = call
    BY <1>6 DEF Threads!ThreadFunc, Threads!Join, Threads!WaitToObtain, Threads!Obtain,
       Threads!Release, Threads!Report, Threads!Move, Threads!callers
  <2>2. PICK to \in Threads!ThreadPlaces \ {"unborn"} : place' = [place EXCEPT ![w] = to]
    BY <1>6 DEF Threads!ThreadFunc, Threads!Join, Threads!WaitToObtain, Threads!Obtain,
       Threads!Release, Threads!Report, Threads!Move, Threads!ThreadPlaces
  <2>3. \A x \in Starts : place'[x] = IF x = w THEN to ELSE place[x]
    BY <2>2 DEF TypeInv, Typed
  <2>4. \A u \in Caller : pc[u] \in {"malloc", "create"} =>
          call[u].thread \in Starts /\ call[u].thread # w
    BY <2>1 DEF TypeInv, CallMatches, StartCall, DataInv
  <2>5. CASE Threads!ThreadFunc(w)
    <3>1. to # "joined"
      BY <2>2, <2>5 DEF Threads!ThreadFunc, Threads!WaitToObtain, Threads!Obtain,
         Threads!Release, Threads!Report, Threads!Move, TypeInv, Typed
    <3>2. \A x \in Starts : args'[x].memory = args[x].memory
      BY <2>5 DEF Threads!ThreadFunc, Threads!WaitToObtain, Threads!Obtain,
         Threads!Release, Threads!Report, TypeInv, Typed, Data
    <3> QED
      BY <2>1, <2>3, <2>4, <3>1, <3>2 DEF DataInv, ThreadDataOwned
  <2>6. CASE Threads!Join(w)
    <3>1. to = "joined"
      BY <2>2, <2>6 DEF Threads!Join, Threads!Move, TypeInv, Typed
    <3>2. \A x \in Starts : args'[x].memory = IF x = w THEN "freed" ELSE args[x].memory
      BY <2>6 DEF Threads!Join, Threads!Freed, TypeInv, Typed, Data
    <3> QED
      BY <2>1, <2>3, <2>4, <3>1, <3>2 DEF DataInv, ThreadDataOwned
  <2> QED
    BY <1>6, <2>5, <2>6
<1>7. ASSUME NEW t \in Caller, Child(t), UNCHANGED <<place, args>> PROVE DataInv'
  BY <1>7, OthersKeepData DEF Child
<1>8. ASSUME NEW t \in Caller, Threads!CallerLocks(t) \/ Threads!CallerUnlocks(t)
      PROVE  DataInv'
  BY <1>8, OthersKeepData DEF Threads!CallerLocks, Threads!CallerUnlocks, Threads!callers
<1> QED
  BY <1>1, <1>2, <1>3, <1>4, <1>5, <1>6, <1>7, <1>8
  DEF NextPrograms, Rest, Calls, Proceeds, CallFails, ChildProceeds, ThreadRuns,
      OfCommand, OfThreads

\* A thread_data lives from the malloc until its thread is joined, or until
\* pthread_create fails (threading.h:7).
THEOREM DataHasOneOwner == FairSpec => []ThreadDataOwned
<1>1. InitPrograms => DataInv
  BY DEF InitPrograms, Init, Threads!Init, Threads!NoData, DataInv, ThreadDataOwned
<1>2. DataInv => ThreadDataOwned
  BY DEF DataInv
<1> QED
  BY <1>1, <1>2, StepKeepsData, AlwaysTyped, PTL DEF FairSpec, SpecPrograms

----------------------------------------------------------------------------
(* What true means, and whose the open files are.                          *)

DoneInv(t) ==
  /\ child[t].state = "close" => child[t].did \in Done
  /\ child[t].state = "zombie" /\ child[t].code = 0 => child[t].did \in Done
  /\ /\ pc[t] \in {"idle", "close"} /\ result[t] /\ call[t].fn \in Function
     /\ child[t].state = "reaped"
     => child[t].did \in Done

\* Caller t has the output file of its call open.
OutputOpen(t) ==
  pc[t] \in {"flush", "fork", "wait", "close"} /\ call[t].fn = "do_exec_redirect"

FilesInv ==
  \A t \in Caller :
    /\ OutputOpen(t) => fds[fd[t]] = Output(t)
    /\ t \in unforked \/ \A n \in Fd : fds[n] = Output(t) => OutputOpen(t) /\ n = fd[t]

\* What a caller has printed does not get into the copy of its child.
PrintInv(t) ==
  /\ pc[t] = "fork" /\ call[t].fn # "do_system" => ~Contains(stdio, t)
  /\ child[t].state \in {"dup2", "exec"} => ~Contains(child[t].stdio, t)

CommandInv == FilesInv /\ \A t \in Caller : DoneInv(t) /\ PrintInv(t)

\* Nothing is in the empty sequence.
LEMMA NothingContained == \A t : ~Contains(<<>>, t)
BY DEF Contains

\* What a sequence contains after an append.
LEMMA AppendContains ==
  ASSUME NEW S, NEW s \in Seq(S), NEW u \in S, NEW t, Contains(Append(s, u), t), t # u
  PROVE  Contains(s, t)
BY DEF Contains

\* A step of a caller that does not touch the table.
LEMMA TableStays ==
  ASSUME TypeInv, FilesInv, NEW t \in Caller, fds' = fds,
         \A u \in Caller \ {t} : pc'[u] = pc[u] /\ call'[u] = call[u] /\ fd'[u] = fd[u],
         unforked \subseteq unforked',
         t \in unforked' \/ (OutputOpen(t) => OutputOpen(t)'),
         OutputOpen(t)' => OutputOpen(t) /\ fd'[t] = fd[t],
         OutputOpen(t) => fd'[t] = fd[t]
  PROVE  FilesInv'
<1> SUFFICES ASSUME NEW u \in Caller
             PROVE  /\ OutputOpen(u)' => fds'[fd'[u]] = Output(u)
                    /\ \/ u \in unforked'
                       \/ \A n \in Fd : fds'[n] = Output(u) => OutputOpen(u)' /\ n = fd'[u]
  BY DEF FilesInv
<1>1. CASE u = t
  BY <1>1 DEF FilesInv
<1>2. CASE u # t
  <2>1. OutputOpen(u)' = OutputOpen(u) /\ fd'[u] = fd[u]
    BY <1>2 DEF OutputOpen
  <2> QED
    BY <1>2, <2>1 DEF FilesInv
<1> QED
  BY <1>1, <1>2

\* What a step of t leaves alone keeps the parts of the invariant for others.
LEMMA OthersKeepResults ==
  ASSUME TypeInv, NEW t \in Caller, \A u \in Caller : DoneInv(u) /\ PrintInv(u),
         \A u \in Caller \ {t} :
           /\ pc'[u] = pc[u] /\ call'[u] = call[u] /\ child'[u] = child[u]
           /\ result'[u] = result[u],
         stdio' \in {stdio, <<>>, Append(stdio, t)},
         DoneInv(t)', PrintInv(t)'
  PROVE  \A u \in Caller : DoneInv(u)' /\ PrintInv(u)'
<1> TAKE u \in Caller
<1>1. CASE u = t
  BY <1>1
<1>2. CASE u # t
  <2>1. DoneInv(u)'
    BY <1>2 DEF DoneInv
  <2>2. Contains(stdio', u) => Contains(stdio, u)
    <3>1. stdio \in Seq(Caller)
      BY DEF TypeInv, Typed
    <3>2. CASE stdio' = Append(stdio, t)
      BY <1>2, <3>1, <3>2, AppendContains
    <3>3. CASE stdio' = <<>>
      BY <3>3, NothingContained
    <3> QED
      BY <3>2, <3>3
  <2>3. PrintInv(u)'
    BY <1>2, <2>2 DEF PrintInv
  <2> QED
    BY <2>1, <2>3
<1> QED
  BY <1>1, <1>2

\* The initial state has no call under way and nothing printed.
LEMMA InitCommand == InitPrograms => CommandInv
<1> SUFFICES ASSUME InitPrograms PROVE CommandInv
  OBVIOUS
<1>1. FilesInv
  BY OutputIsOwn DEF InitPrograms, Init, FilesInv, OutputOpen
<1>2. ASSUME NEW t \in Caller PROVE DoneInv(t) /\ PrintInv(t)
  BY <1>2 DEF InitPrograms, Init, DoneInv, PrintInv, NoChild
<1> QED
  BY <1>1, <1>2 DEF CommandInv

\* The steps of do_system, do_exec and do_exec_redirect.
LEMMA CommandKeepsFiles ==
  ASSUME TypeInv, CommandInv, NEW t \in Caller, InCall(t) \/ Fails(t)
  PROVE  FilesInv'
<1> USE DEF At, Goto, Return
<1>0. FilesInv
  BY DEF CommandInv
<1>1. CASE OpenOutput(t)
  <2>1. PICK n \in Fd :
          /\ fds[n] = Closed
          /\ fd' = [fd EXCEPT ![t] = n] /\ fds' = [fds EXCEPT ![n] = Output(t)]
    BY <1>1 DEF OpenOutput
  <2>2. /\ fd'[t] = n /\ fds'[n] = Output(t)
        /\ \A m \in Fd \ {n} : fds'[m] = fds[m]
        /\ \A u \in Caller \ {t} : fd'[u] = fd[u]
    BY <2>1 DEF TypeInv, Typed
  <2>3. ~OutputOpen(t) /\ OutputOpen(t)'
        /\ \A u \in Caller \ {t} : OutputOpen(u)' = OutputOpen(u)
    BY <1>1 DEF OpenOutput, OutputOpen, TypeInv, Typed, CallMatches
  <2>4. unforked' = unforked
    BY <1>1 DEF OpenOutput
  <2>5. \A u \in Caller : fd[u] \in Fd
    BY DEF TypeInv, Typed
  <2> QED
    BY <1>0, <2>1, <2>2, <2>3, <2>4, <2>5, OutputIsOwn DEF FilesInv
<1>2. CASE CloseOutput(t)
  <2>1. OutputOpen(t) /\ ~OutputOpen(t)'
        /\ \A u \in Caller \ {t} : OutputOpen(u)' = OutputOpen(u)
    BY <1>2 DEF CloseOutput, OutputOpen, TypeInv, Typed, CallMatches
  <2>2. /\ fd' = fd /\ unforked' = unforked
        /\ fds'[fd[t]] = Closed /\ \A m \in Fd \ {fd[t]} : fds'[m] = fds[m]
    BY <1>2 DEF CloseOutput, TypeInv, Typed
  <2>3. \A u \in Caller : fd[u] \in Fd
    BY DEF TypeInv, Typed
  <2> QED
    BY <1>0, <2>1, <2>2, <2>3, OutputIsOwn DEF FilesInv
<1>3. CASE Flush(t)
  BY <1>0, <1>3, TableStays DEF Flush, OutputOpen, TypeInv, Typed
<1>4. CASE Fork(t)
  BY <1>0, <1>4, TableStays DEF Fork, OutputOpen, TypeInv, Typed
<1>5. CASE Wait(t)
  BY <1>0, <1>5, TableStays DEF Wait, AfterWait, OutputOpen, TypeInv, Typed
<1>6. CASE OpenFails(t)
  BY <1>0, <1>6, TableStays DEF OpenFails, OutputOpen
<1>7. CASE ForkFails(t)
  BY <1>0, <1>7, TableStays DEF ForkFails, OutputOpen, TypeInv, Typed
<1>8. CASE WaitInterrupted(t)
  BY <1>0, <1>8, TableStays DEF WaitInterrupted, AfterWait, OutputOpen, TypeInv, Typed
<1> QED
  BY <1>1, <1>2, <1>3, <1>4, <1>5, <1>6, <1>7, <1>8 DEF InCall, Fails

\* They return true only for a command that is done, and print once.
LEMMA CommandKeepsResults ==
  ASSUME TypeInv, CommandInv, NEW t \in Caller, InCall(t) \/ Fails(t)
  PROVE  \A u \in Caller : DoneInv(u)' /\ PrintInv(u)'
<1> USE DEF At, Goto, Return
<1>1. /\ \A u \in Caller \ {t} :
           /\ pc'[u] = pc[u] /\ call'[u] = call[u] /\ child'[u] = child[u]
           /\ result'[u] = result[u]
      /\ stdio' \in {stdio, <<>>}
      /\ call' = call
  BY DEF InCall, Fails, OpenOutput, Flush, Fork, Wait, CloseOutput, OpenFails, ForkFails,
         WaitInterrupted, AfterWait, TypeInv, Typed
<1>2. DoneInv(t) /\ PrintInv(t) /\ CallMatches(t)
  BY DEF CommandInv, TypeInv
<1> SUFFICES DoneInv(t)' /\ PrintInv(t)'
  BY <1>1, OthersKeepResults DEF CommandInv
<1>3. CASE OpenOutput(t)
  BY <1>2, <1>3 DEF OpenOutput, DoneInv, PrintInv, TypeInv, Typed
<1>4. CASE Flush(t)
  BY <1>2, <1>4, NothingContained DEF Flush, DoneInv, PrintInv, TypeInv, Typed
<1>5. CASE Fork(t)
  <2>1. /\ child'[t].state \in {"dup2", "exec"}
        /\ child'[t].stdio = IF call[t].fn = "do_system" THEN <<>> ELSE stdio
        /\ pc'[t] = "wait" /\ pc[t] = "fork"
    BY <1>5 DEF Fork, TypeInv, Typed
  <2> QED
    BY <1>2, <2>1, NothingContained DEF DoneInv, PrintInv
<1>6. CASE Wait(t)
  <2>1. /\ child[t].state = "zombie" /\ child'[t].state = "reaped"
        /\ child'[t].did = child[t].did
    BY <1>6, ReapedFields DEF Wait, TypeInv, Typed
  <2>2. result'[t] => child[t].code = 0
    BY <1>6 DEF Wait, AfterWait, Succeeded, TypeInv, Typed
  <2>3. pc'[t] # "fork"
    BY <1>6 DEF Wait, AfterWait, TypeInv, Typed
  <2> QED
    BY <1>2, <2>1, <2>2, <2>3 DEF DoneInv, PrintInv
<1>7. CASE CloseOutput(t)
  BY <1>2, <1>7 DEF CloseOutput, DoneInv, PrintInv, TypeInv, Typed
<1>8. CASE OpenFails(t)
  BY <1>2, <1>8 DEF OpenFails, DoneInv, PrintInv
<1>9. CASE ForkFails(t)
  BY <1>2, <1>9 DEF ForkFails, DoneInv, PrintInv, TypeInv, Typed
<1>10. CASE WaitInterrupted(t)
  <2>1. child' = child /\ pc[t] = "wait" /\ pc'[t] # "fork"
    BY <1>10 DEF WaitInterrupted, AfterWait, TypeInv, Typed
  <2> QED
    BY <1>2, <2>1 DEF DoneInv, PrintInv, CallMatches, Alive
<1> QED
  BY <1>3, <1>4, <1>5, <1>6, <1>7, <1>8, <1>9, <1>10 DEF InCall, Fails

\* The steps of the forked process.
LEMMA ChildKeepsCommand ==
  ASSUME TypeInv, CommandInv, NEW t \in Caller, Child(t)
  PROVE  CommandInv'
<1>1. PICK next \in Process :
        Follows(child[t], fd[t], next) /\ child' = [child EXCEPT ![t] = next]
  BY ChildStep
<1>2. child[t].state \in Alive
  BY ChildStep
<1>3. UNCHANGED <<fds, stdio, pc, call, fd, result, unforked>>
  BY DEF Child
<1>4. child'[t] = next /\ \A u \in Caller \ {t} : child'[u] = child[u]
  BY <1>1 DEF TypeInv, Typed
<1>5. FilesInv'
  BY <1>3 DEF CommandInv, FilesInv, OutputOpen
<1>6. DoneInv(t)' /\ PrintInv(t)'
  BY <1>1, <1>2, <1>3, <1>4 DEF CommandInv, DoneInv, PrintInv, Follows, Alive
<1>7. \A u \in Caller : DoneInv(u)' /\ PrintInv(u)'
  BY <1>3, <1>4, <1>6, OthersKeepResults DEF CommandInv
<1> QED
  BY <1>5, <1>7 DEF CommandInv

\* A caller enters one of the functions.
LEMMA CallsKeepCommand ==
  ASSUME TypeInv, CommandInv, NEW t \in Caller, Calls(t)
  PROVE  CommandInv'
<1>1. ASSUME NEW fn \in Function, NEW command \in Command, Enter(t, fn, command)
      PROVE  CommandInv'
  <2>1. /\ pc[t] = "idle" /\ call'[t].fn = fn
        /\ pc'[t] = IF fn = "do_system" THEN "fork"
                    ELSE IF fn = "do_exec" THEN "flush" ELSE "open"
    BY <1>1 DEF Enter, At, Goto, Function, TypeInv, Typed
  <2>2. /\ \A u \in Caller \ {t} :
             /\ pc'[u] = pc[u] /\ call'[u] = call[u] /\ child'[u] = child[u]
             /\ result'[u] = result[u] /\ fd'[u] = fd[u]
        /\ UNCHANGED <<fds, stdio, unforked>>
    BY <1>1 DEF Enter, Goto, TypeInv, Typed
  <2>3. child'[t].state = "none" /\ result'[t] = FALSE
    BY <1>1 DEF Enter, NoChild, TypeInv, Typed
  <2>4. ~OutputOpen(t) /\ ~OutputOpen(t)'
    BY <2>1 DEF OutputOpen
  <2>5. FilesInv'
    BY <2>2, <2>4, TableStays DEF CommandInv
  <2>6. DoneInv(t)' /\ PrintInv(t)'
    BY <2>1, <2>3 DEF DoneInv, PrintInv
  <2>7. \A u \in Caller : DoneInv(u)' /\ PrintInv(u)'
    BY <2>2, <2>6, OthersKeepResults DEF CommandInv
  <2> QED
    BY <2>5, <2>7 DEF CommandInv
<1>2. ASSUME NEW w \in Starts, Threads!Start(t, w), UNCHANGED <<fds, fd, child, unforked>>
      PROVE  CommandInv'
  <2>1. /\ pc[t] = "idle" /\ pc'[t] = "malloc" /\ result'[t] = FALSE
        /\ \A u \in Caller \ {t} :
             pc'[u] = pc[u] /\ call'[u] = call[u] /\ result'[u] = result[u]
        /\ stdio' = stdio
    BY <1>2 DEF Threads!Start, Threads!Goto, TypeInv, Typed
  <2>2. FilesInv'
    BY <1>2, <2>1, TableStays DEF CommandInv, OutputOpen
  <2>3. DoneInv(t)' /\ PrintInv(t)'
    BY <1>2, <2>1 DEF CommandInv, DoneInv, PrintInv
  <2>4. \A u \in Caller : DoneInv(u)' /\ PrintInv(u)'
    BY <1>2, <2>1, <2>3, OthersKeepResults DEF CommandInv
  <2> QED
    BY <2>2, <2>4 DEF CommandInv
<1> QED
  BY <1>1, <1>2 DEF Calls

\* The steps of start_thread_obtaining_mutex.
LEMMA StartingKeepsCommand ==
  ASSUME TypeInv, CommandInv, NEW t \in Caller, Threads!Starting(t) \/ Threads!Fails(t),
         UNCHANGED <<fds, fd, child, unforked>>
  PROVE  CommandInv'
<1>1. /\ pc[t] \in {"malloc", "create"} /\ pc'[t] \in {"create", "idle"}
      /\ \A u \in Caller \ {t} : pc'[u] = pc[u] /\ result'[u] = result[u]
      /\ call' = call /\ stdio' \in {stdio, Append(stdio, t)}
  BY DEF Threads!Starting, Threads!Fails, Threads!Malloc, Threads!MallocFails,
         Threads!Create, Threads!CreateFails, Threads!Goto, Threads!Return,
         Threads!ErrorLog, TypeInv, Typed
<1>2. call[t].fn \notin Function /\ child[t].state \in {"none", "reaped"}
  BY <1>1 DEF TypeInv, CallMatches, StartCall, Function
<1>3. FilesInv'
  BY <1>1, TableStays DEF CommandInv, OutputOpen
<1>4. DoneInv(t)' /\ PrintInv(t)'
  BY <1>1, <1>2 DEF DoneInv, PrintInv
<1>5. \A u \in Caller : DoneInv(u)' /\ PrintInv(u)'
  BY <1>1, <1>4, OthersKeepResults DEF CommandInv
<1> QED
  BY <1>3, <1>5 DEF CommandInv

\* Every step keeps the invariant of the calls.
LEMMA StepKeepsCommand == TypeInv /\ CommandInv /\ [NextPrograms]_allvars => CommandInv'
<1> SUFFICES ASSUME TypeInv, CommandInv, [NextPrograms]_allvars PROVE CommandInv'
  OBVIOUS
<1>1. ASSUME UNCHANGED <<fds, stdio, pc, call, fd, child, result, unforked>>
      PROVE  CommandInv'
  BY <1>1 DEF CommandInv, FilesInv, OutputOpen, DoneInv, PrintInv
<1>2. CASE UNCHANGED allvars
  BY <1>1, <1>2 DEF allvars, vars
<1>3. ASSUME NEW t \in Caller, Calls(t) PROVE CommandInv'
  BY <1>3, CallsKeepCommand
<1>4. ASSUME NEW t \in Caller, InCall(t) \/ Fails(t) PROVE CommandInv'
  BY <1>4, CommandKeepsFiles, CommandKeepsResults DEF CommandInv
<1>5. ASSUME NEW t \in Caller, OfThreads(Threads!Starting(t) \/ Threads!Fails(t))
      PROVE  CommandInv'
  BY <1>5, StartingKeepsCommand DEF OfThreads
<1>6. ASSUME NEW t \in Caller, ChildProceeds(t) PROVE CommandInv'
  BY <1>6, ChildKeepsCommand DEF ChildProceeds, OfCommand
<1>7. ASSUME NEW w \in Starts, ThreadRuns(w) \/ OfThreads(Threads!Join(w))
      PROVE  CommandInv'
  BY <1>1, <1>7 DEF ThreadRuns, OfThreads, Threads!ThreadFunc, Threads!WaitToObtain,
     Threads!Obtain, Threads!Release, Threads!Report, Threads!Join, Threads!callers
<1>8. ASSUME NEW t \in Caller,
             OfThreads(Threads!CallerLocks(t) \/ Threads!CallerUnlocks(t))
      PROVE  CommandInv'
  BY <1>1, <1>8 DEF OfThreads, Threads!CallerLocks, Threads!CallerUnlocks, Threads!callers
<1> QED
  BY <1>2, <1>3, <1>4, <1>5, <1>6, <1>7, <1>8
  DEF NextPrograms, Rest, Proceeds, CallFails, OfCommand, OfThreads

\* The invariant of the calls holds throughout.
LEMMA AlwaysCommand == SpecPrograms => []CommandInv
BY InitCommand, StepKeepsCommand, AlwaysTyped, PTL DEF SpecPrograms

\* Once waitpid has got the status of the child, true means that the command
\* has opened its file and written to it (systemcalls.c:48).
THEOREM TrueIsDone == FairSpec => []TrueMeansDone
<1>1. CommandInv => TrueMeansDone
  BY DEF CommandInv, DoneInv, TrueMeansDone, Done
<1> QED
  BY <1>1, AlwaysCommand, PTL DEF FairSpec

\* No output file stays open after its call, unless the fork has failed
\* (systemcalls.c:117), whatever the other callers open and close meanwhile.
THEOREM OutputsAreClosed == FairSpec => []OutputClosed
<1>1. CommandInv => OutputClosed
  BY DEF CommandInv, FilesInv, OutputOpen, OutputClosed
<1> QED
  BY <1>1, AlwaysCommand, PTL DEF FairSpec

\* What a caller has printed before is not in the buffer that its child may
\* print at its exit (systemcalls.c:77 and 151).
THEOREM PrintedOnce == FairSpec => []NothingPrintedTwice
<1>1. CommandInv => NothingPrintedTwice
  BY DEF CommandInv, PrintInv, NothingPrintedTwice
<1> QED
  BY <1>1, AlwaysCommand, PTL DEF FairSpec

----------------------------------------------------------------------------
(* The stdout of the commands.                                             *)

\* The table a child has before its dup2, and the one it runs its command with.
StdoutInv ==
  /\ fds[1] = Tty
  /\ \A t \in Caller : child[t].state = "dup2" =>
       /\ fd[t] # 1 /\ child[t].fds[fd[t]] = Output(t)
       /\ t \in unforked \/ \A n \in Fd : child[t].fds[n] = Output(t) => n = fd[t]
  /\ CommandHasStdout

\* A step that leaves the children alone.
LEMMA ChildrenKeepStdout ==
  ASSUME TypeInv, StdoutInv, fds'[1] = fds[1], unforked \subseteq unforked',
         \A t \in Caller :
           \/ child'[t] = child[t] /\ fd'[t] = fd[t] /\ call'[t] = call[t]
           \/ child'[t].state \notin Alive
  PROVE  StdoutInv'
BY DEF StdoutInv, CommandHasStdout, Alive

\* The steps of do_system, do_exec and do_exec_redirect.
LEMMA CommandKeepsStdout ==
  ASSUME TypeInv, FilesInv, StdoutInv, NEW t \in Caller, InCall(t) \/ Fails(t)
  PROVE  StdoutInv'
<1> USE DEF At, Goto, Return
<1>0. 1 \in Fd /\ fds[1] = Tty /\ CallMatches(t) /\ \A u \in Caller : fd[u] \in Fd
  BY StdoutIsFd DEF StdoutInv, TypeInv, Typed
<1>1. CASE OpenOutput(t)
  <2>1. PICK n \in Fd : fds[n] = Closed /\ fds' = [fds EXCEPT ![n] = Output(t)]
    BY <1>1 DEF OpenOutput
  <2>2. fds'[1] = fds[1]
    BY <1>0, <2>1, OutputIsOwn DEF TypeInv, Typed
  <2>3. \A u \in Caller :
          \/ child'[u] = child[u] /\ fd'[u] = fd[u] /\ call'[u] = call[u]
          \/ child'[u].state \notin Alive
    BY <1>0, <1>1 DEF OpenOutput, TypeInv, Typed, CallMatches, Alive
  <2>4. unforked' = unforked
    BY <1>1 DEF OpenOutput
  <2> QED
    BY <2>2, <2>3, <2>4, ChildrenKeepStdout
<1>2. CASE CloseOutput(t)
  <2>1. fds[fd[t]] = Output(t)
    BY <1>0, <1>2 DEF CloseOutput, FilesInv, OutputOpen, CallMatches
  <2>2. fds'[1] = fds[1]
    BY <1>0, <1>2, <2>1, OutputIsOwn DEF CloseOutput, TypeInv, Typed
  <2> QED
    BY <1>2, <2>2, ChildrenKeepStdout DEF CloseOutput
<1>3. CASE Flush(t)
  BY <1>3, ChildrenKeepStdout DEF Flush
<1>4. CASE Fork(t)
  <2>1. /\ \A u \in Caller \ {t} : child'[u] = child[u]
        /\ child'[t].state = IF call[t].fn = "do_exec_redirect" THEN "dup2" ELSE "exec"
        /\ child'[t].fds = fds
        /\ UNCHANGED <<fds, fd, call, unforked>>
    BY <1>4 DEF Fork, TypeInv, Typed
  <2>2. call[t].fn = "do_exec_redirect" =>
          /\ fds[fd[t]] = Output(t) /\ fd[t] # 1
          /\ t \in unforked \/ \A n \in Fd : fds[n] = Output(t) => n = fd[t]
    BY <1>0, <1>4, OutputIsOwn DEF Fork, FilesInv, OutputOpen
  <2> QED
    BY <1>0, <2>1, <2>2 DEF StdoutInv, CommandHasStdout
<1>5. CASE Wait(t)
  <2>1. /\ child'[t].state = "reaped" /\ \A u \in Caller \ {t} : child'[u] = child[u]
        /\ UNCHANGED <<fds, fd, call, unforked>>
    BY <1>5, ReapedFields DEF Wait, TypeInv, Typed
  <2> QED
    BY <2>1, ChildrenKeepStdout DEF Alive
<1>6. CASE OpenFails(t) \/ ForkFails(t) \/ WaitInterrupted(t)
  <2>1. UNCHANGED <<fds, fd, call, child>> /\ unforked \subseteq unforked'
    BY <1>6 DEF OpenFails, ForkFails, WaitInterrupted
  <2> QED
    BY <2>1, ChildrenKeepStdout
<1> QED
  BY <1>1, <1>2, <1>3, <1>4, <1>5, <1>6 DEF InCall, Fails

\* The steps of the forked process: dup2 and exec.
LEMMA ChildKeepsStdout ==
  ASSUME TypeInv, StdoutInv, NEW t \in Caller, Child(t)
  PROVE  StdoutInv'
<1>1. PICK next \in Process :
        Follows(child[t], fd[t], next) /\ child' = [child EXCEPT ![t] = next]
  BY ChildStep
<1>2. child[t].state \in Alive
  BY ChildStep
<1>3. /\ child'[t] = next /\ \A u \in Caller \ {t} : child'[u] = child[u]
      /\ UNCHANGED <<fds, call, fd, unforked>>
  BY <1>1 DEF Child, TypeInv, Typed
<1>4. 1 \in Fd /\ fd[t] \in Fd /\ child[t].fds \in [Fd -> File] /\ CallMatches(t)
  BY <1>2, StdoutIsFd DEF TypeInv, Typed, CallMatches
<1>5. CASE next.state = "zombie"
  BY <1>3, <1>5, ChildrenKeepStdout DEF Alive
<1>6. CASE next.state # "zombie" /\ child[t].state = "dup2"
  <2> DEFINE table == child[t].fds
  <2>1. /\ fd[t] # 1 /\ table[fd[t]] = Output(t)
        /\ t \in unforked \/ \A n \in Fd : table[n] = Output(t) => n = fd[t]
    BY <1>6 DEF StdoutInv
  <2>2. next.fds = Redirected(table, fd[t])
    BY <1>1, <1>6 DEF Follows
  <2>3. /\ next.fds[1] = Output(t) /\ next.fds[fd[t]] = Closed
        /\ \A n \in Fd \ {1, fd[t]} : next.fds[n] = table[n]
    BY <1>4, <2>1, <2>2 DEF Redirected
  <2>4. call[t].fn = "do_exec_redirect" /\ next.state # "dup2"
    BY <1>1, <1>4, <1>6 DEF CallMatches, Follows, Alive
  <2>5. t \in unforked \/ \A n \in Fd \ {1} : next.fds[n] # Output(t)
    BY <1>4, <2>1, <2>3, OutputIsOwn
  <2> QED
    BY <1>3, <2>3, <2>4, <2>5 DEF StdoutInv, CommandHasStdout
<1>7. CASE next.state # "zombie" /\ child[t].state # "dup2"
  <2>1. next.fds = child[t].fds /\ next.state # "dup2"
    BY <1>1, <1>7 DEF Follows, Alive
  <2> QED
    BY <1>2, <1>3, <1>7, <2>1 DEF StdoutInv, CommandHasStdout, Alive
<1> QED
  BY <1>5, <1>6, <1>7

\* Every step keeps stdout where it belongs.
LEMMA StepKeepsStdout ==
  TypeInv /\ CommandInv /\ StdoutInv /\ [NextPrograms]_allvars => StdoutInv'
<1> SUFFICES ASSUME TypeInv, FilesInv, StdoutInv, [NextPrograms]_allvars PROVE StdoutInv'
  BY DEF CommandInv
<1>1. ASSUME UNCHANGED <<fds, call, fd, child, unforked>> PROVE StdoutInv'
  BY <1>1, ChildrenKeepStdout
<1>2. CASE UNCHANGED allvars
  BY <1>1, <1>2 DEF allvars, vars
<1>3. ASSUME NEW t \in Caller, NEW fn \in Function, NEW command \in Command,
             Enter(t, fn, command)
      PROVE  StdoutInv'
  <2>1. /\ child'[t].state = "none"
        /\ \A u \in Caller \ {t} :
             child'[u] = child[u] /\ fd'[u] = fd[u] /\ call'[u] = call[u]
        /\ UNCHANGED <<fds, unforked>>
    BY <1>3 DEF Enter, NoChild, TypeInv, Typed
  <2> QED
    BY <2>1, ChildrenKeepStdout DEF Alive
<1>4. ASSUME NEW t \in Caller, NEW w \in Starts, Threads!Start(t, w),
             child[t].state \in {"none", "reaped"}, UNCHANGED <<fds, fd, child, unforked>>
      PROVE  StdoutInv'
  <2>1. \A u \in Caller \ {t} : call'[u] = call[u]
    BY <1>4 DEF Threads!Start, TypeInv, Typed
  <2> QED
    BY <1>4, <2>1, ChildrenKeepStdout DEF Alive
<1>5. ASSUME NEW t \in Caller, InCall(t) \/ Fails(t) PROVE StdoutInv'
  BY <1>5, CommandKeepsStdout
<1>6. ASSUME NEW t \in Caller, Child(t) PROVE StdoutInv'
  BY <1>6, ChildKeepsStdout
<1>7. ASSUME NEW t \in Caller,
             OfThreads(\/ Threads!Starting(t) \/ Threads!Fails(t)
                       \/ Threads!CallerLocks(t) \/ Threads!CallerUnlocks(t))
      PROVE  StdoutInv'
  <2>1. call' = call
    BY <1>7 DEF OfThreads, Threads!Starting, Threads!Fails, Threads!Malloc,
       Threads!MallocFails, Threads!Create, Threads!CreateFails, Threads!CallerLocks,
       Threads!CallerUnlocks, Threads!callers
  <2> QED
    BY <1>1, <1>7, <2>1 DEF OfThreads
<1>8. ASSUME NEW w \in Starts, ThreadRuns(w) \/ OfThreads(Threads!Join(w)) PROVE StdoutInv'
  BY <1>1, <1>8 DEF ThreadRuns, OfThreads, Threads!ThreadFunc, Threads!WaitToObtain,
     Threads!Obtain, Threads!Release, Threads!Report, Threads!Join, Threads!callers
<1> QED
  BY <1>2, <1>3, <1>4, <1>5, <1>6, <1>7, <1>8
  DEF NextPrograms, Rest, Calls, Proceeds, CallFails, ChildProceeds, OfCommand, OfThreads

\* A program that has its stdout open runs a redirected command with the output
\* file of its call as stdout and nowhere else (systemcalls.c:139), and every
\* other command with the stdout of the program.
THEOREM CommandStdout ==
  ASSUME 1 \in Std
  PROVE  FairSpec => []CommandHasStdout
<1>1. InitPrograms => StdoutInv
  BY StdoutIsFd DEF InitPrograms, Init, NoChild, StdoutInv, CommandHasStdout
<1>2. StdoutInv => CommandHasStdout
  BY DEF StdoutInv
<1> QED
  BY <1>1, <1>2, StepKeepsStdout, AlwaysTyped, AlwaysCommand, PTL DEF FairSpec, SpecPrograms
=============================================================================
