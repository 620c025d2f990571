--------------------------- MODULE ExamplePrograms ---------------------------
(***************************************************************************)
(* A program on top of examples/: its threads run commands                 *)
(* (SystemCalls.tla) and start threads (Threading.tla).  The two meet in   *)
(* the process: the buffer of stdout that ERROR_LOG prints to is copied by *)
(* fork, and an abort ends all of it.                                      *)
(***************************************************************************)
EXTENDS SystemCalls

CONSTANTS Starts, Faults, NoThread,   \* see Threading.tla
  MaxCalls      \* bound: calls

ASSUME MaxCallsAssumption == MaxCalls \in Nat

VARIABLES place, args, mutex,         \* of Threading.tla
  calls         \* how many calls have been made

allvars == <<vars, place, args, mutex, calls>>

Threads == INSTANCE Threading

Function == {"do_system", "do_exec", "do_exec_redirect"}

InitPrograms == Init /\ Threads!Init /\ calls = 0

\* A caller whose child is still there, after an interrupted waitpid, calls no
\* more.
Calls(t) ==
  /\ calls < MaxCalls /\ child[t].state \in {"none", "reaped"}
  /\ calls' = calls + 1
  /\ \/ /\ \E fn \in Function, command \in Command : Enter(t, fn, command)
        /\ UNCHANGED <<place, args, mutex>>
     \/ /\ proc = "running" /\ \E w \in Starts : Threads!Start(t, w)
        /\ UNCHANGED <<proc, fds, fd, child, unforked>>

\* A step of do_system and its like, and of start_thread_obtaining_mutex.
OfCommand(A) == A /\ UNCHANGED <<place, args, mutex, calls>>
OfThreads(A) ==
  proc = "running" /\ A /\ UNCHANGED <<proc, fds, fd, child, unforked, calls>>

\* A step of a call, of the process a call has forked, and of a thread.
Proceeds(t) == OfCommand(InCall(t)) \/ OfThreads(Threads!Starting(t))
ChildProceeds(t) == OfCommand(Child(t))
CallFails(t) == OfCommand(Fails(t)) \/ OfThreads(Threads!Fails(t))
ThreadRuns(w) == OfThreads(Threads!ThreadFunc(w))

\* The program has ended, or makes no call.
Rest ==
  /\ proc # "running" \/ \A t \in Caller : pc[t] = "idle"
  /\ UNCHANGED allvars

NextPrograms ==
  \/ \E t \in Caller : Calls(t) \/ Proceeds(t) \/ ChildProceeds(t) \/ CallFails(t)
  \/ \E w \in Starts : ThreadRuns(w) \/ OfThreads(Threads!Join(w))
  \/ \E t \in Caller : OfThreads(Threads!CallerLocks(t) \/ Threads!CallerUnlocks(t))
  \/ Rest

SpecPrograms == InitPrograms /\ [][NextPrograms]_allvars

\* The scheduler runs a call or the process it has forked, and every started
\* thread, which the mutex is not kept from for ever.  The program need not
\* call, lock, unlock or join, and no call need fail.
FairSpec ==
  /\ SpecPrograms
  /\ \A t \in Caller : WF_allvars(Proceeds(t) \/ ChildProceeds(t))
  /\ \A w \in Starts : SF_allvars(ThreadRuns(w))

----------------------------------------------------------------------------
\* Types: among others, a child is never forked with an fd that open has not
\* given (systemcalls.c:146).
TypeOK ==
  /\ proc \in {"running", "aborted"}
  /\ \A n \in Fd : fds[n] \in {Closed, Tty} \cup {Output(t) : t \in Caller}
  /\ stdio \in Seq(Caller)
  /\ pc \in [Caller -> Places \cup {"malloc", "create"}]
  /\ fd \in [Caller -> Fd]
  /\ \A t \in Caller : child[t].code \in {-1, 0, 1, 127, 255}
  /\ result \in [Caller -> BOOLEAN]
  /\ unforked \subseteq Caller
  /\ place \in [Starts -> Threads!ThreadPlaces]
  /\ mutex \in Starts \cup Caller \cup {NoThread}
  /\ calls \in 0 .. MaxCalls

\* "false if an error occurred ... or if a non-zero return value was returned by
\* the command" (systemcalls.c:48): once waitpid has got its status, true means
\* that writer has opened its file and written to it.
TrueMeansDone ==
  \A t \in Caller :
    /\ pc[t] = "idle" /\ result[t] /\ call[t].fn \in Function
    /\ child[t].state = "reaped"
    => child[t].did \in {"all", "part"}

\* "This file will be closed at completion of the function call"
\* (systemcalls.c:117), which holds unless the fork has failed.
OutputClosed ==
  \A t \in Caller :
    pc[t] = "idle" => t \in unforked \/ \A n \in Fd : fds[n] # Output(t)

\* "redirect standard out to a file" (systemcalls.c:139): a redirected command
\* has the output file of its call as stdout and nowhere else, whatever the
\* other threads have open; the others keep the program's stdout.
CommandHasStdout ==
  \A t \in Caller : child[t].state \in {"exec", "main", "open", "write", "close"} =>
    LET table == child[t].fds
    IN  IF call[t].fn = "do_exec_redirect"
        THEN /\ table[1] = Output(t)
             /\ t \in unforked \/ \A n \in Fd \ {1} : table[n] # Output(t)
        ELSE table[1] = Tty

\* fflush before fork (systemcalls.c:77 and 151): what a caller has printed is
\* not in its child's copy of the buffer, from where the exit after a failed
\* execv would print it again, into the output file if there is one.
NothingPrintedTwice ==
  \A t \in Caller :
    child[t].state \in {"dup2", "exec"} => ~Contains(child[t].stdio, t)

\* "so it can be freed by the joiner thread" (threading.h:7): a thread_data lives
\* from the malloc until its thread is joined, or until pthread_create fails.
ThreadDataOwned ==
  \A w \in Starts :
    args[w].memory = "live" <=>
      \/ place[w] \notin {"unborn", "joined"}
      \/ \E t \in Caller : pc[t] = "create" /\ call[t].thread = w

\* Every call returns, whoever holds the mutex: starting a thread "should not
\* block for the thread to complete" (threading.h:32), and a forked child ends.
CallsReturn ==
  \A t \in Caller : []<>(pc[t] = "idle" \/ proc # "running")

\* A thread that has been started completes with success, unless a caller of
\* the program keeps the mutex.
ThreadsComplete ==
  []<>(mutex \notin Caller) =>
    \A w \in Starts :
      []<>(place[w] = "unborn" \/ args[w].thread_complete_success \/ proc # "running")
=============================================================================
