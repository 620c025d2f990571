------------------------------ MODULE Threading ------------------------------
(***************************************************************************)
(* examples/threading/threading.c: callers start threads that obtain a     *)
(* mutex of theirs, hold it and release it.  Each thread has a thread_data *)
(* of its own, which its joiner frees.                                     *)
(***************************************************************************)
EXTENDS Sequences

CONSTANTS
  Caller,       \* the threads that call start_thread_obtaining_mutex
  Starts,       \* the threads they start
  Faults,       \* the calls that may fail: "malloc", "create"
  NoThread      \* the owner of a free mutex

VARIABLES
  pc,           \* per caller, where it is
  call,         \* per caller, the function it is in
  result,       \* per caller, what its last call has returned
  stdio,        \* who has printed what the buffer of stdout holds
  place,        \* per started thread, where it is
  args,         \* per started thread, its thread_data
  mutex         \* the owner of the mutex

Goto(t, to) == pc' = [pc EXCEPT ![t] = to]
Return(t, r) == Goto(t, "idle") /\ result' = [result EXCEPT ![t] = r]

NoData == [memory |-> "none", thread_complete_success |-> FALSE]
NewData == [memory |-> "live", thread_complete_success |-> FALSE]
Freed(w) == [args EXCEPT ![w].memory = "freed"]

ThreadPlaces == {"unborn", "wait", "lock", "hold", "report", "returned", "joined"}

Init ==
  /\ place = [w \in Starts |-> "unborn"]
  /\ args = [w \in Starts |-> NoData]
  /\ mutex = NoThread

----------------------------------------------------------------------------
(* start_thread_obtaining_mutex                                            *)

\* w is the pthread_t the caller passes in.
Start(t, w) ==
  /\ pc[t] = "idle"
  /\ place[w] = "unborn"
  /\ \A u \in Caller : pc[u] \in {"malloc", "create"} => call[u].thread # w
  /\ call' = [call EXCEPT ![t] = [fn |-> "start_thread_obtaining_mutex", thread |-> w]]
  /\ result' = [result EXCEPT ![t] = FALSE]
  /\ Goto(t, "malloc")
  /\ UNCHANGED <<stdio, place, args, mutex>>

\* ERROR_LOG
ErrorLog(t) == stdio' = Append(stdio, t)

Malloc(t) ==
  /\ pc[t] = "malloc"
  /\ args' = [args EXCEPT ![call[t].thread] = NewData]
  /\ Goto(t, "create")
  /\ UNCHANGED <<call, result, stdio, place, mutex>>

MallocFails(t) ==
  /\ pc[t] = "malloc" /\ "malloc" \in Faults
  /\ ErrorLog(t) /\ Return(t, FALSE)
  /\ UNCHANGED <<call, place, args, mutex>>

\* Regression: the function takes the mutex around pthread_create.
CreateUnderMutex(t) ==
  /\ pc[t] = "create" /\ mutex = NoThread
  /\ place' = [place EXCEPT ![call[t].thread] = "wait"]
  /\ Return(t, TRUE)
  /\ UNCHANGED <<call, stdio, args, mutex>>

\* pthread_create starts threadfunc.
Create(t) ==
  /\ pc[t] = "create"
  /\ place' = [place EXCEPT ![call[t].thread] = "wait"]
  /\ Return(t, TRUE)
  /\ UNCHANGED <<call, stdio, args, mutex>>

\* Regression: the thread_data of a thread that could not be started is kept.
CreateFailsKeepsData(t) ==
  /\ pc[t] = "create" /\ "create" \in Faults
  /\ ErrorLog(t) /\ Return(t, FALSE)
  /\ UNCHANGED <<call, place, args, mutex>>

CreateFails(t) ==
  /\ pc[t] = "create" /\ "create" \in Faults
  /\ ErrorLog(t) /\ Return(t, FALSE)
  /\ args' = Freed(call[t].thread)
  /\ UNCHANGED <<call, place, mutex>>

Starting(t) == Malloc(t) \/ Create(t)
Fails(t) == MallocFails(t) \/ CreateFails(t)

----------------------------------------------------------------------------
(* threadfunc                                                              *)

Move(w, from, to) == place[w] = from /\ place' = [place EXCEPT ![w] = to]

callers == <<pc, call, result, stdio>>

\* usleep(wait_to_obtain_ms * 1000)
WaitToObtain(w) == Move(w, "wait", "lock") /\ UNCHANGED <<callers, args, mutex>>

Obtain(w) ==
  /\ Move(w, "lock", "hold")
  /\ mutex = NoThread /\ mutex' = w
  /\ UNCHANGED <<callers, args>>

\* Regression: the mutex is not released.
ReleaseForgotten(w) == Move(w, "hold", "report") /\ UNCHANGED <<callers, args, mutex>>

\* usleep(wait_to_release_ms * 1000), and the unlock.
Release(w) ==
  /\ Move(w, "hold", "report")
  /\ mutex' = NoThread
  /\ UNCHANGED <<callers, args>>

Report(w) ==
  /\ Move(w, "report", "returned")
  /\ args' = [args EXCEPT ![w].thread_complete_success = TRUE]
  /\ UNCHANGED <<callers, mutex>>

ThreadFunc(w) == WaitToObtain(w) \/ Obtain(w) \/ Release(w) \/ Report(w)

----------------------------------------------------------------------------
(* What the program does with mutex and threads.                           *)

CallerLocks(t) ==
  /\ pc[t] = "idle" /\ mutex = NoThread
  /\ mutex' = t
  /\ UNCHANGED <<callers, place, args>>

CallerUnlocks(t) ==
  /\ pc[t] = "idle" /\ mutex = t
  /\ mutex' = NoThread
  /\ UNCHANGED <<callers, place, args>>

\* pthread_join, which gives the thread_data to be freed.
Join(w) ==
  /\ Move(w, "returned", "joined")
  /\ args' = Freed(w)
  /\ UNCHANGED <<callers, mutex>>
=============================================================================
