----------------------------- MODULE AesdSocket -----------------------------
(***************************************************************************)
(* server/aesdsocket.c: main, one thread per connection, the timestamp     *)
(* thread, the signal handler, and cleanup(), which any of them may end up *)
(* in.  What one recv puts into the buffer is a chunk: text, a line (it    *)
(* holds a newline) or a seekto (a line that is a well-formed              *)
(* AESDCHAR_IOCSEEKTO).  Here the threads work on the data file, where     *)
(* positions count chunks; ServerOnDevice.tla puts the driver in its place. *)
(***************************************************************************)
EXTENDS Integers, SequencesExt

CONSTANTS
  Conn,           \* the connections; each has a thread of its own
  Main,           \* the thread that accepts them
  Stamper,        \* the thread that writes timestamps
  NoThread,       \* the owner of a free mutex
  UseCharDevice,  \* USE_AESD_CHAR_DEVICE
  Daemon,         \* started with -d
  Kind,           \* the kinds of chunks clients send
  Overlap,        \* a client may come while another is being served
  Patient,        \* a client closes only when it waits for nothing
  StampAnytime,   \* a timestamp may come while a client is being answered
  Failures,       \* the calls that may fail: "daemonize", "socket", "bind",
                  \* "listen", "create", "open", "malloc", "write", "read"
  SignalAt,       \* where in main a SIGINT or SIGTERM may come
  MaxChunks,      \* bound: chunks per client
  MaxStamps,      \* bound: timestamps
  MaxStarts       \* bound: how often the server is started

VARIABLES
  proc,           \* the process: running, exited or killed
  fds,            \* the descriptor table
  sockfd, datafd, \* the globals of those names
  data,           \* the chunks in the data file
  exists,         \* there is a data file
  mutex,          \* the owner of aesddata_file_mutex
  signal_exit,    \* the global of that name
  pc,             \* per thread, where it is
  thread_list,    \* the connections in thread_list, its head first
  new_thread,     \* main's local of that name
  todo,           \* what is left of main's walk over thread_list
  target,         \* per thread, the element its cleanup has taken
  joined,         \* the connections whose thread has been joined
  freed,          \* the connections whose thread_info_t has been freed
  client_sockfd,  \* per connection, its descriptor
  on,             \* per connection, what its recv was called on
  buffer,         \* per connection, the chunk in its buffer
  client,         \* per connection, the client: away, open or closed
  sent,           \* per connection, how many chunks the client has sent
  outbox,         \* per connection, those the server has not received
  got,            \* per connection, what its client has got in answer
  stamps,         \* how many timestamps have been taken
  starts,         \* how often the server has been started
  ended           \* how the process before this one ended

files   == <<fds, sockfd, datafd, data, exists>>
flags   == <<mutex, signal_exit>>
threads == <<thread_list, new_thread, todo, target, joined, freed>>
locals  == <<client_sockfd, on, buffer>>
clients == <<client, sent, outbox, got>>
history == <<stamps, starts, ended>>
vars == <<proc, files, flags, pc, threads, locals, clients, history>>

Thread == Conn \cup {Main, Stamper}

ASSUME ThreadAssumption ==
  /\ IsFiniteSet(Conn) /\ Main \notin Conn /\ Stamper \notin Conn \cup {Main}
  /\ NoThread \notin Thread

\* What a descriptor stands for.
Closed == [kind |-> "closed"]
Tty    == [kind |-> "tty"]
Listen == [kind |-> "listen"]
OpenFile(pos) == [kind |-> "file", pos |-> pos]
Socket(c)     == [kind |-> "socket", of |-> c]

\* Standard input, output and error, and room for what the server opens.
Fd == 0 .. 3 + 2 * Cardinality(Conn)
Standard == [n \in Fd |-> IF n < 3 THEN Tty ELSE Closed]

Resource == {Closed, Tty, Listen} \cup {Socket(c) : c \in Conn}
              \cup [kind : {"file"}, pos : Nat]

\* A buffer after the memset, and one that holds a chunk.
Zeroed == [kind |-> "zeroed"]
Chunk == [from : Conn \cup {Stamper}, n : Nat, kind : {"text", "line", "seekto"}]

SetUpPlaces  == {"start", "socket", "bind", "listen", "stamper"}
MainPlaces   == SetUpPlaces
                  \cup {"accept", "create", "insert", "scan", "join", "remove"}
WorkerPlaces == {"unborn", "open", "recv", "receiving", "lock", "write", "ioctl",
                 "unlock", "lseek", "read", "send", "close_data",
                 "close_socket", "done", "exited", "gone"}
StamperPlaces == {"unborn", "lock", "write", "unlock", "sleep", "exited"}
CleanupPlaces == {"cleanup", "cleanup_first", "cleanup_pop", "cleanup_join"}

\* A signal comes in main's own code; one more during cleanup is left out.
ASSUME ParameterAssumption ==
  /\ Kind \subseteq {"text", "line", "seekto"}
  /\ SignalAt \subseteq MainPlaces
  /\ UseCharDevice \in BOOLEAN
ASSUME BoundAssumption ==
  MaxChunks \in Nat /\ MaxStamps \in Nat /\ MaxStarts \in Nat \ {0}

Init ==
  /\ proc = "running"
  /\ fds = Standard /\ sockfd = 0 /\ datafd = 0
  /\ data = <<>> /\ exists = UseCharDevice
  /\ mutex = NoThread /\ signal_exit = FALSE
  /\ pc = [t \in Thread |-> IF t = Main THEN "start" ELSE "unborn"]
  /\ thread_list = <<>> /\ todo = <<>>
  /\ new_thread = NoThread
  /\ target = [t \in Thread |-> NoThread]
  /\ joined = {} /\ freed = {}
  /\ client_sockfd = [c \in Conn |-> -1]
  /\ on = [c \in Conn |-> Closed]
  /\ buffer = [c \in Conn |-> Zeroed]
  /\ client = [c \in Conn |-> "away"] /\ sent = [c \in Conn |-> 0]
  /\ outbox = [c \in Conn |-> <<>>] /\ got = [c \in Conn |-> <<>>]
  /\ stamps = 0 /\ starts = 1 /\ ended = "never"

\* A thread of the running process is at a place, and goes to one.
At(t, place) == proc = "running" /\ pc[t] = place
Goto(t, place) == pc' = [pc EXCEPT ![t] = place]

----------------------------------------------------------------------------
(* The clients, and what the kernel does.                                  *)

ClientSends(c) ==
  /\ proc = "running" /\ client[c] = "open" /\ sent[c] < MaxChunks
  /\ \E kind \in Kind :
       outbox' = [outbox EXCEPT ![c] =
                    Append(@, [from |-> c, n |-> sent[c] + 1, kind |-> kind])]
  /\ sent' = [sent EXCEPT ![c] = @ + 1]
  /\ UNCHANGED <<proc, files, flags, pc, threads, locals, client, got, history>>

ClientCloses(c) ==
  /\ proc = "running" /\ client[c] = "open"
  /\ Patient => outbox[c] = <<>> /\ pc[c] = "receiving"
  /\ client' = [client EXCEPT ![c] = "closed"]
  /\ UNCHANGED <<proc, files, flags, pc, threads, locals, sent, outbox, got, history>>

\* Regression: a descriptor is never closed.
CloseForgotten(n) == fds

Close(n) == [fds EXCEPT ![n] = Closed]

LowestFree == Min({n \in Fd : fds[n] = Closed})

\* Regression: the chunk is written again although it was written whole.
StoredTwice(chunk) == data \o <<chunk, chunk>>

\* The data once a chunk has been written: O_APPEND.
Stored(chunk) == Append(data, chunk)

\* send or write of a chunk to the socket of d: SIGPIPE once its client is gone.
Deliver(d, chunk) ==
  /\ got' = [got EXCEPT ![d] = Append(@, chunk)]
  /\ proc' \in {"running"} \cup IF client[d] = "closed" THEN {"killed"} ELSE {}

\* write(datafd, ...) of a chunk, where datafd is a descriptor that takes it.
\* The position ends up behind what has been written.
WriteData(chunk) ==
  \/ /\ fds[datafd].kind = "file"
     /\ data' = Stored(chunk)
     /\ fds' = [fds EXCEPT ![datafd] = OpenFile(Len(data'))]
     /\ UNCHANGED <<proc, got>>
  \/ /\ fds[datafd].kind = "socket"
     /\ Deliver(fds[datafd].of, chunk)
     /\ UNCHANGED <<fds, data>>

----------------------------------------------------------------------------
(* handle_connection                                                       *)

\* The open of the data file; every thread stores its descriptor in the same
\* global.  Then the malloc of the buffer.
Open(c) ==
  /\ At(c, "open")
  /\ fds' = [fds EXCEPT ![LowestFree] = OpenFile(0)]
  /\ datafd' = LowestFree
  /\ exists' = TRUE
  /\ \/ Goto(c, "recv")
     \/ "malloc" \in Failures /\ Goto(c, "cleanup")
  /\ UNCHANGED <<proc, sockfd, data, flags, threads, locals, clients, history>>

\* Regression: the result of open is not looked at.
OpenFailsUnnoticed(c) ==
  /\ At(c, "open") /\ "open" \in Failures
  /\ datafd' = -1
  /\ Goto(c, "recv")
  /\ UNCHANGED <<proc, fds, sockfd, data, exists, flags, threads, locals, clients, history>>

\* The open fails: the process exits on the spot.
OpenFails(c) ==
  /\ At(c, "open") /\ "open" \in Failures
  /\ proc' = "exited"
  /\ UNCHANGED <<files, flags, pc, threads, locals, clients, history>>

\* recv is called: it keeps hold of the descriptor's socket while it waits.
CallRecv(c) ==
  /\ At(c, "recv")
  /\ on' = [on EXCEPT ![c] = fds[client_sockfd[c]]]
  /\ buffer' = [buffer EXCEPT ![c] = Zeroed]
  /\ Goto(c, "receiving")
  /\ UNCHANGED <<proc, files, flags, threads, client_sockfd, clients, history>>

Receive(c) ==
  /\ At(c, "receiving") /\ on[c].kind = "socket"
  /\ LET d == on[c].of
     IN  /\ outbox[d] # <<>>
         /\ buffer' = [buffer EXCEPT ![c] = Head(outbox[d])]
         /\ outbox' = [outbox EXCEPT ![d] = Tail(@)]
         /\ Goto(c, IF ~UseCharDevice THEN "lock"
                    ELSE IF Head(outbox[d]).kind = "seekto" THEN "ioctl"
                    ELSE "write")
  /\ got' = [got EXCEPT ![c] = <<>>]
  /\ UNCHANGED <<proc, files, flags, threads, client_sockfd, on, client, sent, history>>

\* Regression: recv's 0, the end of the stream, does not end the loop.
RecvEndsIgnored(c) ==
  /\ At(c, "receiving")
  /\ on[c].kind = "socket" =>
       client[on[c].of] = "closed" /\ outbox[on[c].of] = <<>>
  /\ Goto(c, "recv")
  /\ UNCHANGED <<proc, files, flags, threads, locals, clients, history>>

\* recv returns 0 at the end of the stream, or fails.
RecvEnds(c) ==
  /\ At(c, "receiving")
  /\ on[c].kind = "socket" =>
       client[on[c].of] = "closed" /\ outbox[on[c].of] = <<>>
  /\ Goto(c, "close_data")
  /\ UNCHANGED <<proc, files, flags, threads, locals, clients, history>>

Lock(t) ==
  /\ At(t, "lock") /\ mutex = NoThread
  /\ mutex' = t
  /\ Goto(t, "write")
  /\ UNCHANGED <<proc, files, signal_exit, threads, locals, clients, history>>

\* Regression: the file is read from where the write has left it.
AnswerWithoutRewind(c) == IF buffer[c].kind = "text" THEN "recv" ELSE "read"

\* memchr(buffer, '\n', ...): where the thread goes after write and unlock.
Answer(c) == IF buffer[c].kind = "text" THEN "recv"
             ELSE IF UseCharDevice THEN "read" ELSE "lseek"

Write(c) ==
  /\ At(c, "write")
  /\ WriteData(buffer[c])
  /\ Goto(c, "unlock")
  /\ UNCHANGED <<sockfd, datafd, exists, flags, threads, locals, client, sent, outbox, history>>

\* write or read returns -1: the thread takes a mutex it has along into cleanup.
Fails(c) ==
  /\ \/ \E call \in {"write", "read"} \cap Failures : At(c, call)
     \/ (At(c, "write") \/ At(c, "read")) /\ fds[datafd] = Closed
  /\ Goto(c, "cleanup")
  /\ UNCHANGED <<proc, files, flags, threads, locals, clients, history>>

Unlock(t) ==
  /\ At(t, "unlock")
  /\ mutex' = NoThread
  /\ Goto(t, IF t = Stamper THEN "sleep" ELSE Answer(t))
  /\ UNCHANGED <<proc, files, signal_exit, threads, locals, clients, history>>

\* lseek(datafd, 0, SEEK_SET): without the mutex, and nobody looks if it fails.
Rewind(c) ==
  /\ At(c, "lseek")
  /\ fds' = IF fds[datafd].kind # "file" THEN fds
            ELSE [fds EXCEPT ![datafd] = OpenFile(0)]
  /\ Goto(c, "read")
  /\ UNCHANGED <<proc, sockfd, datafd, data, exists, flags, threads, locals, clients, history>>

\* read gives the next chunk of the file, or whatever else datafd is open on.
Read(c) ==
  /\ At(c, "read")
  /\ \/ /\ fds[datafd].kind = "file"
        /\ fds[datafd].pos < Len(data)
        /\ buffer' = [buffer EXCEPT ![c] = data[fds[datafd].pos + 1]]
        /\ fds' = [fds EXCEPT ![datafd] = OpenFile(@.pos + 1)]
        /\ UNCHANGED outbox
     \/ /\ fds[datafd].kind = "socket"
        /\ LET d == fds[datafd].of
           IN  /\ outbox[d] # <<>>
               /\ buffer' = [buffer EXCEPT ![c] = Head(outbox[d])]
               /\ outbox' = [outbox EXCEPT ![d] = Tail(@)]
        /\ UNCHANGED fds
  /\ Goto(c, "send")
  /\ UNCHANGED <<proc, sockfd, datafd, data, exists, flags, threads, client_sockfd, on,
                 client, sent, got, history>>

\* read returns 0: the answer is complete.
ReadEnds(c) ==
  /\ At(c, "read")
  /\ \/ fds[datafd].kind = "file" /\ fds[datafd].pos >= Len(data)
     \/ /\ fds[datafd].kind = "socket"
        /\ client[fds[datafd].of] = "closed" /\ outbox[fds[datafd].of] = <<>>
  /\ Goto(c, "recv")
  /\ UNCHANGED <<proc, files, flags, threads, locals, clients, history>>

\* Nobody looks whether send fails.
Send(c) ==
  /\ At(c, "send")
  /\ LET to == fds[client_sockfd[c]]
     IN  IF to.kind = "socket" THEN Deliver(to.of, buffer[c])
         ELSE UNCHANGED <<proc, got>>
  /\ Goto(c, "read")
  /\ UNCHANGED <<files, flags, threads, locals, client, sent, outbox, history>>

\* close(datafd), whoever opened what it stands for now.
CloseData(c) ==
  /\ At(c, "close_data")
  /\ fds' = Close(datafd)
  /\ Goto(c, "close_socket")
  /\ UNCHANGED <<proc, sockfd, datafd, data, exists, flags, threads, locals, clients, history>>

\* Regression: the client's socket is not closed.
CloseSocketForgotten(c) ==
  /\ At(c, "close_socket")
  /\ Goto(c, "done")
  /\ UNCHANGED <<proc, files, flags, threads, locals, clients, history>>

CloseSocket(c) ==
  /\ At(c, "close_socket")
  /\ fds' = Close(client_sockfd[c])
  /\ Goto(c, "done")
  /\ UNCHANGED <<proc, sockfd, datafd, data, exists, flags, threads, locals, clients, history>>

\* work_done = 1, and the thread returns.
WorkDone(c) ==
  /\ At(c, "done")
  /\ Goto(c, "exited")
  /\ client_sockfd' = [client_sockfd EXCEPT ![c] = -1]
  /\ on' = [on EXCEPT ![c] = Closed]
  /\ buffer' = [buffer EXCEPT ![c] = Zeroed]
  /\ UNCHANGED <<proc, files, flags, threads, clients, history>>

\* The steps of handle_connection that are the same whatever datafd stands for,
\* and those on the data file.
Serve(c) ==
  \/ OpenFails(c) \/ CallRecv(c) \/ Receive(c) \/ RecvEnds(c) \/ Send(c)
  \/ CloseSocket(c) \/ WorkDone(c)

OnFile(c) ==
  \/ Open(c) \/ Lock(c) \/ Write(c) \/ Fails(c) \/ Unlock(c)
  \/ Rewind(c) \/ Read(c) \/ ReadEnds(c) \/ CloseData(c)

Worker(c) == Serve(c) \/ OnFile(c)

----------------------------------------------------------------------------
(* timestamp_handler                                                       *)

Answering(c) == pc[c] \in {"write", "unlock", "lseek", "read", "send"}

LockToStamp ==
  /\ StampAnytime \/ \A c \in Conn : ~Answering(c)
  /\ Lock(Stamper)

Stamp ==
  /\ At(Stamper, "write")
  /\ stamps' = stamps + 1
  /\ \/ WriteData([from |-> Stamper, n |-> stamps', kind |-> "line"])
     \/ /\ fds[datafd].kind = "listen" /\ proc' = "killed"
        /\ UNCHANGED <<fds, data, got>>
     \/ /\ fds[datafd].kind \in {"tty", "closed"}
        /\ UNCHANGED <<proc, fds, data, got>>
  /\ Goto(Stamper, "unlock")
  /\ UNCHANGED <<sockfd, datafd, exists, flags, threads, locals, client, sent, outbox,
                 starts, ended>>

\* The ten seconds are over.
Wake ==
  /\ At(Stamper, "sleep")
  /\ \/ signal_exit /\ Goto(Stamper, "exited")
     \/ ~signal_exit /\ stamps < MaxStamps /\ Goto(Stamper, "lock")
  /\ UNCHANGED <<proc, files, flags, threads, locals, clients, history>>

----------------------------------------------------------------------------
(* main: setting up                                                        *)

\* daemonize: the child of the fork goes on, without descriptors 0 to 2.  Then
\* the signal handlers, and SLIST_INIT.
Start ==
  /\ At(Main, "start")
  /\ \/ /\ fds' = IF Daemon THEN [n \in Fd |-> Closed] ELSE fds
        /\ Goto(Main, "socket")
     \/ /\ Daemon /\ "daemonize" \in Failures
        /\ Goto(Main, "cleanup") /\ UNCHANGED fds
  /\ UNCHANGED <<proc, sockfd, datafd, data, exists, flags, threads, locals, clients, history>>

CreateSocket ==
  /\ At(Main, "socket")
  /\ \/ /\ sockfd' = LowestFree
        /\ fds' = [fds EXCEPT ![LowestFree] = Listen]
        /\ Goto(Main, "bind")
     \/ /\ "socket" \in Failures
        /\ sockfd' = -1 /\ UNCHANGED fds
        /\ Goto(Main, "cleanup")
  /\ UNCHANGED <<proc, datafd, data, exists, flags, threads, locals, clients, history>>

\* setsockopt and bind
Bind ==
  /\ At(Main, "bind")
  /\ \/ Goto(Main, "listen")
     \/ "bind" \in Failures /\ Goto(Main, "cleanup")
  /\ UNCHANGED <<proc, files, flags, threads, locals, clients, history>>

\* A listen that fails ends the process without cleanup.
ListenOn ==
  /\ At(Main, "listen")
  /\ \/ /\ Goto(Main, IF UseCharDevice THEN "accept" ELSE "stamper")
        /\ UNCHANGED <<proc, fds>>
     \/ /\ "listen" \in Failures
        /\ fds' = Close(sockfd)
        /\ proc' = "exited" /\ UNCHANGED pc
  /\ UNCHANGED <<sockfd, datafd, data, exists, flags, threads, locals, clients, history>>

\* pthread_create of the timestamp thread, which begins to stamp at once.
CreateStamper ==
  /\ At(Main, "stamper")
  /\ \/ pc' = [pc EXCEPT ![Main] = "accept",
                           ![Stamper] = IF stamps < MaxStamps THEN "lock" ELSE "sleep"]
     \/ "create" \in Failures /\ Goto(Main, "cleanup")
  /\ UNCHANGED <<proc, files, flags, threads, locals, clients, history>>

SetUp == Start \/ CreateSocket \/ Bind \/ ListenOn \/ CreateStamper

----------------------------------------------------------------------------
(* main: the accept loop                                                   *)

\* A client connects and is accepted.
Accept(c) ==
  /\ At(Main, "accept")
  /\ client[c] = "away"
  /\ Overlap \/ \A d \in Conn \ {c} : client[d] = "away" \/ pc[d] \in {"exited", "gone"}
  /\ client' = [client EXCEPT ![c] = "open"]
  /\ fds' = [fds EXCEPT ![LowestFree] = Socket(c)]
  /\ client_sockfd' = [client_sockfd EXCEPT ![c] = LowestFree]
  /\ new_thread' = c
  /\ \/ Goto(Main, "create")
     \/ "malloc" \in Failures /\ Goto(Main, "cleanup")
  /\ UNCHANGED <<proc, sockfd, datafd, data, exists, flags, thread_list, todo, target,
                 joined, freed, on, buffer, sent, outbox, got, history>>

\* pthread_create
Create ==
  /\ At(Main, "create")
  /\ \/ pc' = [pc EXCEPT ![Main] = "insert", ![new_thread] = "open"]
     \/ "create" \in Failures /\ Goto(Main, "cleanup")
  /\ UNCHANGED <<proc, files, flags, threads, locals, clients, history>>

\* SLIST_INSERT_HEAD, and the start of SLIST_FOREACH_SAFE.
Insert ==
  /\ At(Main, "insert")
  /\ thread_list' = <<new_thread>> \o thread_list
  /\ todo' = thread_list'
  /\ Goto(Main, "scan")
  /\ UNCHANGED <<proc, files, flags, new_thread, target, joined, freed, locals,
                 clients, history>>

\* When pthread_join returns 0.
Joinable(c) == pc[c] = "exited" /\ c \notin joined

\* Some thread but t is in pthread_join for c.
BeingJoined(c, t) ==
  \/ \E u \in Thread \ {t} : pc[u] = "cleanup_join" /\ target[u] = c
  \/ t # Main /\ pc[Main] = "join" /\ Head(todo) = c

\* What may become of the process when it uses the thread_info_t of cs: a use
\* after free does nothing, or ends it.
AfterUseOf(cs) == {"running"} \cup IF cs \cap freed # {} THEN {"killed"} ELSE {}

\* Regression: the walk joins without a look at work_done.
ScanUnfinished ==
  /\ At(Main, "scan")
  /\ Goto(Main, IF todo = <<>> THEN "accept" ELSE "join")
  /\ UNCHANGED <<proc, files, flags, threads, locals, clients, history>>

\* One step of the walk: the next thread is joined if its work_done is set.  It
\* may have been freed meanwhile by the cleanup of another thread: what was
\* work_done then holds anything.
Scan ==
  /\ At(Main, "scan")
  /\ \/ todo = <<>> /\ Goto(Main, "accept") /\ UNCHANGED <<todo, proc>>
     \/ /\ todo # <<>> /\ pc[Head(todo)] = "exited"
        /\ Goto(Main, "join") /\ UNCHANGED todo
        /\ proc' \in AfterUseOf({Head(todo)})
     \/ /\ todo # <<>> /\ (pc[Head(todo)] # "exited" \/ Head(todo) \in freed)
        /\ todo' = Tail(todo) /\ UNCHANGED <<pc, proc>>
  /\ UNCHANGED <<files, flags, thread_list, new_thread, target, joined,
                 freed, locals, clients, history>>

\* pthread_join, which fails for a thread that another one is joining and, at
\* best, for one that has been joined.
Join ==
  LET c == Head(todo)
  IN  /\ At(Main, "join")
      /\ \/ /\ Joinable(c)
            /\ joined' = joined \cup {c}
            /\ Goto(Main, "remove") /\ UNCHANGED proc
         \/ /\ c \in joined \/ BeingJoined(c, Main)
            /\ Goto(Main, "cleanup") /\ UNCHANGED joined
            /\ proc' \in {"running"} \cup IF c \in joined THEN {"killed"} ELSE {}
      /\ UNCHANGED <<files, flags, thread_list, new_thread, todo, target, freed,
                     locals, clients, history>>

\* Regression: SLIST_REMOVE leaves the thread in the list.
NotUnlinked(c) == thread_list

\* Regression: SLIST_REMOVE loses what follows the thread.
UnlinkedWithTail(c) ==
  SubSeq(thread_list, 1, SelectInSeq(thread_list, LAMBDA d : d = c) - 1)

\* SLIST_REMOVE
Unlinked(c) == RemoveFirst(thread_list, c)

\* SLIST_REMOVE, which looks for the thread from the head on and runs off the
\* end of a list without it, and free.
RemoveJoined ==
  /\ At(Main, "remove")
  /\ thread_list' = Unlinked(Head(todo))
  /\ proc' \in IF Contains(thread_list, Head(todo)) THEN AfterUseOf(ToSet(thread_list))
               ELSE {"killed"}
  /\ freed' = freed \cup {Head(todo)}
  /\ todo' = Tail(todo)
  /\ Goto(Main, "scan")
  /\ UNCHANGED <<files, flags, new_thread, target, joined, locals, clients, history>>

\* A signal: the kernel picks the main thread, and handle_signal, once it has
\* been set, cleans up.
Signal ==
  /\ \E place \in SignalAt : At(Main, place)
  /\ IF pc[Main] = "start" THEN proc' = "killed" /\ UNCHANGED pc
     ELSE Goto(Main, "cleanup") /\ UNCHANGED proc
  /\ UNCHANGED <<files, flags, threads, locals, clients, history>>

----------------------------------------------------------------------------
(* cleanup(), in whatever thread                                           *)

\* signal_exit = 1 and SLIST_EMPTY.  Nothing keeps main, or another cleanup, from
\* thread_list between this and the next two steps.
TestList(t) ==
  /\ At(t, "cleanup") /\ thread_list # <<>>
  /\ signal_exit' = TRUE
  /\ Goto(t, "cleanup_first")
  /\ UNCHANGED <<proc, files, mutex, threads, locals, clients, history>>

\* SLIST_FIRST, which is NULL if the list has become empty.
TakeFirst(t) ==
  /\ At(t, "cleanup_first")
  /\ target' = [target EXCEPT ![t] = IF thread_list = <<>> THEN NoThread
                                     ELSE Head(thread_list)]
  /\ Goto(t, "cleanup_pop")
  /\ UNCHANGED <<proc, files, flags, thread_list, new_thread, todo, joined, freed,
                 locals, clients, history>>

\* SLIST_REMOVE_HEAD, of whatever is the head by now, and the thread_id of what
\* has been taken.
RemoveHead(t) ==
  /\ At(t, "cleanup_pop") /\ thread_list # <<>> /\ target[t] # NoThread
  /\ thread_list' = Tail(thread_list)
  /\ proc' \in AfterUseOf({Head(thread_list), target[t]})
  /\ Goto(t, "cleanup_join")
  /\ UNCHANGED <<files, flags, new_thread, todo, target, joined, freed, locals,
                 clients, history>>

\* One of the two is NULL.
RemoveHeadCrashes(t) ==
  /\ At(t, "cleanup_pop") /\ (thread_list = <<>> \/ target[t] = NoThread)
  /\ proc' = "killed"
  /\ UNCHANGED <<files, flags, pc, threads, locals, clients, history>>

\* Regression: the thread is freed without being joined.
FreeUnjoined(t) ==
  /\ At(t, "cleanup_join")
  /\ freed' = freed \cup {target[t]}
  /\ Goto(t, "cleanup")
  /\ UNCHANGED <<proc, files, flags, thread_list, new_thread, todo, target, joined,
                 locals, clients, history>>

\* pthread_join and free
JoinThread(t) ==
  /\ At(t, "cleanup_join") /\ Joinable(target[t])
  /\ joined' = joined \cup {target[t]}
  /\ freed' = freed \cup {target[t]}
  /\ Goto(t, "cleanup")
  /\ UNCHANGED <<proc, files, flags, thread_list, new_thread, todo, target,
                 locals, clients, history>>

\* pthread_join fails, of the thread itself, of one that is joining this one, of
\* one that another is joining or, at best, of one that has been joined: the
\* process exits at once.
JoinFails(t) ==
  /\ At(t, "cleanup_join")
  /\ \/ /\ \/ target[t] = t \/ BeingJoined(target[t], t)
           \/ pc[target[t]] = "cleanup_join" /\ target[target[t]] = t
        /\ proc' = "exited"
     \/ target[t] \in joined /\ proc' \in {"exited", "killed"}
  /\ UNCHANGED <<files, flags, pc, threads, locals, clients, history>>

\* No thread is left: the data file is deleted and the process exits.
Exit(t) ==
  /\ At(t, "cleanup") /\ thread_list = <<>>
  /\ signal_exit' = TRUE
  /\ exists' = UseCharDevice
  /\ proc' = "exited"
  /\ UNCHANGED <<fds, sockfd, datafd, data, mutex, pc, threads, locals, clients, history>>

----------------------------------------------------------------------------
\* Regression: what the data file held is still there.
Remains == data

\* What the next server finds in the data file.
Left == IF exists THEN data ELSE <<>>

\* The server is started again after it has ended, on purpose or not.
Restart ==
  /\ proc # "running" /\ starts < MaxStarts
  /\ proc' = "running" /\ starts' = starts + 1 /\ ended' = proc
  /\ fds' = Standard /\ sockfd' = 0 /\ datafd' = 0
  /\ data' = Left
  /\ mutex' = NoThread /\ signal_exit' = FALSE
  /\ pc' = [t \in Thread |-> IF t = Main THEN "start"
                             ELSE IF t = Stamper THEN "unborn"
                             ELSE IF client[t] = "away" THEN "unborn" ELSE "gone"]
  /\ thread_list' = <<>> /\ todo' = <<>>
  /\ target' = [t \in Thread |-> NoThread]
  /\ joined' = {} /\ freed' = {}
  /\ client_sockfd' = [c \in Conn |-> -1]
  /\ on' = [c \in Conn |-> Closed]
  /\ buffer' = [c \in Conn |-> Zeroed]
  /\ client' = [c \in Conn |-> IF client[c] = "away" THEN "away" ELSE "closed"]
  /\ sent' = [c \in Conn |-> 0]
  /\ outbox' = [c \in Conn |-> <<>>] /\ got' = [c \in Conn |-> <<>>]
  /\ new_thread' = NoThread
  /\ UNCHANGED <<exists, stamps>>

Cleanup(t) ==
  \/ TestList(t) \/ TakeFirst(t) \/ RemoveHead(t) \/ RemoveHeadCrashes(t)
  \/ JoinThread(t) \/ JoinFails(t) \/ Exit(t)

StamperStep == LockToStamp \/ Stamp \/ Unlock(Stamper) \/ Wake

MainStep == SetUp \/ Create \/ Insert \/ Scan \/ Join \/ RemoveJoined

\* The process is gone, or waits for clients that do not come.
Rest ==
  /\ \/ proc # "running"
     \/ /\ pc[Main] = "accept" /\ pc[Stamper] \in {"unborn", "sleep", "exited"}
        /\ \A c \in Conn : pc[c] \in {"exited", "gone"}
  /\ UNCHANGED vars

Client(c) == Accept(c) \/ ClientSends(c) \/ ClientCloses(c)

Next ==
  \/ \E c \in Conn : Client(c) \/ Worker(c)
  \/ MainStep \/ StamperStep \/ Signal \/ Restart
  \/ \E t \in Conn \cup {Main} : Cleanup(t)
  \/ Rest

Spec == Init /\ [][Next]_vars

\* The scheduler runs every thread.  Clients need not come, send or close, and
\* signals need not come.
Fairness ==
  /\ \A c \in Conn : WF_vars(Worker(c))
  /\ \A t \in Conn \cup {Main} : WF_vars(Cleanup(t))
  /\ WF_vars(MainStep)
  /\ WF_vars(StamperStep)

FairSpec == Spec /\ Fairness
=============================================================================
