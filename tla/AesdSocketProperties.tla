------------------------ MODULE AesdSocketProperties ------------------------
(***************************************************************************)
(* What the server promises its clients, what it keeps track of, and how   *)
(* it ends.                                                                *)
(***************************************************************************)
EXTENDS AesdSocket

TypeOK ==
  /\ proc \in {"running", "exited", "killed"}
  /\ fds \in [Fd -> Resource]
  /\ sockfd \in Fd \cup {-1} /\ datafd \in Fd
  /\ data \in Seq(Chunk)
  /\ exists \in BOOLEAN /\ signal_exit \in BOOLEAN
  /\ mutex \in Thread \cup {NoThread}
  /\ pc[Main] \in MainPlaces \cup CleanupPlaces
  /\ pc[Stamper] \in StamperPlaces
  /\ \A c \in Conn : pc[c] \in WorkerPlaces \cup CleanupPlaces
  /\ thread_list \in Seq(Conn) /\ todo \in Seq(Conn) /\ new_thread \in Conn \cup {NoThread}
  /\ target \in [Thread -> Conn \cup {NoThread}]
  /\ joined \subseteq Conn /\ freed \subseteq joined
  /\ client_sockfd \in [Conn -> Fd \cup {-1}]
  /\ on \in [Conn -> Resource]
  /\ buffer \in [Conn -> Chunk \cup {Zeroed}]
  /\ client \in [Conn -> {"away", "open", "closed"}]
  /\ sent \in [Conn -> 0 .. MaxChunks]
  /\ outbox \in [Conn -> Seq(Chunk)] /\ got \in [Conn -> Seq(Chunk)]
  /\ stamps \in 0 .. MaxStamps /\ starts \in 1 .. MaxStarts
  /\ ended \in {"never", "exited", "killed"}

\* A connection without a thread that runs.
Idle(c) == pc[c] \in {"unborn", "exited", "gone"}

----------------------------------------------------------------------------
(* What clients see.                                                       *)

\* "Send data back to client if a complete packet is received" (aesdsocket.c:203):
\* once the read loop of handle_connection ends the client has got the whole
\* file, and not nothing.
RepliesComplete ==
  [][\A c \in Conn : pc[c] = "read" /\ pc'[c] = "recv" =>
       got[c] # <<>> /\ got[c] = data]_vars

Received(c) == sent[c] - Len(outbox[c])

\* Between two chunks of a connection, and after its last, the file holds what
\* handle_connection has received on it: all of it, once, and in order.
ReceivedIsStored ==
  \A c \in Conn :
    pc[c] \in {"recv", "receiving", "close_data", "close_socket", "done", "exited"} =>
      LET written == {i \in DOMAIN data : data[i].from = c}
      IN  /\ {data[i].n : i \in written} = 1 .. Received(c)
          /\ \A i, j \in written : i < j => data[i].n < data[j].n

\* "Append timestamp to /var/tmp/aesdsocketdata" (aesdsocket.c:245): whatever
\* datafd stands for when timestamp_handler writes to it, it is no client's
\* socket.  Clients get answers, and nothing between them.
ClientsGetAnswers ==
  [][\A c \in Conn : Len(got'[c]) > Len(got[c]) => pc[c] = "send"]_vars

----------------------------------------------------------------------------
(* What the server keeps track of.                                         *)

\* handle_connection closes what it and accept have opened: between clients the
\* descriptor table is as it was at the start.
DescriptorsBalanced ==
  pc[Main] = "accept" /\ (\A c \in Conn : Idle(c)) =>
    \A n \in Fd : fds[n] = IF n = sockfd THEN Listen
                           ELSE IF n < 3 /\ ~Daemon THEN Tty ELSE Closed

\* As long as clients come one at a time main's walk over thread_list leaves at
\* most the thread it has just started.
FinishedThreadsReaped == pc[Main] = "accept" => Len(thread_list) <= 1

\* No connection's thread is in cleanup.  (One that gets there never leaves it.)
OnlyMainCleans == \A c \in Conn : pc[c] \notin CleanupPlaces

\* A thread_info_t that is freed is out of use: its thread has set work_done and,
\* as long as main alone takes threads out of thread_list, it is not listed.
ThreadInfoIsLive ==
  proc = "running" =>
    /\ \A c \in freed : pc[c] = "exited"
    /\ OnlyMainCleans => ToSet(thread_list) \cap freed = {}

\* As long as main alone takes threads out of thread_list none is lost: a thread
\* that has been started is in it, or main is about to insert it, or joining it,
\* or has joined it.
ThreadsAccounted ==
  proc = "running" /\ OnlyMainCleans =>
    \A c \in Conn : pc[c] \notin {"unborn", "gone"} =>
      \/ c \in joined
      \/ Contains(thread_list, c)
      \/ pc[Main] = "insert" /\ new_thread = c
      \/ pc[Main] = "cleanup_join" /\ target[Main] = c

----------------------------------------------------------------------------
(* How it ends.                                                            *)

\* "Clean up threads" (aesdsocket.c:64): no connection is cut off by an exit.
ExitJoinsWorkers ==
  proc = "exited" => \A c \in Conn : Idle(c)

\* "Delete the file" (aesdsocket.c:84): after an orderly end the clients of the
\* next server get nothing that clients of this one have sent.
ExitForgetsData ==
  ended = "exited" =>
    \A c \in Conn : \A i \in DOMAIN got[c] :
      got[c][i].from \in Conn => pc[got[c][i].from] # "gone"

\* The accept loop gets to accept again and again, whatever the walk over
\* thread_list and its pthread_join meet, or goes to cleanup.
MainReturns ==
  []<>(pc[Main] \notin MainPlaces \ {"accept"} \/ proc # "running")

\* "Caught signal, exiting" (aesdsocket.c:97): main's cleanup ends the process
\* once the clients have left.  It does not stay there with no client left.
ShutdownCompletes ==
  []<>(\/ pc[Main] \notin CleanupPlaces
       \/ \E c \in Conn : client[c] = "open"
       \/ proc # "running")
=============================================================================
