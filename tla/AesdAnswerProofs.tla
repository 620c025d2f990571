-------------------------- MODULE AesdAnswerProofs --------------------------
(***************************************************************************)
(* The server when clients come one at a time: its descriptors, what it    *)
(* stores and answers, and how it ends, for any number of connections,     *)
(* chunks, timestamps and restarts.                                        *)
(***************************************************************************)
EXTENDS AesdSocketProofs

\* Clients come one at a time, no call fails, signals come in accept.
Sequential == ~Overlap /\ Failures = {} /\ SignalAt \subseteq {"accept"}

----------------------------------------------------------------------------
(* Who runs, and what is open.                                             *)

\* A thread that has its client's socket, and one that has its file.
SocketPlaces == WorkerPlaces \ {"unborn", "done", "exited", "gone"}
FilePlaces   == SocketPlaces \ {"open", "close_socket"}

\* Only the thread main has started last runs.
RunInv ==
  /\ \A c \in Conn : pc[c] \in WorkerPlaces
  /\ \A c \in Conn \ {new_thread} : Idle(c)
  /\ pc[Main] \in SetUpPlaces => \A c \in Conn : pc[c] \in {"unborn", "gone"}

HasSocket == pc[Main] = "create" \/ \E c \in Conn : pc[c] \in SocketPlaces
HasFile   == \E c \in Conn : pc[c] \in FilePlaces

\* The descriptors of the listening socket, a client's socket and the file.
ListenFd == IF Daemon THEN 0 ELSE 3
ClientFd == ListenFd + 1
FileFd   == ListenFd + 2

\* What is below the listening socket, and whether that is there.
Below   == IF pc[Main] = "start" THEN 3 ELSE ListenFd
HasListen == pc[Main] \notin {"start", "socket"}

StandsRight(n) ==
  IF n < Below THEN fds[n] = Tty
  ELSE IF HasListen /\ n = ListenFd THEN fds[n] = Listen
  ELSE IF HasSocket /\ n = ClientFd THEN fds[n] = Socket(new_thread)
  ELSE IF HasFile /\ n = FileFd THEN fds[n].kind = "file"
  ELSE fds[n] = Closed

TableInv ==
  /\ HasListen => sockfd = ListenFd
  /\ HasSocket => client_sockfd[new_thread] = ClientFd
  /\ datafd \in {0, FileFd} /\ (HasFile => datafd = FileFd)
  /\ \A n \in Fd : StandsRight(n)

OnInv == \A c \in Conn : pc[c] = "receiving" => on[c] = Socket(c)

\* What is listed has not been joined, but for the thread main is about to remove.
JoinedInv ==
  /\ \A c \in Conn : Started(c) /\ c \notin joined =>
       \/ c \in ToSet(thread_list)
       \/ pc[Main] = "insert" /\ c = new_thread
       \/ pc[Main] = "cleanup_join" /\ c = target[Main]
  /\ \A c \in ToSet(thread_list) \cap joined : pc[Main] = "remove" /\ c = Head(todo)
  /\ pc[Main] \in {"scan", "join", "remove"} =>
       ToSet(todo) \subseteq ToSet(thread_list) /\ IsInjective(todo)
  /\ pc[Main] = "cleanup_join" => target[Main] \notin joined

EndInv == proc = "exited" => exists = UseCharDevice /\ \A c \in Conn : Idle(c)

----------------------------------------------------------------------------
(* Descriptors and places.                                                 *)

LEMMA Descriptors ==
  /\ ListenFd \in {0, 3} /\ ListenFd \in Fd /\ ListenFd <= 3
  /\ \A c \in Conn : ClientFd \in Fd /\ FileFd \in Fd
<1>1. Cardinality(Conn) \in Nat
  BY Table
<1>2. ListenFd \in {0, 3} /\ ListenFd \in Fd
  BY <1>1 DEF ListenFd, Fd
<1>3. ASSUME NEW c \in Conn PROVE ClientFd \in Fd /\ FileFd \in Fd
  <2>1. Cardinality({}) < Cardinality(Conn) /\ Cardinality({}) \in Nat
    BY <1>3, FiniteCounts
  <2>2. Cardinality(Conn) >= 1
    BY <1>1, <2>1
  <2> QED
    BY <1>1, <1>2, <2>2 DEF ClientFd, FileFd, ListenFd, Fd
<1> QED
  BY <1>2, <1>3

\* The lowest free descriptor is the one below which none is free.
LEMMA LowestIs ==
  ASSUME NEW k \in Fd, fds[k] = Closed, \A n \in Fd : n < k => fds[n] # Closed
  PROVE  LowestFree = k
<1> DEFINE free == {n \in Fd : fds[n] = Closed}
<1>1. free \subseteq Nat /\ k \in free
  BY Table
<1>2. \A m \in free : k <= m
  BY <1>1
<1>3. \A n \in free : (\A m \in free : n <= m) => n = k
  BY <1>1, <1>2
<1> HIDE DEF free
<1>4. Min(free) = k
  BY <1>1, <1>2, <1>3 DEF Min
<1> QED
  BY <1>4 DEF LowestFree, free

\* A thread that runs is the only one, and the sockets and files are its own.
LEMMA OneServes ==
  ASSUME ServerInv, RunInv, NEW c \in Conn, ~Idle(c)
  PROVE  /\ c = new_thread /\ pc[c] \in WorkerPlaces
         /\ pc[Main] \notin SetUpPlaces \cup {"create"}
         /\ HasSocket <=> pc[c] \in SocketPlaces
         /\ HasFile <=> pc[c] \in FilePlaces
         /\ \A d \in Conn : d # c => Idle(d)
<1>1. c = new_thread /\ pc[c] \in WorkerPlaces /\ \A d \in Conn : d # c => Idle(d)
  BY DEF RunInv
<1>2. pc[Main] \notin SetUpPlaces \cup {"create"}
  BY <1>1 DEF RunInv, Idle, ServerInv, ThreadInv, MainInv
<1> QED
  BY <1>1, <1>2 DEF HasSocket, HasFile, Idle, SocketPlaces, FilePlaces

\* It goes from place to place.
LEMMA ServesOn ==
  ASSUME ServerInv, RunInv, NEW c \in Conn, ~Idle(c), NEW place \in WorkerPlaces,
         place \notin {"unborn", "gone"}, Goto(c, place), UNCHANGED new_thread
  PROVE  /\ RunInv' /\ (HasSocket' <=> place \in SocketPlaces) /\ (HasFile' <=> place \in FilePlaces)
         /\ \A t \in Thread : t # c => pc'[t] = pc[t]
         /\ pc'[c] = place /\ pc'[Main] = pc[Main]
         /\ Below' = Below /\ (HasListen' <=> HasListen)
<1>1. /\ c = new_thread /\ pc[Main] \notin SetUpPlaces \cup {"create"}
      /\ \A d \in Conn : d # c => Idle(d)
  BY OneServes
<1>2. /\ \A t \in Thread : t # c => pc'[t] = pc[t]
      /\ pc'[c] = place /\ pc'[Main] = pc[Main]
      /\ \A d \in Conn : d # c => pc'[d] = pc[d]
  BY ThreadKinds DEF ServerInv, ThreadInv, ThreadTypes, Goto
<1>3. RunInv'
  BY <1>1, <1>2 DEF RunInv, Idle
<1>4. \A d \in Conn : d # c => pc'[d] \notin SocketPlaces
  BY <1>1, <1>2 DEF Idle, SocketPlaces
<1>5. (HasSocket' <=> place \in SocketPlaces)
  BY <1>1, <1>2, <1>4 DEF HasSocket
<1>6. (HasFile' <=> place \in FilePlaces)
  BY <1>2, <1>4 DEF HasFile, FilePlaces
<1> QED
  BY <1>2, <1>3, <1>5, <1>6 DEF Below, HasListen

LEMMA TableKept ==
  ASSUME TableInv, UNCHANGED <<fds, sockfd, datafd, client_sockfd, new_thread>>,
         Below' = Below, HasListen' <=> HasListen,
         HasSocket' <=> HasSocket, HasFile' <=> HasFile
  PROVE  TableInv'
BY DEF TableInv, StandsRight

----------------------------------------------------------------------------
(* The steps of handle_connection.                                         *)

\* What its descriptors stand for.
LEMMA Serving ==
  ASSUME ServerInv, RunInv, TableInv, NEW c \in Conn, ~Idle(c)
  PROVE  /\ ClientFd \in Fd /\ FileFd \in Fd /\ ClientFd # FileFd
         /\ HasListen
         /\ pc[c] \in SocketPlaces => client_sockfd[c] = ClientFd /\ fds[ClientFd] = Socket(c)
         /\ pc[c] \in FilePlaces => datafd = FileFd /\ fds[FileFd].kind = "file"
         /\ pc[c] \notin FilePlaces => fds[FileFd] = Closed
         /\ pc[c] \notin SocketPlaces => fds[ClientFd] = Closed
<1>1. /\ c = new_thread /\ pc[Main] \notin SetUpPlaces \cup {"create"}
      /\ HasSocket <=> pc[c] \in SocketPlaces
      /\ HasFile <=> pc[c] \in FilePlaces
  BY OneServes
<1>2. ClientFd \in Fd /\ FileFd \in Fd /\ ListenFd \in {0, 3}
  BY Descriptors
<1>3. HasListen /\ Below = ListenFd
  BY <1>1 DEF HasListen, Below, SetUpPlaces
<1>4. ClientFd = ListenFd + 1 /\ FileFd = ListenFd + 2
  BY DEF ClientFd, FileFd
<1>5. StandsRight(ClientFd) /\ StandsRight(FileFd)
  BY <1>2 DEF TableInv
<1> QED
  BY <1>1, <1>2, <1>3, <1>4, <1>5 DEF TableInv, StandsRight

\* A step that opens nothing and closes nothing.
LEMMA WorkerStays ==
  ASSUME ServerInv, RunInv, TableInv, NEW c \in Conn, ~Idle(c),
         NEW place \in WorkerPlaces \ {"unborn", "gone"}, Goto(c, place),
         UNCHANGED <<sockfd, datafd, client_sockfd, new_thread>>,
         pc[c] \in SocketPlaces <=> place \in SocketPlaces,
         pc[c] \in FilePlaces <=> place \in FilePlaces,
         \/ UNCHANGED fds
         \/ \E pos \in Nat : fds' = [fds EXCEPT ![datafd] = OpenFile(pos)]
            /\ pc[c] \in FilePlaces
  PROVE  RunInv' /\ TableInv'
<1>1. /\ RunInv' /\ (HasSocket' <=> HasSocket) /\ (HasFile' <=> HasFile)
      /\ Below' = Below /\ (HasListen' <=> HasListen)
  BY OneServes, ServesOn
<1>2. CASE UNCHANGED fds
  BY <1>1, <1>2, TableKept
<1>3. ASSUME NEW pos \in Nat, fds' = [fds EXCEPT ![datafd] = OpenFile(pos)],
             pc[c] \in FilePlaces
      PROVE  TableInv'
  <2>1. fds' = [fds EXCEPT ![FileFd] = OpenFile(pos)] /\ HasFile
    BY <1>3, Serving, OneServes
  <2>2. fds \in [Fd -> Resource] /\ OpenFile(pos).kind = "file"
    BY DEF ServerInv, DataTypes, FileTypes, OpenFile
  <2>3. ASSUME NEW n \in Fd PROVE StandsRight(n)'
    <3>1. StandsRight(n) /\ ListenFd \in {0, 3}
      BY Descriptors DEF TableInv
    <3>2. CASE n # FileFd
      <4>1. fds'[n] = fds[n]
        BY <2>1, <2>2, <3>2
      <4> QED
        BY <1>1, <3>1, <4>1 DEF StandsRight
    <3>3. CASE n = FileFd
      <4>1. fds'[n].kind = "file"
        BY <2>1, <2>2, <3>3
      <4>2. Below <= 3 /\ ~(n < Below) /\ n # ListenFd /\ n # ClientFd
        <5>1. pc[Main] \notin SetUpPlaces
          BY OneServes
        <5>2. Below = ListenFd
          BY <5>1 DEF Below, SetUpPlaces
        <5> QED
          BY <3>1, <3>3, <5>2 DEF FileFd, ClientFd
      <4> QED
        BY <1>1, <2>1, <3>3, <4>1, <4>2 DEF StandsRight
    <3> QED
      BY <3>2, <3>3
  <2> QED
    BY <1>1, <2>3 DEF TableInv
<1> QED
  BY <1>1, <1>2, <1>3

\* A step that opens or closes descriptor n.
LEMMA WorkerTurns ==
  ASSUME ServerInv, RunInv, TableInv, NEW c \in Conn, ~Idle(c),
         NEW place \in WorkerPlaces \ {"unborn", "gone"}, Goto(c, place),
         UNCHANGED <<sockfd, client_sockfd, new_thread>>,
         NEW n \in {ClientFd, FileFd}, NEW r \in Resource, fds' = [fds EXCEPT ![n] = r],
         place \in SocketPlaces => pc[c] \in SocketPlaces,
         datafd' \in {0, FileFd}, place \in FilePlaces => datafd' = FileFd,
         n = ClientFd => /\ pc[c] \in FilePlaces <=> place \in FilePlaces
                         /\ place \notin SocketPlaces /\ r = Closed,
         n = FileFd => /\ pc[c] \in SocketPlaces <=> place \in SocketPlaces
                       /\ IF place \in FilePlaces THEN r.kind = "file" ELSE r = Closed
  PROVE  RunInv' /\ TableInv'
<1>1. /\ RunInv' /\ (HasSocket' <=> place \in SocketPlaces) /\ (HasFile' <=> place \in FilePlaces)
      /\ Below' = Below /\ (HasListen' <=> HasListen)
  BY ServesOn
<1>2. /\ (HasSocket <=> pc[c] \in SocketPlaces) /\ (HasFile <=> pc[c] \in FilePlaces)
      /\ pc[Main] \notin SetUpPlaces
  BY OneServes
<1>3. /\ n \in Fd /\ ClientFd = ListenFd + 1 /\ FileFd = ListenFd + 2 /\ ListenFd \in {0, 3}
      /\ Below = ListenFd
  BY <1>2, Descriptors DEF ClientFd, FileFd, Below, SetUpPlaces
<1>4. /\ fds \in [Fd -> Resource] /\ fds'[n] = r
      /\ \A m \in Fd : m # n => fds'[m] = fds[m]
  BY <1>3 DEF ServerInv, DataTypes, FileTypes
<1>5. ASSUME NEW m \in Fd PROVE StandsRight(m)'
  <2>1. StandsRight(m)
    BY DEF TableInv
  <2>2. CASE m # n
    <3>1. m # ClientFd \/ (HasSocket' <=> HasSocket)
      BY <1>1, <1>2, <2>2
    <3>2. m # FileFd \/ (HasFile' <=> HasFile)
      BY <1>1, <1>2, <2>2
    <3>3. fds'[m] = fds[m] /\ m # n
      BY <1>4, <2>2
    <3> QED
      BY <1>1, <1>2, <1>3, <2>1, <3>1, <3>2, <3>3 DEF StandsRight
  <2>3. CASE m = ClientFd /\ m = n
    <3>1. fds'[m] = Closed /\ ~HasSocket' /\ ~(m < Below') /\ m # ListenFd /\ m # FileFd
      BY <1>1, <1>3, <1>4, <2>3
    <3> QED
      BY <3>1 DEF StandsRight
  <2>4. CASE m = FileFd /\ m = n
    <3>1. ~(m < Below') /\ m # ListenFd /\ m # ClientFd
      BY <1>1, <1>3, <2>4
    <3>2. IF HasFile' THEN fds'[m].kind = "file" ELSE fds'[m] = Closed
      BY <1>1, <1>4, <2>4
    <3> QED
      BY <2>4, <3>1, <3>2 DEF StandsRight
  <2> QED
    BY <2>2, <2>3, <2>4
<1>6. HasSocket' => client_sockfd'[new_thread'] = ClientFd
  BY <1>1, <1>2 DEF TableInv
<1>7. HasListen' => sockfd' = ListenFd
  BY <1>1 DEF TableInv
<1> QED
  BY <1>1, <1>5, <1>6, <1>7 DEF TableInv

\* The thread's open gives it the descriptor after its socket's.
LEMMA OpenGetsNext ==
  ASSUME ServerInv, RunInv, TableInv, NEW c \in Conn, pc[c] = "open"
  PROVE  LowestFree = FileFd
<1>1. ~Idle(c)
  BY DEF Idle
<1>2. FileFd \in Fd /\ fds[FileFd] = Closed /\ fds[ClientFd] = Socket(c) /\ HasListen
  BY <1>1, Serving DEF SocketPlaces, FilePlaces, WorkerPlaces
<1>3. Below = ListenFd /\ ListenFd \in {0, 3} /\ ClientFd = ListenFd + 1 /\ FileFd = ListenFd + 2
  BY <1>1, OneServes, Descriptors DEF Below, SetUpPlaces, ClientFd, FileFd
<1>4. ASSUME NEW n \in Fd, n < FileFd PROVE fds[n] # Closed
  <2>1. n \in Nat /\ StandsRight(n)
    BY Table DEF TableInv
  <2>2. n < Below \/ n = ListenFd \/ n = ClientFd
    BY <1>3, <1>4, <2>1
  <2>3. Tty # Closed /\ Listen # Closed /\ Socket(c) # Closed
    BY DEF Tty, Listen, Closed, Socket
  <2>4. n < Below => fds[n] = Tty
    BY <2>1 DEF StandsRight
  <2>5. n = ListenFd => fds[n] = Listen
    BY <1>2, <1>3, <2>1 DEF StandsRight
  <2> QED
    BY <1>2, <2>2, <2>3, <2>4, <2>5
<1> QED
  BY <1>2, <1>4, LowestIs

LEMMA WorkerKeepsTable ==
  ASSUME Sequential, ServerInv, RunInv, TableInv, OnInv, NEW c \in Conn, Worker(c)
  PROVE  /\ RunInv' /\ TableInv' /\ OnInv' /\ ~Idle(c)
         /\ proc = "running" /\ UNCHANGED threads
         /\ \A t \in Thread : t # c => pc'[t] = pc[t]
         /\ \E place \in WorkerPlaces \ {"unborn", "gone"} : Goto(c, place)
<1> DEFINE Next1(place) == place \in WorkerPlaces \ {"unborn", "gone"} /\ Goto(c, place)
<1> USE DEF SocketPlaces, FilePlaces, WorkerPlaces
<1>1. ~Idle(c) /\ proc = "running" /\ UNCHANGED threads
  BY DEF Worker, Serve, OnFile, OpenFails, CallRecv, Receive, RecvEnds, Send, CloseSocket,
         WorkDone, Open, Lock, Write, Fails, Unlock, Rewind, Read, ReadEnds, CloseData, At, Idle
<1>2. /\ fds \in [Fd -> Resource] /\ datafd \in Fd /\ data \in Seq(Chunk) /\ c # Stamper
      /\ \A p \in Nat : OpenFile(p) \in Resource
      /\ Closed \in Resource
  BY ThreadKinds, Resources DEF ServerInv, DataTypes, FileTypes
<1>3. /\ pc[c] \in SocketPlaces => client_sockfd[c] = ClientFd /\ fds[ClientFd] = Socket(c)
      /\ pc[c] \in FilePlaces => datafd = FileFd /\ fds[FileFd].kind = "file"
      /\ fds[FileFd].kind = "file" => fds[FileFd].pos \in Nat
      /\ datafd \in {0, FileFd}
  BY <1>1, <1>2, Serving, Resources DEF TableInv
<1>4. UNCHANGED new_thread
  BY <1>1 DEF threads
<1> DEFINE Result == /\ RunInv' /\ TableInv'
                     /\ \E place : Next1(place)
                     /\ on' = on \/ (pc[c] = "recv" /\ on' = [on EXCEPT ![c] = Socket(c)])
                                 \/ (pc[c] = "done" /\ on' = [on EXCEPT ![c] = Closed])
                     /\ pc'[c] = "receiving" => pc[c] = "recv" /\ on'[c] = Socket(c)
<1>5. \A place : Goto(c, place) => pc'[c] = place /\ \A t \in Thread : t # c => pc'[t] = pc[t]
  BY ThreadKinds DEF ServerInv, ThreadInv, ThreadTypes, Goto
<1>6. on \in [Conn -> Resource]
  BY DEF ServerInv, DataTypes, ConnTypes
<1>7. ASSUME Serve(c) PROVE Result
  <2>1. ~OpenFails(c)
    BY DEF Sequential, OpenFails
  <2>2. CASE CallRecv(c)
    <3>1. /\ pc[c] = "recv" /\ Goto(c, "receiving")
          /\ on' = [on EXCEPT ![c] = fds[client_sockfd[c]]]
          /\ UNCHANGED <<sockfd, datafd, client_sockfd, fds>>
      BY <2>2 DEF CallRecv, At, files
    <3>2. on' = [on EXCEPT ![c] = Socket(c)]
      BY <1>3, <3>1
    <3>3. RunInv' /\ TableInv'
      BY <1>1, <1>4, <3>1, WorkerStays
    <3> QED
      BY <1>5, <1>6, <3>1, <3>2, <3>3
  <2>3. CASE Receive(c)
    <3>1. /\ pc[c] = "receiving" /\ UNCHANGED <<sockfd, datafd, client_sockfd, fds, on>>
          /\ \E place \in {"lock", "ioctl", "write"} : Goto(c, place)
      BY <2>3 DEF Receive, At, files
    <3>2. PICK place \in {"lock", "ioctl", "write"} : Goto(c, place)
      BY <3>1
    <3>3. RunInv' /\ TableInv'
      BY <1>1, <1>4, <3>1, <3>2, WorkerStays
    <3> QED
      BY <1>5, <3>1, <3>2, <3>3
  <2>4. CASE RecvEnds(c)
    <3>1. /\ pc[c] = "receiving" /\ UNCHANGED <<sockfd, datafd, client_sockfd, fds, on>>
          /\ Goto(c, "close_data")
      BY <2>4 DEF RecvEnds, At, files, locals
    <3>2. RunInv' /\ TableInv'
      BY <1>1, <1>4, <3>1, WorkerStays
    <3> QED
      BY <1>5, <3>1, <3>2
  <2>5. CASE Send(c)
    <3>1. /\ pc[c] = "send" /\ UNCHANGED <<sockfd, datafd, client_sockfd, fds, on>>
          /\ Goto(c, "read")
      BY <2>5 DEF Send, At, files, locals
    <3>2. RunInv' /\ TableInv'
      BY <1>1, <1>4, <3>1, WorkerStays
    <3> QED
      BY <1>5, <3>1, <3>2
  <2>6. CASE CloseSocket(c)
    <3>1. /\ pc[c] = "close_socket" /\ UNCHANGED <<sockfd, datafd, client_sockfd, on>>
          /\ Goto(c, "done") /\ fds' = [fds EXCEPT ![client_sockfd[c]] = Closed]
      BY <2>6 DEF CloseSocket, At, Close, locals
    <3>2. fds' = [fds EXCEPT ![ClientFd] = Closed]
      BY <1>3, <3>1
    <3>3. ClientFd # FileFd
      BY <1>1, Serving
    <3>4. RunInv' /\ TableInv'
      BY <1>1, <1>2, <1>3, <1>4, <3>1, <3>2, <3>3, WorkerTurns
    <3> QED
      BY <1>5, <3>1, <3>4
  <2>7. CASE WorkDone(c)
    <3>1. /\ pc[c] = "done" /\ UNCHANGED <<sockfd, datafd, fds>>
          /\ Goto(c, "exited") /\ on' = [on EXCEPT ![c] = Closed]
      BY <2>7 DEF WorkDone, At, files
    <3>2. /\ RunInv' /\ ~HasSocket' /\ ~HasFile' /\ ~HasSocket /\ ~HasFile
          /\ Below' = Below /\ (HasListen' <=> HasListen)
      BY <1>1, <1>4, <3>1, ServesOn, OneServes
    <3>3. TableInv'
      BY <3>1, <3>2 DEF TableInv, StandsRight
    <3> QED
      BY <1>5, <3>1, <3>2, <3>3
  <2> QED
    BY <1>7, <2>1, <2>2, <2>3, <2>4, <2>5, <2>6, <2>7 DEF Serve
<1>8. ASSUME OnFile(c) PROVE Result
  <2>1. CASE Open(c)
    <3>1. /\ pc[c] = "open" /\ UNCHANGED <<sockfd, client_sockfd, on>> /\ Goto(c, "recv")
          /\ fds' = [fds EXCEPT ![LowestFree] = OpenFile(0)] /\ datafd' = LowestFree
      BY <2>1 DEF Open, At, locals, Sequential
    <3>2. LowestFree = FileFd /\ OpenFile(0).kind = "file"
      BY <3>1, OpenGetsNext DEF OpenFile
    <3>3. fds' = [fds EXCEPT ![FileFd] = OpenFile(0)] /\ datafd' = FileFd /\ ClientFd # FileFd
      BY <1>1, <3>1, <3>2, Serving
    <3> DEFINE r == OpenFile(0)
    <3>5. r \in Resource /\ r.kind = "file" /\ fds' = [fds EXCEPT ![FileFd] = r]
      BY <1>2, <3>2, <3>3
    <3>6. /\ pc[c] \in SocketPlaces /\ "recv" \in FilePlaces /\ "recv" \in SocketPlaces
          /\ "recv" \in WorkerPlaces \ {"unborn", "gone"}
      BY <3>1
    <3> HIDE DEF r, SocketPlaces, FilePlaces, WorkerPlaces
    <3>4. RunInv' /\ TableInv'
      BY <1>1, <1>4, <3>1, <3>3, <3>5, <3>6, WorkerTurns
    <3> QED
      BY <1>5, <3>1, <3>4, <3>6
  <2>2. CASE Lock(c) \/ Unlock(c) \/ ReadEnds(c)
    <3>1. /\ \/ pc[c] = "lock" /\ Goto(c, "write")
             \/ pc[c] = "unlock" /\ Goto(c, Answer(c))
             \/ pc[c] = "read" /\ Goto(c, "recv")
          /\ UNCHANGED <<sockfd, datafd, client_sockfd, fds, on>>
      BY <1>2, <2>2 DEF Lock, Unlock, ReadEnds, At, files, locals
    <3>2. Answer(c) \in {"recv", "read", "lseek"}
      BY DEF Answer
    <3>3. PICK place \in {"write", "recv", "read", "lseek"} : Goto(c, place)
      BY <3>1, <3>2
    <3>4. pc[c] \in {"lock", "unlock", "read"}
      BY <3>1
    <3>5. RunInv' /\ TableInv'
      BY <1>1, <1>4, <3>1, <3>3, <3>4, WorkerStays
    <3> QED
      BY <1>5, <3>1, <3>3, <3>5
  <2>3. ~Fails(c)
    BY <1>3 DEF Fails, Sequential, At, Closed
  <2>4. CASE Write(c) \/ Rewind(c) \/ Read(c)
    <3>1. /\ \/ pc[c] = "write" /\ Goto(c, "unlock")
             \/ pc[c] = "lseek" /\ Goto(c, "read")
             \/ pc[c] = "read" /\ Goto(c, "send")
          /\ UNCHANGED <<sockfd, datafd, client_sockfd, on>>
      BY <2>4 DEF Write, Rewind, Read, At, locals
    <3>2. pc[c] \in FilePlaces /\ datafd = FileFd /\ fds[datafd].kind = "file"
      BY <1>3, <3>1
    <3>3. \E p \in Nat : fds' = [fds EXCEPT ![datafd] = OpenFile(p)]
      <4>1. CASE Write(c)
        <5>1. data' \in Seq(Chunk)
          <6>1. buffer[c] \in Chunk /\ WriteData(buffer[c])
            BY <4>1 DEF Write, At, ServerInv, LocalInv
          <6> QED
            BY <6>1, Written DEF ServerInv
        <5>2. fds' = [fds EXCEPT ![datafd] = OpenFile(Len(data'))]
          BY <3>2, <4>1 DEF Write, WriteData
        <5>3. Len(data') \in Nat
          BY <5>1
        <5> QED
          BY <5>2, <5>3
      <4>2. CASE Rewind(c)
        BY <3>2, <4>2 DEF Rewind
      <4>3. CASE Read(c)
        <5>1. fds' = [fds EXCEPT ![datafd] = OpenFile(fds[datafd].pos + 1)]
          BY <3>2, <4>3 DEF Read
        <5>2. fds[datafd].pos + 1 \in Nat
          BY <1>3, <3>2
        <5> QED
          BY <5>1, <5>2
      <4> QED
        BY <2>4, <4>1, <4>2, <4>3
    <3>4. PICK place \in {"unlock", "read", "send"} : Goto(c, place)
      BY <3>1
    <3>5. pc[c] \in {"write", "lseek", "read"}
      BY <3>1
    <3>6. RunInv' /\ TableInv'
      BY <1>1, <1>4, <3>1, <3>2, <3>3, <3>4, <3>5, WorkerStays
    <3> QED
      BY <1>5, <3>1, <3>4, <3>6
  <2>5. CASE CloseData(c)
    <3>1. /\ pc[c] = "close_data" /\ UNCHANGED <<sockfd, datafd, client_sockfd, on>>
          /\ Goto(c, "close_socket") /\ fds' = [fds EXCEPT ![datafd] = Closed]
      BY <2>5 DEF CloseData, At, Close, locals
    <3>2. fds' = [fds EXCEPT ![FileFd] = Closed] /\ ClientFd # FileFd
      BY <1>1, <1>3, <3>1, Serving
    <3>3. RunInv' /\ TableInv'
      <4> DEFINE place == "close_socket"
      <4>1. /\ pc[c] \in SocketPlaces /\ place \notin FilePlaces /\ place \in SocketPlaces
            /\ place \in WorkerPlaces \ {"unborn", "gone"} /\ Goto(c, place)
        BY <3>1
      <4> HIDE DEF place, SocketPlaces, FilePlaces, WorkerPlaces
      <4> QED
        BY <1>1, <1>2, <1>3, <1>4, <3>1, <3>2, <4>1, WorkerTurns
    <3> QED
      BY <1>5, <3>1, <3>3
  <2> QED
    BY <1>8, <2>1, <2>2, <2>3, <2>4, <2>5 DEF OnFile
<1>9. Result
  BY <1>7, <1>8 DEF Worker
<1>10. OnInv'
  <2>1. ASSUME NEW d \in Conn, pc'[d] = "receiving" PROVE on'[d] = Socket(d)
    <3>1. CASE d = c
      BY <1>9, <2>1, <3>1
    <3>2. CASE d # c
      BY <1>5, <1>6, <1>9, <2>1, <3>2, ThreadKinds DEF OnInv
    <3> QED
      BY <3>1, <3>2
  <2> QED
    BY <2>1 DEF OnInv
<1> QED
  BY <1>1, <1>5, <1>9, <1>10

----------------------------------------------------------------------------
(* The other steps.                                                        *)

\* main goes on, and the connections' threads stay where they are.
LEMMA MainGoes ==
  ASSUME ThreadTypes, NEW place, Goto(Main, place)
  PROVE  pc'[Main] = place /\ pc'[Stamper] = pc[Stamper] /\ \A c \in Conn : pc'[c] = pc[c]
BY ThreadKinds DEF ThreadTypes, Goto

\* A step of another thread that leaves the connections and the table alone.
LEMMA Bystander ==
  ASSUME RunInv, TableInv, OnInv,
         UNCHANGED <<fds, sockfd, datafd, client_sockfd, on, new_thread>>,
         \A c \in Conn : pc'[c] = pc[c],
         \/ pc'[Main] = pc[Main]
         \/ pc[Main] \notin {"start", "socket", "create"}
            /\ pc'[Main] \notin {"start", "socket", "create"}
            /\ (pc[Main] \in SetUpPlaces \/ pc'[Main] \notin SetUpPlaces)
  PROVE  RunInv' /\ TableInv' /\ OnInv'
<1>1. RunInv' /\ OnInv'
  BY DEF RunInv, OnInv, Idle
<1>2. /\ Below' = Below /\ (HasListen' <=> HasListen)
      /\ (HasSocket' <=> HasSocket) /\ (HasFile' <=> HasFile)
  BY DEF Below, HasListen, HasSocket, HasFile
<1> QED
  BY <1>1, <1>2, TableKept

\* The set-up: no connection has a thread yet.
LEMMA SetUpKeepsTable ==
  ASSUME Sequential, ServerInv, RunInv, TableInv, OnInv, SetUp
  PROVE  RunInv' /\ TableInv' /\ OnInv'
<1> USE DEF SetUpPlaces
<1>1. ThreadTypes /\ fds \in [Fd -> Resource]
  BY DEF ServerInv, ThreadInv, DataTypes, FileTypes
<1>2. pc[Main] \in SetUpPlaces /\ UNCHANGED <<datafd, client_sockfd, on, new_thread>>
  BY DEF SetUp, Start, CreateSocket, Bind, ListenOn, CreateStamper, At, files, locals, threads
<1>3. ~HasSocket /\ ~HasFile
  BY <1>2 DEF RunInv, HasSocket, HasFile, SocketPlaces, FilePlaces
<1>4. CASE Bind \/ ListenOn \/ CreateStamper
  <2>1. UNCHANGED <<fds, sockfd>> /\ pc[Main] \notin {"start", "socket", "create"}
    BY <1>4 DEF Bind, ListenOn, CreateStamper, At, Sequential, files
  <2>2. /\ \A c \in Conn : pc'[c] = pc[c]
        /\ pc'[Main] \in {"listen", "stamper", "accept"}
    <3>1. CASE Bind \/ ListenOn
      BY <1>1, <3>1, MainGoes DEF Bind, ListenOn, Sequential
    <3>2. CASE CreateStamper
      BY <1>1, <3>2, ThreadKinds DEF CreateStamper, Sequential, ThreadTypes
    <3> QED
      BY <1>4, <3>1, <3>2
  <2> QED
    BY <1>2, <2>1, <2>2, Bystander
<1>5. ASSUME NEW place \in {"socket", "bind"}, Goto(Main, place)
      PROVE  /\ RunInv' /\ OnInv' /\ pc'[Main] = place
             /\ ~HasSocket' /\ ~HasFile' /\ Below' = ListenFd
             /\ (HasListen' <=> place = "bind")
  <2>1. pc'[Main] = place /\ \A c \in Conn : pc'[c] = pc[c]
    BY <1>1, <1>5, MainGoes
  <2>2. RunInv' /\ OnInv'
    BY <1>2, <2>1 DEF RunInv, OnInv, Idle
  <2>3. ~HasSocket' /\ ~HasFile'
    BY <1>3, <2>1 DEF HasSocket, HasFile
  <2> QED
    BY <2>1, <2>2, <2>3 DEF Below, HasListen
<1>6. CASE Start
  <2>1. /\ pc[Main] = "start" /\ Goto(Main, "socket") /\ UNCHANGED sockfd
        /\ fds' = IF Daemon THEN [n \in Fd |-> Closed] ELSE fds
    BY <1>6 DEF Start, At, Sequential
  <2>2. ASSUME NEW n \in Fd PROVE StandsRight(n)'
    <3>1. fds[n] = IF n < 3 THEN Tty ELSE Closed
      BY <1>3, <2>1 DEF TableInv, StandsRight, Below, HasListen
    <3>2. fds'[n] = IF n < ListenFd THEN Tty ELSE Closed
      BY <2>1, <3>1, Table DEF ListenFd
    <3> QED
      BY <1>5, <2>1, <3>2 DEF StandsRight
  <2> QED
    BY <1>2, <1>5, <2>1, <2>2 DEF TableInv
<1>7. CASE CreateSocket
  <2>1. /\ pc[Main] = "socket" /\ Goto(Main, "bind") /\ sockfd' = LowestFree
        /\ fds' = [fds EXCEPT ![LowestFree] = Listen]
    BY <1>7 DEF CreateSocket, At, Sequential
  <2>2. \A n \in Fd : fds[n] = IF n < ListenFd THEN Tty ELSE Closed
    BY <1>3, <2>1 DEF TableInv, StandsRight, Below, HasListen
  <2>3. LowestFree = ListenFd
    <3>1. Tty # Closed /\ ListenFd \in Fd
      BY Descriptors DEF Tty, Closed
    <3> QED
      BY <2>2, <3>1, LowestIs, Table
  <2>4. ASSUME NEW n \in Fd PROVE StandsRight(n)'
    <3>1. fds'[n] = IF n = ListenFd THEN Listen ELSE fds[n]
      BY <1>1, <2>1, <2>3
    <3>2. ~(ListenFd < ListenFd)
      BY Descriptors
    <3> QED
      BY <1>5, <2>1, <2>2, <3>1, <3>2 DEF StandsRight
  <2> QED
    BY <1>2, <1>5, <2>1, <2>3, <2>4 DEF TableInv
<1> QED
  BY <1>4, <1>6, <1>7 DEF SetUp

\* A client is accepted: it gets the descriptor after the listening socket's.
LEMMA AcceptKeepsTable ==
  ASSUME Sequential, ServerInv, RunInv, TableInv, OnInv, NEW c \in Conn, Accept(c)
  PROVE  RunInv' /\ TableInv' /\ OnInv'
<1>1. /\ pc[Main] = "accept" /\ client[c] = "away" /\ new_thread' = c
      /\ \A d \in Conn \ {c} : client[d] = "away" \/ pc[d] \in {"exited", "gone"}
      /\ fds' = [fds EXCEPT ![LowestFree] = Socket(c)]
      /\ client_sockfd' = [client_sockfd EXCEPT ![c] = LowestFree]
      /\ Goto(Main, "create") /\ UNCHANGED <<sockfd, datafd, on>>
  BY DEF Accept, At, Sequential
<1>2. /\ ThreadTypes /\ fds \in [Fd -> Resource] /\ client_sockfd \in [Conn -> Fd \cup {-1}]
      /\ \A d \in Conn : client[d] = "away" => pc[d] = "unborn"
  BY DEF ServerInv, ThreadInv, ListInv, DataTypes, FileTypes, ConnTypes
<1>3. pc'[Main] = "create" /\ \A d \in Conn : pc'[d] = pc[d]
  BY <1>1, <1>2, MainGoes
<1>4. \A d \in Conn : pc[d] \in {"unborn", "exited", "gone"}
  BY <1>1, <1>2
<1>5. /\ ~HasSocket /\ ~HasFile /\ HasListen /\ Below = ListenFd
      /\ HasSocket' /\ ~HasFile' /\ HasListen' /\ Below' = ListenFd
  BY <1>1, <1>3, <1>4 DEF HasSocket, HasFile, HasListen, Below, SocketPlaces, FilePlaces
<1>6. RunInv' /\ OnInv'
  BY <1>1, <1>3, <1>4 DEF RunInv, OnInv, Idle, SetUpPlaces, WorkerPlaces
<1>7. /\ ClientFd \in Fd /\ ClientFd = ListenFd + 1 /\ ListenFd \in {0, 3} /\ Fd \subseteq Nat
  BY Descriptors, Table DEF ClientFd
<1>8. \A n \in Fd : fds[n] = IF n < ListenFd THEN Tty ELSE IF n = ListenFd THEN Listen
                             ELSE Closed
  BY <1>5 DEF TableInv, StandsRight
<1>9. LowestFree = ClientFd
  <2>1. Tty # Closed /\ Listen # Closed
    BY DEF Tty, Listen, Closed
  <2>2. \A n \in Fd : n < ClientFd => n < ListenFd \/ n = ListenFd
    BY <1>7
  <2>3. fds[ClientFd] = Closed
    BY <1>7, <1>8
  <2> QED
    BY <1>7, <1>8, <2>1, <2>2, <2>3, LowestIs
<1>10. ASSUME NEW n \in Fd PROVE StandsRight(n)'
  <2>1. fds'[n] = IF n = ClientFd THEN Socket(c) ELSE fds[n]
    BY <1>1, <1>2, <1>9
  <2>2. ~(ClientFd < ListenFd) /\ ClientFd # ListenFd
    BY <1>7
  <2> QED
    BY <1>1, <1>5, <1>8, <2>1, <2>2 DEF StandsRight
<1>11. client_sockfd'[new_thread'] = ClientFd
  BY <1>1, <1>2, <1>9
<1> QED
  BY <1>1, <1>5, <1>6, <1>10, <1>11 DEF TableInv

\* Its thread begins.
LEMMA CreateKeepsTable ==
  ASSUME Sequential, ServerInv, RunInv, TableInv, OnInv, Create
  PROVE  RunInv' /\ TableInv' /\ OnInv'
<1>1. /\ pc[Main] = "create" /\ UNCHANGED <<fds, sockfd, datafd, client_sockfd, on, new_thread>>
      /\ pc' = [pc EXCEPT ![Main] = "insert", ![new_thread] = "open"]
  BY DEF Create, At, Sequential, files, locals, threads
<1>2. new_thread \in Conn /\ pc[new_thread] = "unborn" /\ ThreadTypes
  BY <1>1 DEF ServerInv, ThreadInv, MainInv
<1>3. /\ pc'[Main] = "insert" /\ pc'[new_thread] = "open"
      /\ \A d \in Conn : d # new_thread => pc'[d] = pc[d]
  BY <1>1, <1>2, ThreadKinds DEF ThreadTypes
<1>4. RunInv' /\ OnInv'
  BY <1>1, <1>3 DEF RunInv, OnInv, Idle, SetUpPlaces, WorkerPlaces
<1>5. HasSocket /\ HasSocket' /\ (HasFile <=> HasFile')
  BY <1>1, <1>2, <1>3 DEF HasSocket, HasFile, SocketPlaces, FilePlaces, WorkerPlaces
<1>6. Below' = Below /\ (HasListen' <=> HasListen)
  BY <1>1, <1>3 DEF Below, HasListen
<1> QED
  BY <1>1, <1>4, <1>5, <1>6, TableKept

\* A timestamp goes to the file, or nowhere.
LEMMA NoSocketInDatafd ==
  ASSUME ServerInv, TableInv
  PROVE  fds[datafd].kind # "socket"
<1>1. datafd \in {0, FileFd} /\ datafd \in Fd /\ StandsRight(datafd)
  BY DEF ServerInv, DataTypes, FileTypes, TableInv
<1>2. datafd # ClientFd
  BY <1>1, Descriptors DEF ClientFd, FileFd
<1> QED
  BY <1>1, <1>2 DEF StandsRight, Tty, Listen, Closed

LEMMA StamperKeepsTable ==
  ASSUME ServerInv, RunInv, TableInv, OnInv, StamperStep
  PROVE  /\ RunInv' /\ TableInv' /\ OnInv'
         /\ \A t \in Thread : t # Stamper => pc'[t] = pc[t]
<1>1. UNCHANGED <<sockfd, datafd, client_sockfd, on, new_thread>>
  BY DEF StamperStep, LockToStamp, Lock, Stamp, Unlock, Wake, files, locals, threads
<1>2. \A t \in Thread : t # Stamper => pc'[t] = pc[t]
  <2>1. \E place : Goto(Stamper, place)
    BY DEF StamperStep, LockToStamp, Lock, Stamp, Unlock, Wake
  <2> QED
    BY <2>1 DEF Goto, ServerInv, ThreadInv, ThreadTypes
<1>3. pc'[Main] = pc[Main] /\ \A c \in Conn : pc'[c] = pc[c]
  BY <1>2, ThreadKinds
<1>4. CASE UNCHANGED fds
  BY <1>1, <1>2, <1>3, <1>4, Bystander
<1>5. CASE ~UNCHANGED fds
  <2>1. Stamp /\ fds[datafd].kind = "file" /\ fds' = [fds EXCEPT ![datafd] = OpenFile(Len(data'))]
    BY <1>5 DEF StamperStep, LockToStamp, Lock, Stamp, Unlock, Wake, files, WriteData
  <2>2. fds \in [Fd -> Resource] /\ datafd \in Fd /\ OpenFile(Len(data')).kind = "file"
    BY DEF ServerInv, DataTypes, FileTypes, OpenFile
  <2>3. RunInv' /\ OnInv'
    BY <1>1, <1>3 DEF RunInv, OnInv, Idle
  <2>4. /\ Below' = Below /\ (HasListen' <=> HasListen)
        /\ (HasSocket' <=> HasSocket) /\ (HasFile' <=> HasFile)
    BY <1>3 DEF Below, HasListen, HasSocket, HasFile
  <2>5. ASSUME NEW n \in Fd PROVE StandsRight(n)'
    <3>1. StandsRight(n)
      BY DEF TableInv
    <3>2. CASE n # datafd
      <4>1. fds'[n] = fds[n]
        BY <2>1, <2>2, <3>2
      <4> QED
        BY <1>1, <2>4, <3>1, <4>1 DEF StandsRight
    <3>3. CASE n = datafd
      <4>1. fds[n].kind = "file" /\ fds'[n].kind = "file"
        BY <2>1, <2>2, <3>3
      <4> QED
        BY <1>1, <2>4, <3>1, <4>1 DEF StandsRight, Tty, Listen, Closed, Socket
    <3> QED
      BY <3>2, <3>3
  <2> QED
    BY <1>1, <1>2, <2>3, <2>4, <2>5 DEF TableInv
<1> QED
  BY <1>4, <1>5

\* A process begins with nothing of its own.
LEMMA FreshTable ==
  ASSUME fds = Standard, datafd = 0, pc[Main] = "start",
         \A c \in Conn : pc[c] \in {"unborn", "gone"}
  PROVE  RunInv /\ TableInv /\ OnInv
<1>1. RunInv /\ OnInv
  BY DEF RunInv, OnInv, Idle, WorkerPlaces
<1>2. ~HasSocket /\ ~HasFile /\ ~HasListen /\ Below = 3
  BY DEF HasSocket, HasFile, HasListen, Below, SocketPlaces, FilePlaces
<1>3. \A n \in Fd : StandsRight(n)
  BY <1>2 DEF StandsRight, Standard
<1> QED
  BY <1>1, <1>2, <1>3 DEF TableInv

LEMMA StepKeepsTable ==
  ASSUME Sequential, ServerInv, RunInv, TableInv, OnInv, [Next]_vars
  PROVE  RunInv' /\ TableInv' /\ OnInv'
<1>1. CASE SetUp \/ Create \/ StamperStep \/ \E c \in Conn : Accept(c) \/ Worker(c)
  BY <1>1, SetUpKeepsTable, CreateKeepsTable, StamperKeepsTable, AcceptKeepsTable,
     WorkerKeepsTable
<1>2. ThreadTypes
  BY DEF ServerInv, ThreadInv
<1>3. CASE Insert \/ Scan \/ Join \/ RemoveJoined \/ Signal
  <2>1. /\ UNCHANGED <<fds, sockfd, datafd, client_sockfd, on, new_thread>>
        /\ pc[Main] \in {"accept", "insert", "scan", "join", "remove"}
        /\ \/ UNCHANGED pc
           \/ \E place \in {"accept", "scan", "join", "remove", "cleanup"} : Goto(Main, place)
    BY <1>3 DEF Insert, Scan, Join, RemoveJoined, Signal, At, Sequential, files, locals, threads
  <2>2. /\ \A c \in Conn : pc'[c] = pc[c]
        /\ pc'[Main] = pc[Main] \/ pc'[Main] \in {"accept", "scan", "join", "remove", "cleanup"}
    BY <1>2, <2>1, MainGoes
  <2> QED
    BY <2>1, <2>2, Bystander DEF SetUpPlaces
<1>4. ASSUME NEW t \in Conn \cup {Main}, Cleanup(t) PROVE RunInv' /\ TableInv' /\ OnInv'
  <2>1. pc[t] \in CleanupPlaces
    BY <1>4 DEF Cleanup, TestList, TakeFirst, RemoveHead, RemoveHeadCrashes, JoinThread,
                JoinFails, Exit, At, CleanupPlaces
  <2>2. t = Main
    BY <2>1 DEF RunInv, WorkerPlaces, CleanupPlaces
  <2>3. /\ UNCHANGED <<fds, sockfd, datafd, client_sockfd, on, new_thread>>
        /\ \/ UNCHANGED pc
           \/ \E place \in CleanupPlaces : Goto(Main, place)
    BY <1>4, <2>2 DEF Cleanup, TestList, TakeFirst, RemoveHead, RemoveHeadCrashes, JoinThread,
                      JoinFails, Exit, files, locals, threads, CleanupPlaces
  <2>4. /\ \A c \in Conn : pc'[c] = pc[c]
        /\ pc'[Main] = pc[Main] \/ pc'[Main] \in CleanupPlaces
    BY <1>2, <2>3, MainGoes
  <2> QED
    BY <2>1, <2>2, <2>3, <2>4, Bystander DEF SetUpPlaces, CleanupPlaces
<1>5. CASE (\E c \in Conn : ClientSends(c) \/ ClientCloses(c)) \/ UNCHANGED vars
  BY <1>5, Bystander DEF ClientSends, ClientCloses, vars, files, locals, threads
<1>6. CASE Restart
  <2>1. fds' = Standard /\ datafd' = 0 /\ pc'[Main] = "start"
        /\ \A c \in Conn : pc'[c] \in {"unborn", "gone"}
    BY <1>6, ThreadKinds DEF Restart
  <2>2. RunInv' /\ OnInv'
    BY <2>1 DEF RunInv, OnInv, Idle, WorkerPlaces
  <2>3. ~HasSocket' /\ ~HasFile' /\ ~HasListen' /\ Below' = 3
    BY <2>1 DEF HasSocket, HasFile, HasListen, Below, SocketPlaces, FilePlaces
  <2>4. \A n \in Fd : StandsRight(n)'
    BY <2>1, <2>3 DEF StandsRight, Standard
  <2> QED
    BY <2>1, <2>2, <2>3, <2>4 DEF TableInv
<1> QED
  BY <1>1, <1>3, <1>4, <1>5, <1>6 DEF Next, Client, MainStep, Rest

ServingInv == ServerInv /\ RunInv /\ TableInv /\ OnInv

LEMMA AlwaysServing == ASSUME Sequential PROVE Spec => []ServingInv
<1>1. Init => ServingInv
  <2> SUFFICES ASSUME Init PROVE ServingInv
    OBVIOUS
  <2>1. /\ fds = Standard /\ datafd = 0 /\ pc[Main] = "start"
        /\ \A c \in Conn : pc[c] \in {"unborn", "gone"}
    BY ThreadKinds DEF Init
  <2> QED
    BY <2>1, InitIsServer, FreshTable DEF ServingInv
<1>2. ServingInv /\ [Next]_vars => ServingInv'
  BY StepKeepsServer, StepKeepsTable DEF ServingInv
<1> QED
  BY <1>1, <1>2, PTL DEF Spec

\* Between clients the descriptor table is as it was: handle_connection closes
\* its file and its socket (aesdsocket.c:222-226), and neither the timestamps nor
\* the walk over thread_list open or close anything.
THEOREM TableComesBack == ASSUME Sequential PROVE Spec => []DescriptorsBalanced
<1>1. ServingInv => DescriptorsBalanced
  <2> SUFFICES ASSUME ServingInv, pc[Main] = "accept", \A c \in Conn : Idle(c), NEW n \in Fd
               PROVE  fds[n] = IF n = sockfd THEN Listen
                               ELSE IF n < 3 /\ ~Daemon THEN Tty ELSE Closed
    BY DEF DescriptorsBalanced
  <2>1. /\ ~HasSocket /\ ~HasFile /\ HasListen /\ Below = ListenFd
    BY DEF Idle, HasSocket, HasFile, HasListen, Below, SocketPlaces, FilePlaces
  <2>2. StandsRight(n) /\ sockfd = ListenFd /\ n \in Nat
    BY <2>1, Table DEF ServingInv, TableInv
  <2> QED
    BY <2>1, <2>2 DEF StandsRight, ListenFd
<1> QED
  BY <1>1, AlwaysServing, PTL

----------------------------------------------------------------------------
(* The list, and the end of a process.                                     *)

\* Steps that start, list and join no thread.
LEMMA PlainKeepsJoined ==
  ASSUME ThreadInv, JoinedInv, Plain,
         \/ pc'[Main] = pc[Main]
         \/ pc[Main] \in SetUpPlaces \cup {"accept"}
            /\ pc'[Main] \in SetUpPlaces \cup {"accept", "cleanup"}
  PROVE  JoinedInv'
<1>1. /\ UNCHANGED <<thread_list, new_thread, todo, target, joined>>
      /\ \A c \in Conn : Started(c)' => Started(c)
  BY DEF Plain, threads, Started
<1>2. CASE pc'[Main] = pc[Main]
  BY <1>1, <1>2 DEF JoinedInv
<1>3. CASE pc[Main] \in SetUpPlaces \cup {"accept"}
           /\ pc'[Main] \in SetUpPlaces \cup {"accept", "cleanup"}
  BY <1>1, <1>3 DEF JoinedInv, SetUpPlaces
<1> QED
  BY <1>2, <1>3

\* main is the only thread that joins.
LEMMA NooneElseJoins ==
  ASSUME ThreadTypes, RunInv, NEW c
  PROVE  ~BeingJoined(c, Main)
<1>1. \A u \in Thread \ {Main} : pc[u] \in WorkerPlaces \cup StamperPlaces
  BY ThreadKinds DEF ThreadTypes, RunInv, Thread
<1> QED
  BY <1>1 DEF BeingJoined, WorkerPlaces, StamperPlaces

\* main's loop.
LEMMA LoopKeepsJoined ==
  ASSUME Sequential, ThreadInv, RunInv, JoinedInv,
         (\E c \in Conn : Accept(c)) \/ Create \/ Insert \/ Scan \/ Join \/ RemoveJoined
  PROVE  JoinedInv'
<1> DEFINE Listed == ToSet(thread_list)
<1> USE DEF SetUpPlaces
<1>1. /\ ThreadTypes /\ Listed \subseteq Conn
      /\ thread_list \in Seq(Conn) /\ todo \in Seq(Conn)
  BY ListMembers DEF ThreadInv, ListInv, ThreadTypes
<1>2. \A place : Goto(Main, place) => pc'[Main] = place /\ \A c \in Conn : pc'[c] = pc[c]
  BY <1>1, MainGoes
<1>3. ASSUME NEW c \in Conn, Accept(c) PROVE JoinedInv'
  <2>1. /\ pc[Main] = "accept" /\ Goto(Main, "create")
        /\ UNCHANGED <<thread_list, todo, target, joined>>
    BY <1>3 DEF Accept, At, Sequential
  <2> QED
    BY <1>2, <2>1 DEF JoinedInv, Started
<1>4. CASE Create
  <2>1. /\ pc[Main] = "create" /\ UNCHANGED <<thread_list, new_thread, todo, target, joined>>
        /\ pc' = [pc EXCEPT ![Main] = "insert", ![new_thread] = "open"]
    BY <1>4 DEF Create, At, Sequential, threads
  <2>2. new_thread \in Conn /\ new_thread # Main
    BY <2>1, ThreadKinds DEF ThreadInv, MainInv
  <2>3. pc'[Main] = "insert" /\ \A c \in Conn : c # new_thread => pc'[c] = pc[c]
    BY <1>1, <2>1, <2>2, ThreadKinds DEF ThreadTypes
  <2> QED
    BY <2>1, <2>3 DEF JoinedInv, Started
<1>5. CASE Insert
  <2>1. /\ pc[Main] = "insert" /\ thread_list' = <<new_thread>> \o thread_list
        /\ todo' = thread_list' /\ Goto(Main, "scan") /\ UNCHANGED <<new_thread, target, joined>>
    BY <1>5 DEF Insert, At
  <2>2. /\ new_thread \in Conn \ (Listed \cup joined) /\ IsInjective(thread_list)
    BY <2>1 DEF ThreadInv, MainInv, ListInv
  <2>3. ToSet(thread_list') = Listed \cup {new_thread} /\ IsInjective(thread_list')
    BY <1>1, <2>1, <2>2, Pushed
  <2> QED
    BY <1>2, <2>1, <2>2, <2>3 DEF JoinedInv, Started
<1>6. CASE Scan
  <2>1. /\ pc[Main] = "scan" /\ UNCHANGED <<thread_list, new_thread, target, joined>>
        /\ \/ UNCHANGED todo /\ (Goto(Main, "accept") \/ Goto(Main, "join"))
           \/ todo # <<>> /\ todo' = Tail(todo) /\ UNCHANGED pc
    BY <1>6 DEF Scan, At
  <2>2. CASE UNCHANGED todo /\ (Goto(Main, "accept") \/ Goto(Main, "join"))
    BY <1>2, <2>1, <2>2 DEF JoinedInv, Started
  <2>3. CASE todo # <<>> /\ todo' = Tail(todo) /\ UNCHANGED pc
    <3>1. ToSet(todo') \subseteq ToSet(todo) /\ (IsInjective(todo) => IsInjective(todo'))
      BY <1>1, <2>3, Popped
    <3> QED
      BY <2>1, <2>3, <3>1 DEF JoinedInv, Started
  <2> QED
    BY <2>1, <2>2, <2>3
<1>7. CASE Join
  <2>1. /\ pc[Main] = "join" /\ UNCHANGED <<thread_list, new_thread, todo, target>>
        /\ \/ joined' = joined \cup {Head(todo)} /\ Goto(Main, "remove")
           \/ Head(todo) \in joined \/ BeingJoined(Head(todo), Main)
    BY <1>7 DEF Join, At
  <2>2. Head(todo) \in ToSet(todo)
    BY <1>1, <2>1, Popped DEF ThreadInv, MainInv
  <2>3. joined' = joined \cup {Head(todo)} /\ Goto(Main, "remove")
    BY <1>1, <2>1, <2>2, NooneElseJoins DEF JoinedInv
  <2> QED
    BY <1>2, <2>1, <2>3 DEF JoinedInv, Started
<1>8. CASE RemoveJoined
  <2>1. /\ pc[Main] = "remove" /\ thread_list' = RemoveFirst(thread_list, Head(todo))
        /\ todo' = Tail(todo) /\ Goto(Main, "scan") /\ UNCHANGED <<new_thread, target, joined>>
    BY <1>8 DEF RemoveJoined, Unlinked, At
  <2>2. ToSet(thread_list') = Listed \ {Head(todo)}
    BY <1>1, <2>1, UnlinkedFirst DEF ThreadInv, ListInv
  <2>3. todo # <<>> /\ Head(todo) \in joined
    BY <2>1 DEF ThreadInv, MainInv
  <2>4. IsInjective(todo) /\ ToSet(todo) \subseteq Listed
    BY <2>1 DEF JoinedInv
  <2>5. /\ ToSet(todo') \subseteq ToSet(todo) \ {Head(todo)} /\ IsInjective(todo')
    BY <1>1, <2>1, <2>3, <2>4, Popped
  <2> QED
    BY <1>2, <2>1, <2>2, <2>3, <2>4, <2>5 DEF JoinedInv, Started
<1> QED
  BY <1>3, <1>4, <1>5, <1>6, <1>7, <1>8

\* The cleanup of main, which is the only one.
LEMMA CleanupKeepsJoined ==
  ASSUME ThreadInv, RunInv, JoinedInv, NEW t \in Conn \cup {Main},
         TestList(t) \/ TakeFirst(t) \/ RemoveHead(t) \/ JoinThread(t)
  PROVE  JoinedInv'
<1> USE DEF SetUpPlaces
<1>1. /\ ThreadTypes /\ ToSet(thread_list) \subseteq Conn
      /\ thread_list \in Seq(Conn)
  BY ListMembers DEF ThreadInv, ListInv, ThreadTypes
<1>2. \A place : Goto(Main, place) => pc'[Main] = place /\ \A c \in Conn : pc'[c] = pc[c]
  BY <1>1, MainGoes
<1>3. t = Main /\ OnlyMainCleans
  BY DEF TestList, TakeFirst, RemoveHead, JoinThread, At, RunInv, OnlyMainCleans, WorkerPlaces,
         CleanupPlaces
<1>4. CASE TestList(t) \/ TakeFirst(t)
  <2>1. /\ pc[Main] \in {"cleanup", "cleanup_first"}
        /\ Goto(Main, "cleanup_first") \/ Goto(Main, "cleanup_pop")
        /\ UNCHANGED <<thread_list, new_thread, todo, joined>>
    BY <1>3, <1>4 DEF TestList, TakeFirst, At, threads
  <2> QED
    BY <1>2, <2>1 DEF JoinedInv, Started
<1>5. CASE RemoveHead(t)
  <2>1. /\ pc[Main] = "cleanup_pop" /\ thread_list # <<>> /\ Goto(Main, "cleanup_join")
        /\ thread_list' = Tail(thread_list) /\ UNCHANGED <<new_thread, todo, target, joined>>
    BY <1>3, <1>5 DEF RemoveHead, At
  <2>2. ToSet(thread_list) = ToSet(thread_list') \cup {Head(thread_list)}
    BY <1>1, <2>1, Popped
  <2>3. target[Main] = Head(thread_list)
    BY <1>3, <2>1 DEF ThreadInv, AloneInv
  <2> QED
    BY <1>1, <1>2, <2>1, <2>2, <2>3 DEF JoinedInv, Started
<1>6. CASE JoinThread(t)
  <2>1. /\ pc[Main] = "cleanup_join" /\ Goto(Main, "cleanup")
        /\ joined' = joined \cup {target[Main]}
        /\ UNCHANGED <<thread_list, new_thread, todo, target>>
    BY <1>3, <1>6 DEF JoinThread, At
  <2>2. target[Main] \notin ToSet(thread_list)
    BY <1>3, <2>1 DEF ThreadInv, AloneInv
  <2> QED
    BY <1>2, <2>1, <2>2 DEF JoinedInv, Started
<1> QED
  BY <1>4, <1>5, <1>6

LEMMA StepKeepsJoined ==
  ASSUME Sequential, ServingInv, JoinedInv, [Next]_vars
  PROVE  JoinedInv'
<1>1. ThreadInv /\ ThreadTypes /\ RunInv
  BY DEF ServingInv, ServerInv, ThreadInv
<1>2. CASE (\E c \in Conn : Accept(c)) \/ Create \/ Insert \/ Scan \/ Join \/ RemoveJoined
  BY <1>1, <1>2, LoopKeepsJoined
<1>3. ASSUME NEW t \in Conn \cup {Main},
             TestList(t) \/ TakeFirst(t) \/ RemoveHead(t) \/ JoinThread(t)
      PROVE  JoinedInv'
  BY <1>1, <1>3, CleanupKeepsJoined
<1>4. CASE (\E c \in Conn : Worker(c)) \/ StamperStep
  <2>1. Plain
    BY <1>1, <1>4, WorkerIsPlain, StamperIsPlain
  <2>2. pc'[Main] = pc[Main]
    BY <1>4, WorkerKeepsTable, StamperKeepsTable, ThreadKinds DEF ServingInv
  <2> QED
    BY <1>1, <2>1, <2>2, PlainKeepsJoined
<1>5. CASE SetUp \/ Signal
  <2>1. Plain
    BY <1>1, <1>5, SetUpIsPlain
  <2>2. pc[Main] \in SetUpPlaces \cup {"accept"}
    BY <1>5 DEF SetUp, Start, CreateSocket, Bind, ListenOn, CreateStamper, Signal, Sequential, At,
                SetUpPlaces
  <2>3. pc'[Main] = pc[Main] \/ pc'[Main] \in SetUpPlaces \cup {"accept", "cleanup"}
    BY <2>1, <2>2 DEF Plain, SetUpPlaces
  <2> QED
    BY <1>1, <2>1, <2>2, <2>3, PlainKeepsJoined
<1>6. CASE \/ \E c \in Conn : ClientSends(c) \/ ClientCloses(c)
           \/ \E t \in Conn \cup {Main} : RemoveHeadCrashes(t) \/ JoinFails(t) \/ Exit(t)
           \/ UNCHANGED vars
  <2>1. UNCHANGED <<pc, threads>>
    BY <1>6 DEF ClientSends, ClientCloses, RemoveHeadCrashes, JoinFails, Exit, vars
  <2> QED
    BY <2>1 DEF JoinedInv, Started, threads
<1>7. CASE Restart
  <2>1. /\ pc'[Main] = "start" /\ thread_list' = <<>>
        /\ \A c \in Conn : pc'[c] \in {"unborn", "gone"}
    BY <1>7, ThreadKinds DEF Restart
  <2>2. ToSet(thread_list') = {}
    BY <2>1 DEF ToSet
  <2> QED
    BY <2>1, <2>2 DEF JoinedInv, Started
<1> QED
  BY <1>2, <1>3, <1>4, <1>5, <1>6, <1>7 DEF Next, Client, MainStep, Cleanup, Rest

\* A process exits in main's cleanup, when every thread has been joined.
LEMMA StepKeepsEnd ==
  ASSUME Sequential, ServingInv, JoinedInv, EndInv, [Next]_vars
  PROVE  EndInv'
<1>1. ThreadInv /\ RunInv
  BY DEF ServingInv, ServerInv
<1>2. CASE \/ UNCHANGED vars
           \/ Restart
           \/ SetUp \/ Create \/ Insert \/ Scan \/ Join \/ RemoveJoined \/ Signal \/ StamperStep
           \/ \E c \in Conn : Client(c)
  <2>1. proc' # "exited" \/ UNCHANGED <<proc, exists, pc>>
    BY <1>2 DEF vars, files, Restart, SetUp, Start, CreateSocket, Bind, ListenOn, CreateStamper,
                Create, Insert, Scan, Join, RemoveJoined, AfterUseOf, Signal, StamperStep, LockToStamp,
                Lock, Stamp, Unlock, Wake, WriteData, Deliver, Client, Accept, ClientSends,
                ClientCloses, At, Sequential
  <2> QED
    BY <2>1 DEF EndInv, Idle
<1>3. ASSUME NEW c \in Conn, Worker(c) PROVE EndInv'
  <2>1. ~OpenFails(c) /\ proc = "running"
    BY <1>3, WorkerKeepsTable DEF ServingInv, OpenFails, Sequential
  <2>2. proc' # "exited"
    BY <1>3, <2>1
       DEF Worker, Serve, OnFile, CallRecv, Receive, RecvEnds, Send, CloseSocket, WorkDone, Open,
           Lock, Write, Fails, Unlock, Rewind, Read, ReadEnds, CloseData, WriteData, Deliver
  <2> QED
    BY <2>2 DEF EndInv
<1>4. ASSUME NEW t \in Conn \cup {Main}, Cleanup(t) PROVE EndInv'
  <2>1. t = Main /\ proc = "running"
    BY <1>1, <1>4 DEF Cleanup, TestList, TakeFirst, RemoveHead, RemoveHeadCrashes, JoinThread,
                      JoinFails, Exit, At, RunInv, WorkerPlaces
  <2>2. ~JoinFails(t)
    <3>1. pc[Main] = "cleanup_join" =>
            target[Main] \in Conn /\ target[Main] # Main /\ target[Main] \notin joined
      BY <1>1, ThreadKinds DEF ThreadInv, CleanupInv, JoinedInv
    <3>2. \A c \in Conn : pc[c] # "cleanup_join" /\ ~BeingJoined(c, Main)
      BY <1>1, NooneElseJoins DEF RunInv, ThreadInv, WorkerPlaces
    <3> QED
      BY <2>1, <3>1, <3>2 DEF JoinFails, At
  <2>3. CASE TestList(t) \/ TakeFirst(t) \/ RemoveHead(t) \/ RemoveHeadCrashes(t) \/ JoinThread(t)
    <3>1. proc' # "exited"
      BY <2>1, <2>3 DEF TestList, TakeFirst, RemoveHead, RemoveHeadCrashes, JoinThread, AfterUseOf
    <3> QED
      BY <3>1 DEF EndInv
  <2>4. CASE Exit(t)
    <3>1. pc[Main] = "cleanup" /\ thread_list = <<>> /\ exists' = UseCharDevice /\ UNCHANGED pc
      BY <2>1, <2>4 DEF Exit, At
    <3>2. ToSet(thread_list) = {}
      BY <3>1 DEF ToSet
    <3>3. \A c \in Conn : Started(c) => pc[c] = "exited"
      BY <1>1, <3>1, <3>2 DEF JoinedInv, ThreadInv, ListInv
    <3> QED
      BY <3>1, <3>3 DEF EndInv, Idle, Started
  <2> QED
    BY <1>4, <2>2, <2>3, <2>4 DEF Cleanup
<1> QED
  BY <1>2, <1>3, <1>4 DEF Next, MainStep, Rest

SequentialInv == ServingInv /\ JoinedInv /\ EndInv

LEMMA AlwaysSequential == ASSUME Sequential PROVE Spec => []SequentialInv
<1>1. Init => SequentialInv
  <2> SUFFICES ASSUME Init PROVE SequentialInv
    OBVIOUS
  <2>1. /\ fds = Standard /\ datafd = 0 /\ pc[Main] = "start" /\ proc = "running"
        /\ thread_list = <<>> /\ joined = {} /\ \A c \in Conn : pc[c] = "unborn"
    BY ThreadKinds DEF Init
  <2>2. ServingInv
    BY <2>1, InitIsServer, FreshTable DEF ServingInv
  <2>3. JoinedInv /\ EndInv
    BY <2>1 DEF JoinedInv, EndInv, Started
  <2> QED
    BY <2>2, <2>3 DEF SequentialInv
<1>2. SequentialInv /\ [Next]_vars => SequentialInv'
  BY StepKeepsServer, StepKeepsTable, StepKeepsJoined, StepKeepsEnd DEF SequentialInv, ServingInv
<1> QED
  BY <1>1, <1>2, PTL DEF Spec

\* The process exits in main's cleanup, and not before every thread that serves a
\* connection has been joined (aesdsocket.c:64-78).
THEOREM ExitJoinsAll == ASSUME Sequential PROVE Spec => []ExitJoinsWorkers
<1>1. SequentialInv => ExitJoinsWorkers
  BY DEF SequentialInv, EndInv, ExitJoinsWorkers
<1> QED
  BY <1>1, AlwaysSequential, PTL

----------------------------------------------------------------------------
(* Where chunks go.                                                        *)

chunks == <<data, outbox, buffer, got, sent>>

\* The steps that take a chunk further, each from and to its own connection.
Flow(c) ==
  \/ ClientSends(c) \/ CallRecv(c) \/ WorkDone(c)
  \/ /\ Receive(c) /\ outbox[c] # <<>>
     /\ buffer' = [buffer EXCEPT ![c] = Head(outbox[c])]
     /\ outbox' = [outbox EXCEPT ![c] = Tail(outbox[c])]
  \/ Write(c) /\ data' = Append(data, buffer[c]) /\ UNCHANGED got
  \/ /\ Read(c) /\ fds[datafd].pos \in 0 .. Len(data) - 1 /\ UNCHANGED outbox
     /\ buffer' = [buffer EXCEPT ![c] = data[fds[datafd].pos + 1]]
  \/ Send(c) /\ got' = [got EXCEPT ![c] = Append(got[c], buffer[c])]

\* And the one that adds a timestamp.
Stamped ==
  /\ Stamp /\ UNCHANGED <<outbox, buffer, got, sent>>
  /\ \/ UNCHANGED data
     \/ \E n : data' = Append(data, [from |-> Stamper, n |-> n, kind |-> "line"])

LEMMA ServeFlows ==
  ASSUME Sequential, ServingInv, NEW c \in Conn, Serve(c)
  PROVE  Flow(c) \/ UNCHANGED chunks
<1>1. CASE Receive(c)
  <2>1. on[c] = Socket(c) /\ Socket(c).of = c
    BY <1>1 DEF Receive, At, ServingInv, OnInv, Socket
  <2> QED
    BY <1>1, <2>1 DEF Receive, Flow
<1>2. CASE Send(c)
  <2>1. pc[c] = "send" /\ ~Idle(c)
    BY <1>2 DEF Send, At, Idle
  <2>2. fds[client_sockfd[c]] = Socket(c)
    BY <2>1, Serving DEF ServingInv, SocketPlaces, WorkerPlaces
  <2>3. got' = [got EXCEPT ![c] = Append(got[c], buffer[c])]
    BY <1>2, <2>2 DEF Send, Deliver, Socket
  <2> QED
    BY <1>2, <2>3 DEF Flow
<1>3. CASE OpenFails(c) \/ RecvEnds(c) \/ CloseSocket(c)
  BY <1>3 DEF OpenFails, RecvEnds, CloseSocket, chunks, files, locals, clients
<1> QED
  BY <1>1, <1>2, <1>3 DEF Serve, Flow

LEMMA OnFileFlows ==
  ASSUME Sequential, ServingInv, NEW c \in Conn, OnFile(c)
  PROVE  Flow(c) \/ UNCHANGED chunks
<1>1. fds[datafd].kind # "socket" /\ (fds[datafd].kind = "file" => fds[datafd].pos \in Nat)
  BY NoSocketInDatafd, Resources DEF ServingInv, ServerInv, DataTypes, FileTypes
<1>2. CASE Write(c)
  BY <1>1, <1>2 DEF Write, WriteData, Stored, Flow
<1>3. CASE Read(c)
  <2>1. /\ fds[datafd].kind = "file" /\ fds[datafd].pos < Len(data) /\ UNCHANGED outbox
        /\ buffer' = [buffer EXCEPT ![c] = data[fds[datafd].pos + 1]]
    BY <1>1, <1>3 DEF Read
  <2>2. Len(data) \in Nat
    BY DEF ServingInv, ServerInv, DataTypes, FileTypes
  <2> QED
    BY <1>1, <1>3, <2>1, <2>2 DEF Flow
<1>4. CASE Open(c) \/ Lock(c) \/ Fails(c) \/ Unlock(c) \/ Rewind(c) \/ ReadEnds(c) \/ CloseData(c)
  BY <1>4 DEF Open, Lock, Fails, Unlock, Rewind, ReadEnds, CloseData, chunks, files, locals,
              clients
<1> QED
  BY <1>2, <1>3, <1>4 DEF OnFile

LEMMA StepsFlow ==
  ASSUME Sequential, ServingInv, [Next]_vars, ~Restart
  PROVE  /\ UNCHANGED ended
         /\ UNCHANGED chunks \/ Stamped \/ \E c \in Conn : Flow(c)
<1>1. CASE \E c \in Conn : Worker(c)
  <2>1. UNCHANGED ended
    BY <1>1 DEF Worker, Serve, OnFile, OpenFails, CallRecv, Receive, RecvEnds, Send, CloseSocket,
         WorkDone, Open, Lock, Write, Fails, Unlock, Rewind, Read, ReadEnds, CloseData, history
  <2> QED
    BY <1>1, <2>1, ServeFlows, OnFileFlows DEF Worker
<1>2. CASE Stamp
  <2>1. fds[datafd].kind # "socket"
    BY NoSocketInDatafd DEF ServingInv
  <2> QED
    BY <1>2, <2>1 DEF Stamp, WriteData, Stored, Stamped, locals
<1>3. CASE \E c \in Conn : ClientSends(c)
  BY <1>3 DEF ClientSends, Flow, history
<1>4. CASE \/ SetUp \/ Create \/ Insert \/ Scan \/ Join \/ RemoveJoined \/ Signal
           \/ LockToStamp \/ Unlock(Stamper) \/ Wake \/ UNCHANGED vars
           \/ \E d \in Conn : Accept(d) \/ ClientCloses(d)
           \/ \E t \in Conn \cup {Main} : Cleanup(t)
  BY <1>4 DEF SetUp, Start, CreateSocket, Bind, ListenOn, CreateStamper, Create, Insert, Scan,
              Join, RemoveJoined, Signal, LockToStamp, Lock, Unlock, Wake, vars, Accept,
              ClientCloses, Cleanup, TestList, TakeFirst, RemoveHead, RemoveHeadCrashes,
              JoinThread, JoinFails, Exit,
              clients, files, locals, history, chunks
<1> QED
  BY <1>1, <1>2, <1>3, <1>4 DEF Next, Client, MainStep, StamperStep, Rest

\* Where the connections' threads go, other than by a restart.
LEMMA ThreadsMove ==
  ASSUME Sequential, ServingInv, [Next]_vars, ~Restart
  PROVE  \A c \in Conn : \/ pc'[c] = pc[c]
                         \/ Worker(c) /\ pc'[c] # "gone" /\ ~Idle(c)
                         \/ pc[c] = "unborn" /\ pc'[c] = "open"
<1> DEFINE Still == \A c \in Conn : pc'[c] = pc[c]
<1> USE DEF ServingInv
<1>1. ThreadTypes
  BY DEF ServerInv, ThreadInv
<1>2. ASSUME NEW c \in Conn, Worker(c)
      PROVE  ~Idle(c) /\ \A d \in Conn : pc'[d] # pc[d] => d = c /\ pc'[d] # "gone"
  <2>1. PICK place \in WorkerPlaces \ {"unborn", "gone"} : Goto(c, place)
    BY <1>2, WorkerKeepsTable
  <2> QED
    BY <1>1, <1>2, <2>1, WorkerMoved, WorkerKeepsTable
<1>3. ASSUME StamperStep PROVE Still
  BY <1>3, StamperKeepsTable, ThreadKinds
<1>4. ASSUME Create
      PROVE  \A c \in Conn : pc'[c] = pc[c] \/ (pc[c] = "unborn" /\ pc'[c] = "open")
  <2>1. pc' = [pc EXCEPT ![Main] = "insert", ![new_thread] = "open"] /\ pc[Main] = "create"
    BY <1>4 DEF Create, At, Sequential
  <2>2. new_thread \in Conn /\ pc[new_thread] = "unborn"
    BY <2>1 DEF ServerInv, ThreadInv, MainInv
  <2> QED
    BY <1>1, <2>1, <2>2, ThreadKinds DEF ThreadTypes
<1>5. ASSUME NEW t \in Conn \cup {Main}, Cleanup(t) PROVE Still
  <2>1. t = Main
    BY <1>5 DEF Cleanup, TestList, TakeFirst, RemoveHead, RemoveHeadCrashes, JoinThread,
                JoinFails, Exit, At, RunInv, WorkerPlaces
  <2>2. UNCHANGED pc \/ \E place \in CleanupPlaces : Goto(Main, place)
    BY <1>5, <2>1 DEF Cleanup, TestList, TakeFirst, RemoveHead, RemoveHeadCrashes, JoinThread,
                      JoinFails, Exit, CleanupPlaces
  <2> QED
    BY <1>1, <2>2, MainGoes
<1>6. ASSUME SetUp PROVE Still
  <2>1. CASE CreateStamper
    BY <1>1, <2>1, ThreadKinds DEF CreateStamper, Sequential, ThreadTypes
  <2>2. CASE ~CreateStamper
    <3>1. UNCHANGED pc \/ \E place : Goto(Main, place)
      BY <1>6, <2>2 DEF SetUp, Start, CreateSocket, Bind, ListenOn
    <3> QED
      BY <1>1, <3>1, MainGoes
  <2> QED
    BY <2>1, <2>2
<1>7. ASSUME \/ Insert \/ Scan \/ Join \/ RemoveJoined \/ Signal \/ UNCHANGED vars
             \/ \E c \in Conn : Client(c)
      PROVE  Still
  <2>1. UNCHANGED pc \/ \E place : Goto(Main, place)
    BY <1>7 DEF Insert, Scan, Join, RemoveJoined, Signal, Client, Accept, ClientSends, ClientCloses,
                vars
  <2> QED
    BY <1>1, <2>1, MainGoes
<1>8. CASE \E c \in Conn : Worker(c)
  BY <1>2, <1>8
<1>9. CASE ~\E c \in Conn : Worker(c)
  <2>1. \/ StamperStep \/ Create \/ SetUp \/ \E t \in Conn \cup {Main} : Cleanup(t)
        \/ Insert \/ Scan \/ Join \/ RemoveJoined \/ Signal \/ UNCHANGED vars
        \/ \E c \in Conn : Client(c)
    BY <1>9 DEF Next, MainStep, Rest
  <2> QED
    BY <1>3, <1>4, <1>5, <1>6, <1>7, <2>1
<1> QED
  BY <1>8, <1>9

LEMMA ClientsStay ==
  ASSUME ServingInv, [Next]_vars, ~Restart, NEW c \in Conn
  PROVE  /\ client'[c] = "away" => client[c] = "away"
         /\ client[c] = "closed" => client'[c] = "closed"
<1>1. client \in [Conn -> {"away", "open", "closed"}]
  BY DEF ServingInv, ServerInv, ThreadInv, ThreadTypes
<1>2. CASE \E d \in Conn : Accept(d) \/ ClientCloses(d)
  BY <1>1, <1>2 DEF Accept, ClientCloses
<1>3. CASE \E d \in Conn : Serve(d)
  <2>1. UNCHANGED client
    BY <1>3 DEF Serve, OpenFails, CallRecv, Receive, RecvEnds, Send, CloseSocket, WorkDone, clients
  <2> QED
    BY <2>1
<1>4. CASE \E d \in Conn : OnFile(d)
  <2>1. UNCHANGED client
    BY <1>4 DEF OnFile, Open, Lock, Write, Fails, Unlock, Rewind, Read, ReadEnds, CloseData, clients
  <2> QED
    BY <2>1
<1>5. CASE \/ SetUp \/ Create \/ Insert \/ Scan \/ Join \/ RemoveJoined \/ Signal
           \/ StamperStep \/ UNCHANGED vars
           \/ \E d \in Conn : ClientSends(d)
           \/ \E t \in Conn \cup {Main} : Cleanup(t)
  <2>1. UNCHANGED client
    BY <1>5 DEF SetUp, Start, CreateSocket, Bind, ListenOn, CreateStamper, Create, Insert, Scan,
                Join, RemoveJoined, Signal, StamperStep, LockToStamp, Lock, Stamp, Unlock, Wake,
                vars, ClientSends, Cleanup, TestList, TakeFirst, RemoveHead, RemoveHeadCrashes,
                JoinThread, JoinFails, Exit, clients
  <2> QED
    BY <2>1
<1> QED
  BY <1>2, <1>3, <1>4, <1>5 DEF Next, Client, Worker, MainStep, Rest

\* What a step does to the answers.
LEMMA AnswersGrow ==
  ASSUME Sequential, ServingInv, [Next]_vars, NEW c \in Conn
  PROVE  got'[c] = got[c] \/ got'[c] = <<>> \/ pc[c] = "send"
<1>1. got \in [Conn -> Seq(Chunk)]
  BY DEF ServingInv, ServerInv, DataTypes, ConnTypes
<1>2. CASE Restart
  BY <1>2 DEF Restart
<1>3. CASE UNCHANGED chunks \/ Stamped
  BY <1>3 DEF chunks, Stamped
<1>4. ASSUME NEW d \in Conn, Flow(d)
      PROVE  got'[c] = got[c] \/ got'[c] = <<>> \/ pc[c] = "send"
  BY <1>1, <1>4 DEF Flow, ClientSends, CallRecv, WorkDone, Receive, Read, Send, At, clients
<1> QED
  BY <1>2, <1>3, <1>4, StepsFlow

\* Clients get answers and nothing else: a timestamp may find datafd closed, but
\* never a client's socket (aesdsocket.c:251).
THEOREM OnlyAnswersSent == ASSUME Sequential PROVE Spec => ClientsGetAnswers
<1>1. ASSUME ServingInv, [Next]_vars, NEW c \in Conn, Len(got'[c]) > Len(got[c])
      PROVE  pc[c] = "send"
  <2>1. got \in [Conn -> Seq(Chunk)]
    BY <1>1 DEF ServingInv, ServerInv, DataTypes, ConnTypes
  <2>2. Len(got[c]) \in Nat /\ Len(<<>>) = 0
    BY <2>1
  <2> QED
    BY <1>1, <2>2, AnswersGrow
<1>2. ServingInv /\ [Next]_vars =>
        [\A c \in Conn : Len(got'[c]) > Len(got[c]) => pc[c] = "send"]_vars
  BY <1>1
<1> QED
  BY <1>2, AlwaysServing, PTL DEF Spec, ClientsGetAnswers

----------------------------------------------------------------------------
(* What the next server forgets.                                           *)

Fresh(chunk) == chunk.from \in Conn => pc[chunk.from] # "gone"

\* After an exit everything in file, sockets and answers is the new clients'.
FreshInv ==
  /\ \A c \in Conn : pc[c] = "gone" => client[c] = "closed"
  /\ ended = "exited" =>
       /\ \A i \in DOMAIN data : Fresh(data[i])
       /\ \A c \in Conn :
            /\ \A i \in DOMAIN outbox[c] : Fresh(outbox[c][i])
            /\ \A i \in DOMAIN got[c] : Fresh(got[c][i])
            /\ buffer[c] # Zeroed => Fresh(buffer[c])

\* A sequence that grows by something fresh, or shrinks.
LEMMA StillFresh ==
  ASSUME NEW s \in Seq(Chunk), \A i \in DOMAIN s : Fresh(s[i])
  PROVE  /\ \A x \in Chunk : Fresh(x) => \A i \in DOMAIN Append(s, x) : Fresh(Append(s, x)[i])
         /\ s # <<>> => Fresh(Head(s)) /\ \A i \in DOMAIN Tail(s) : Fresh(Tail(s)[i])
<1>1. Len(s) \in Nat /\ DOMAIN s = 1 .. Len(s)
  OBVIOUS
<1>2. ASSUME NEW x \in Chunk, Fresh(x), NEW i \in DOMAIN Append(s, x)
      PROVE  Fresh(Append(s, x)[i])
  <2>1. i \in 1 .. Len(s) + 1 /\ Append(s, x)[i] = IF i = Len(s) + 1 THEN x ELSE s[i]
    BY <1>1, <1>2
  <2>2. i # Len(s) + 1 => i \in DOMAIN s
    BY <1>1, <2>1
  <2> QED
    BY <1>2, <2>1, <2>2
<1>3. ASSUME s # <<>>
      PROVE  Fresh(Head(s)) /\ \A i \in DOMAIN Tail(s) : Fresh(Tail(s)[i])
  <2>1. Len(s) >= 1 /\ Head(s) = s[1] /\ 1 \in DOMAIN s
    BY <1>1, <1>3
  <2>2. ASSUME NEW i \in DOMAIN Tail(s) PROVE Tail(s)[i] = s[i + 1] /\ i + 1 \in DOMAIN s
    BY <1>1, <1>3, HeadTailProperties
  <2> QED
    BY <2>1, <2>2
<1> QED
  BY <1>2, <1>3

\* No step of a server that goes on makes a chunk stale, and none brings one in.
LEMMA StepKeepsFresh ==
  ASSUME Sequential, ~UseCharDevice, SequentialInv, FreshInv, [Next]_vars
  PROVE  FreshInv'
<1> USE DEF SequentialInv, ServingInv
<1>1. /\ data \in Seq(Chunk) /\ buffer \in [Conn -> Chunk \cup {Zeroed}]
      /\ outbox \in [Conn -> Seq(Chunk)] /\ got \in [Conn -> Seq(Chunk)]
      /\ client \in [Conn -> {"away", "open", "closed"}]
      /\ \A c \in Conn : client[c] = "away" => pc[c] = "unborn"
  BY DEF ServerInv, DataTypes, FileTypes, ConnTypes, ThreadInv, ThreadTypes, ListInv
<1>2. CASE Restart
  <2>1. \A c \in Conn : pc'[c] = "gone" => client'[c] = "closed"
    BY <1>2, ThreadKinds DEF Restart
  <2>2. ended' = "exited" => data' = <<>>
    BY <1>2 DEF Restart, Left, EndInv
  <2>3. \A c \in Conn : outbox'[c] = <<>> /\ got'[c] = <<>> /\ buffer'[c] = Zeroed
    BY <1>2 DEF Restart
  <2>4. DOMAIN <<>> = {}
    OBVIOUS
  <2> QED
    BY <2>1, <2>2, <2>3, <2>4 DEF FreshInv
<1>3. ASSUME ~Restart PROVE FreshInv'
  <2>1. \A c \in Conn : pc'[c] = "gone" => pc[c] = "gone"
    BY <1>3, ThreadsMove
  <2>2. \A x : Fresh(x) => Fresh(x)'
    BY <2>1 DEF Fresh
  <2>3. \A c \in Conn : pc'[c] = "gone" => client'[c] = "closed"
    BY <1>3, <2>1, ClientsStay DEF FreshInv
  <2>4. UNCHANGED ended
    BY <1>3, StepsFlow
  <2>5. SUFFICES ASSUME ended = "exited"
                 PROVE  /\ \A i \in DOMAIN data' : Fresh(data'[i])
                        /\ \A c \in Conn :
                             /\ \A i \in DOMAIN outbox'[c] : Fresh(outbox'[c][i])
                             /\ \A i \in DOMAIN got'[c] : Fresh(got'[c][i])
                             /\ buffer'[c] # Zeroed => Fresh(buffer'[c])
    BY <2>2, <2>3, <2>4 DEF FreshInv
  <2>6. /\ \A i \in DOMAIN data : Fresh(data[i])
        /\ \A c \in Conn :
             /\ \A i \in DOMAIN outbox[c] : Fresh(outbox[c][i])
             /\ \A i \in DOMAIN got[c] : Fresh(got[c][i])
             /\ buffer[c] # Zeroed => Fresh(buffer[c])
    BY <2>5 DEF FreshInv
  <2>7. CASE UNCHANGED chunks
    BY <2>6, <2>7 DEF chunks
  <2>8. CASE Stamped
    <3>1. data' \in Seq(Chunk)
      BY <1>3, StepKeepsServer DEF ServerInv, DataTypes, FileTypes
    <3>2. \A n : Fresh([from |-> Stamper, n |-> n, kind |-> "line"])
      BY ThreadKinds DEF Fresh
    <3>3. ASSUME NEW n, data' = Append(data, [from |-> Stamper, n |-> n, kind |-> "line"])
          PROVE  \A i \in DOMAIN data' : Fresh(data'[i])
      <4> DEFINE stamp == [from |-> Stamper, n |-> n, kind |-> "line"]
      <4>1. stamp = data'[Len(data) + 1] /\ Len(data) + 1 \in DOMAIN data'
        BY <1>1, <3>3
      <4>2. stamp \in Chunk
        BY <3>1, <4>1
      <4> QED
        BY <1>1, <2>6, <3>2, <3>3, <4>2, StillFresh
    <3> QED
      BY <2>6, <2>8, <3>3 DEF Stamped
  <2>9. ASSUME NEW c \in Conn, Flow(c)
        PROVE  /\ \A i \in DOMAIN data' : Fresh(data'[i])
               /\ \A d \in Conn :
                    /\ \A i \in DOMAIN outbox'[d] : Fresh(outbox'[d][i])
                    /\ \A i \in DOMAIN got'[d] : Fresh(got'[d][i])
                    /\ buffer'[d] # Zeroed => Fresh(buffer'[d])
    <3>1. CASE ClientSends(c)
      <4>1. PICK kind \in Kind :
              outbox' = [outbox EXCEPT ![c] =
                           Append(@, [from |-> c, n |-> sent[c] + 1, kind |-> kind])]
        BY <3>1 DEF ClientSends
      <4> DEFINE x == [from |-> c, n |-> sent[c] + 1, kind |-> kind]
      <4>2. UNCHANGED <<data, got, buffer>> /\ pc[c] # "gone"
        BY <3>1 DEF ClientSends, FreshInv, files, locals
      <4>3. Fresh(x)
        BY <4>2 DEF Fresh
      <4>4. x \in Chunk
        BY ParameterAssumption DEF Chunk, ServerInv, DataTypes, ConnTypes
      <4>5. outbox'[c] = Append(outbox[c], x) /\ \A d \in Conn : d # c => outbox'[d] = outbox[d]
        BY <1>1, <4>1
      <4> HIDE DEF x
      <4>6. \A i \in DOMAIN outbox'[c] : Fresh(outbox'[c][i])
        BY <1>1, <2>6, <4>3, <4>4, <4>5, StillFresh
      <4> QED
        BY <2>6, <4>2, <4>5, <4>6
    <3>2. CASE CallRecv(c) \/ WorkDone(c)
      <4>1. UNCHANGED <<data, got, outbox>> /\ buffer' = [buffer EXCEPT ![c] = Zeroed]
        BY <3>2 DEF CallRecv, WorkDone, files, clients
      <4> QED
        BY <1>1, <2>6, <4>1
    <3>3. CASE /\ Receive(c) /\ outbox[c] # <<>>
               /\ buffer' = [buffer EXCEPT ![c] = Head(outbox[c])]
               /\ outbox' = [outbox EXCEPT ![c] = Tail(outbox[c])]
      <4>1. UNCHANGED data /\ got' = [got EXCEPT ![c] = <<>>]
        BY <3>3 DEF Receive, files
      <4>2. /\ buffer'[c] = Head(outbox[c]) /\ outbox'[c] = Tail(outbox[c]) /\ got'[c] = <<>>
            /\ \A d \in Conn : d # c =>
                 buffer'[d] = buffer[d] /\ outbox'[d] = outbox[d] /\ got'[d] = got[d]
        BY <1>1, <3>3, <4>1
      <4>3. Fresh(Head(outbox[c])) /\ \A i \in DOMAIN Tail(outbox[c]) : Fresh(Tail(outbox[c])[i])
        BY <1>1, <2>6, <3>3, StillFresh
      <4>4. DOMAIN <<>> = {}
        OBVIOUS
      <4> QED
        BY <2>6, <4>1, <4>2, <4>3, <4>4
    <3>4. CASE Write(c) /\ data' = Append(data, buffer[c]) /\ UNCHANGED got
      <4>1. UNCHANGED <<buffer, outbox>> /\ buffer[c] \in Chunk
        BY <3>4 DEF Write, At, locals, ServerInv, LocalInv
      <4>2. buffer[c] # Zeroed
        BY <4>1 DEF Chunk, Zeroed
      <4>3. Fresh(buffer[c])
        BY <2>6, <4>2
      <4> QED
        BY <1>1, <2>6, <3>4, <4>1, <4>3, StillFresh
    <3>5. CASE /\ Read(c) /\ fds[datafd].pos \in 0 .. Len(data) - 1 /\ UNCHANGED outbox
               /\ buffer' = [buffer EXCEPT ![c] = data[fds[datafd].pos + 1]]
      <4>1. UNCHANGED <<data, got>>
        BY <3>5 DEF Read
      <4>2. fds[datafd].pos + 1 \in DOMAIN data
        BY <1>1, <3>5
      <4>3. Fresh(data[fds[datafd].pos + 1])
        BY <2>6, <4>2
      <4> QED
        BY <1>1, <2>6, <3>5, <4>1, <4>3
    <3>6. CASE Send(c) /\ got' = [got EXCEPT ![c] = Append(got[c], buffer[c])]
      <4>1. UNCHANGED <<data, outbox, buffer>> /\ buffer[c] \in Chunk
        BY <3>6 DEF Send, At, files, locals, ServerInv, LocalInv
      <4>2. buffer[c] # Zeroed
        BY <4>1 DEF Chunk, Zeroed
      <4>3. Fresh(buffer[c])
        BY <2>6, <4>2
      <4>4. got'[c] = Append(got[c], buffer[c]) /\ \A d \in Conn : d # c => got'[d] = got[d]
        BY <1>1, <3>6
      <4>5. \A i \in DOMAIN got'[c] : Fresh(got'[c][i])
        BY <1>1, <2>6, <4>1, <4>3, <4>4, StillFresh
      <4> QED
        BY <2>6, <4>1, <4>4, <4>5
    <3> QED
      BY <2>9, <3>1, <3>2, <3>3, <3>4, <3>5, <3>6 DEF Flow
  <2> QED
    BY <1>3, <2>7, <2>8, <2>9, StepsFlow
<1> QED
  BY <1>2, <1>3

\* A process that exits deletes the data file (aesdsocket.c:84), so that what the
\* next server reads, stores and sends comes from clients of its own.
THEOREM ExitDeletesData ==
  ASSUME Sequential, ~UseCharDevice PROVE Spec => []ExitForgetsData
<1>1. Init => FreshInv
  BY ThreadKinds DEF Init, FreshInv
<1>2. SequentialInv /\ FreshInv /\ [Next]_vars => FreshInv'
  BY StepKeepsFresh
<1>3. FreshInv => ExitForgetsData
  BY DEF FreshInv, ExitForgetsData, Fresh
<1> QED
  BY <1>1, <1>2, <1>3, AlwaysSequential, PTL DEF Spec

----------------------------------------------------------------------------
(* What is stored.                                                         *)

Of(c) == {i \in DOMAIN data : data[i].from = c}

\* A thread that holds a chunk it has received and not written.
Holds(c) == pc[c] \in {"lock", "write"}

\* The file holds the first k chunks of c, in their order.
Stores(c, k) ==
  /\ {data[i].n : i \in Of(c)} = 1 .. k
  /\ \A i, j \in Of(c) : i < j => data[i].n < data[j].n

\* The chunks of a client are numbered through file, buffer and socket.
StoredFor(c) ==
  /\ client[c] = "away" => sent[c] = 0 /\ outbox[c] = <<>>
  /\ pc[c] # "gone" =>
       /\ Len(outbox[c]) <= sent[c]
       /\ \A i \in DOMAIN outbox[c] :
            outbox[c][i].from = c /\ outbox[c][i].n = Received(c) + i
       /\ Holds(c) => buffer[c].from = c /\ buffer[c].n = Received(c) /\ Received(c) > 0
       /\ pc[c] # "ioctl" => Stores(c, IF Holds(c) THEN Received(c) - 1 ELSE Received(c))

StoredInv == \A c \in Conn : StoredFor(c)

LEMMA Appended ==
  ASSUME data \in Seq(Chunk), NEW x \in Chunk, data' = Append(data, x), NEW c \in Conn
  PROVE  /\ Len(data) + 1 \in Nat /\ data'[Len(data) + 1] = x
         /\ Of(c)' = Of(c) \cup IF x.from = c THEN {Len(data) + 1} ELSE {}
         /\ \A i \in Of(c) : i \in 1 .. Len(data) /\ data'[i] = data[i]
<1> DEFINE n == Len(data)
<1>1. n \in Nat /\ DOMAIN data = 1 .. n
  OBVIOUS
<1>2. /\ DOMAIN data' = 1 .. n + 1 /\ data'[n + 1] = x
      /\ \A i \in 1 .. n : data'[i] = data[i]
  BY <1>1
<1> HIDE DEF n
<1>3. \A i \in Of(c) : i \in 1 .. n /\ data'[i] = data[i]
  BY <1>1, <1>2 DEF Of
<1>4. Of(c)' = Of(c) \cup IF x.from = c THEN {n + 1} ELSE {}
  BY <1>1, <1>2 DEF Of
<1> QED
  BY <1>1, <1>2, <1>3, <1>4 DEF n

LEMMA OthersAppended ==
  ASSUME data \in Seq(Chunk), NEW x \in Chunk, data' = Append(data, x),
         NEW c \in Conn, x.from # c
  PROVE  Of(c)' = Of(c) /\ \A i \in Of(c) : data'[i] = data[i]
<1>1. /\ Of(c)' = Of(c) \cup IF x.from = c THEN {Len(data) + 1} ELSE {}
      /\ \A i \in Of(c) : data'[i] = data[i]
  BY Appended
<1>2. Of(c)' = Of(c)
  BY <1>1
<1> QED
  BY <1>1, <1>2

LEMMA OthersStored ==
  ASSUME NEW c \in Conn, NEW k, Stores(c, k),
         Of(c)' = Of(c), \A i \in Of(c) : data'[i] = data[i]
  PROVE  Stores(c, k)'
BY DEF Stores

\* A write of the next chunk.
LEMMA NextStored ==
  ASSUME NEW c \in Conn, NEW k \in Nat, Stores(c, k), NEW n \in Nat,
         Of(c)' = Of(c) \cup {n + 1}, data'[n + 1].n = k + 1,
         \A i \in Of(c) : i \in 1 .. n /\ data'[i] = data[i]
  PROVE  Stores(c, k + 1)'
<1>1. \A i \in Of(c) : data[i].n \in 1 .. k
  BY DEF Stores
<1>2. {data'[i].n : i \in Of(c)'} = 1 .. k + 1
  <2>1. ASSUME NEW i \in Of(c)' PROVE data'[i].n \in 1 .. k + 1
    <3>1. CASE i \in Of(c)
      BY <1>1, <3>1
    <3>2. CASE i = n + 1
      BY <3>2
    <3> QED
      BY <3>1, <3>2
  <2>2. ASSUME NEW m \in 1 .. k + 1 PROVE \E i \in Of(c)' : data'[i].n = m
    <3>1. CASE m = k + 1
      BY <3>1
    <3>2. CASE m \in 1 .. k
      <4>1. PICK i \in Of(c) : data[i].n = m
        BY <3>2 DEF Stores
      <4> QED
        BY <4>1
    <3> QED
      BY <3>1, <3>2
  <2> QED
    BY <2>1, <2>2
<1>3. ASSUME NEW i \in Of(c)', NEW j \in Of(c)', i < j PROVE data'[i].n < data'[j].n
  <2>1. \A m \in Of(c)' : m = n + 1 \/ (m \in Of(c) /\ m \in 1 .. n)
    OBVIOUS
  <2>2. i \in Of(c)
    BY <1>3, <2>1
  <2>3. CASE j \in Of(c)
    <3>1. data[i].n < data[j].n
      BY <1>3, <2>2, <2>3 DEF Stores
    <3> QED
      BY <2>2, <2>3, <3>1
  <2>4. CASE j = n + 1
    <3>1. data'[j].n = k + 1 /\ data'[i].n = data[i].n
      BY <2>2, <2>4
    <3>2. data[i].n \in 1 .. k
      BY <1>1, <2>2
    <3> QED
      BY <3>1, <3>2
  <2> QED
    BY <2>1, <2>3, <2>4
<1> QED
  BY <1>2, <1>3 DEF Stores

\* A thread gets a chunk, and gets rid of it, by steps that take it further.
LEMMA HoldersStay ==
  ASSUME Sequential, ServingInv, [Next]_vars, ~Restart, NEW c \in Conn, ~Flow(c)
  PROVE  /\ Holds(c)' <=> Holds(c)
         /\ pc'[c] # "ioctl" => pc[c] # "ioctl"
         /\ pc'[c] # "gone" => pc[c] # "gone"
<1>1. ThreadTypes /\ c # Stamper
  BY ThreadKinds DEF ServingInv, ServerInv, ThreadInv
<1>2. ASSUME Worker(c)
      PROVE  /\ Holds(c)' <=> Holds(c)
             /\ pc[c] # "ioctl" /\ pc[c] # "gone"
  <2>1. ~Receive(c) /\ ~Write(c)
    <3>1. fds[datafd].kind # "socket"
      BY NoSocketInDatafd DEF ServingInv
    <3>2. Receive(c) => on[c] = Socket(c) /\ Socket(c).of = c
      BY DEF Receive, At, ServingInv, OnInv, Socket
    <3> QED
      BY <3>1, <3>2 DEF Receive, Write, WriteData, Stored, Flow
  <2>2. CASE CallRecv(c) \/ RecvEnds(c) \/ Send(c) \/ CloseSocket(c) \/ WorkDone(c)
    <3>1. /\ pc[c] \in {"recv", "receiving", "send", "close_socket", "done"}
          /\ \E place \in {"receiving", "close_data", "read", "done", "exited"} : Goto(c, place)
      BY <2>2 DEF CallRecv, RecvEnds, Send, CloseSocket, WorkDone, At
    <3> QED
      BY <1>1, <3>1, WorkerMoved DEF Holds
  <2>3. CASE Open(c) \/ Rewind(c) \/ Read(c) \/ ReadEnds(c) \/ CloseData(c) \/ Unlock(c)
    <3>1. Answer(c) \in {"recv", "lseek", "read"}
      BY DEF Answer
    <3>2. /\ pc[c] \in {"open", "lseek", "read", "close_data", "unlock"}
          /\ \E place \in {"recv", "cleanup", "read", "send", "lseek", "close_socket"} :
               Goto(c, place)
      BY <1>1, <2>3, <3>1 DEF Open, Rewind, Read, ReadEnds, CloseData, Unlock, At
    <3> QED
      BY <1>1, <3>2, WorkerMoved DEF Holds
  <2>4. CASE Lock(c)
    BY <1>1, <2>4, WorkerMoved DEF Lock, At, Holds
  <2>5. ~OpenFails(c) /\ ~Fails(c)
    <3>1. ~Idle(c)
      BY <1>2, WorkerKeepsTable DEF ServingInv
    <3>2. pc[c] \in FilePlaces => fds[datafd].kind = "file"
      BY <3>1, Serving DEF ServingInv
    <3> QED
      BY <3>2 DEF OpenFails, Fails, Sequential, At, Closed, FilePlaces, SocketPlaces, WorkerPlaces
  <2> QED
    BY <1>2, <2>1, <2>2, <2>3, <2>4, <2>5 DEF Worker, Serve, OnFile
<1>3. CASE pc'[c] = pc[c] \/ (pc[c] = "unborn" /\ pc'[c] = "open")
  BY <1>3 DEF Holds
<1> QED
  BY <1>2, <1>3, ThreadsMove

\* A step that takes no chunk of c anywhere.
LEMMA AsideKeepsStored ==
  ASSUME Sequential, ServingInv, StoredInv, [Next]_vars, ~Restart, NEW c \in Conn, ~Flow(c)
  PROVE  StoredFor(c)'
<1>1. /\ data \in Seq(Chunk) /\ buffer \in [Conn -> Chunk \cup {Zeroed}]
      /\ outbox \in [Conn -> Seq(Chunk)] /\ got \in [Conn -> Seq(Chunk)]
      /\ sent \in [Conn -> 0 .. MaxChunks] /\ data' \in Seq(Chunk)
  BY StepKeepsServer DEF ServingInv, ServerInv, DataTypes, FileTypes, ConnTypes
<1>2. StoredFor(c)
  BY DEF StoredInv
<1> DEFINE Same == /\ UNCHANGED <<outbox[c], buffer[c], sent[c]>>
                   /\ Of(c)' = Of(c) /\ \A i \in Of(c) : data'[i] = data[i]
<1>3. Same
  <2>1. CASE UNCHANGED chunks
    BY <2>1 DEF chunks, Of
  <2>2. CASE Stamped
    <3>1. CASE UNCHANGED data
      BY <2>2, <3>1 DEF Stamped, Of
    <3>2. ASSUME NEW n, data' = Append(data, [from |-> Stamper, n |-> n, kind |-> "line"])
          PROVE  Of(c)' = Of(c) /\ \A i \in Of(c) : data'[i] = data[i]
      <4> DEFINE x == [from |-> Stamper, n |-> n, kind |-> "line"]
      <4>1. x = data'[Len(data) + 1] /\ Len(data) + 1 \in DOMAIN data'
        BY <1>1, <3>2
      <4>2. x \in Chunk /\ x.from # c
        BY <1>1, <4>1, ThreadKinds
      <4>3. data' = Append(data, x) /\ data \in Seq(Chunk)
        BY <1>1, <3>2
      <4> HIDE DEF x
      <4> QED
        BY <4>2, <4>3, OthersAppended
    <3> QED
      BY <2>2, <3>1, <3>2 DEF Stamped
  <2>3. ASSUME NEW d \in Conn, Flow(d), d # c PROVE Same
    <3>1. CASE ClientSends(d)
      <4>1. /\ UNCHANGED <<data, buffer>> /\ sent' = [sent EXCEPT ![d] = @ + 1]
            /\ \E s : outbox' = [outbox EXCEPT ![d] = s]
        BY <3>1 DEF ClientSends, files, locals
      <4> QED
        BY <1>1, <2>3, <4>1 DEF Of
    <3>2. CASE CallRecv(d) \/ WorkDone(d)
      <4>1. UNCHANGED <<data, outbox, sent>> /\ buffer' = [buffer EXCEPT ![d] = Zeroed]
        BY <3>2 DEF CallRecv, WorkDone, files, clients
      <4> QED
        BY <1>1, <2>3, <4>1 DEF Of
    <3>3. CASE /\ Receive(d) /\ outbox[d] # <<>>
               /\ buffer' = [buffer EXCEPT ![d] = Head(outbox[d])]
               /\ outbox' = [outbox EXCEPT ![d] = Tail(outbox[d])]
      <4>1. UNCHANGED <<data, sent>>
        BY <3>3 DEF Receive, files
      <4> QED
        BY <1>1, <2>3, <3>3, <4>1 DEF Of
    <3>4. CASE Write(d) /\ data' = Append(data, buffer[d]) /\ UNCHANGED got
      <4>1. UNCHANGED <<buffer, outbox, sent>> /\ buffer[d] \in Chunk /\ pc[d] = "write"
        BY <3>4 DEF Write, At, locals, ServingInv, ServerInv, LocalInv
      <4>2. buffer[d].from = d
        BY <4>1 DEF StoredInv, StoredFor, Holds
      <4> DEFINE x == buffer[d]
      <4>3. x \in Chunk /\ x.from # c /\ data' = Append(data, x) /\ data \in Seq(Chunk)
        BY <1>1, <2>3, <3>4, <4>1, <4>2
      <4> HIDE DEF x
      <4>4. Of(c)' = Of(c) /\ \A i \in Of(c) : data'[i] = data[i]
        BY <4>3, OthersAppended
      <4> QED
        BY <4>1, <4>4
    <3>5. CASE /\ Read(d) /\ fds[datafd].pos \in 0 .. Len(data) - 1 /\ UNCHANGED outbox
               /\ buffer' = [buffer EXCEPT ![d] = data[fds[datafd].pos + 1]]
      <4>1. UNCHANGED <<data, sent>>
        BY <3>5 DEF Read
      <4> QED
        BY <1>1, <2>3, <3>5, <4>1 DEF Of
    <3>6. CASE Send(d) /\ got' = [got EXCEPT ![d] = Append(got[d], buffer[d])]
      BY <3>6 DEF Send, files, locals, Of
    <3> QED
      BY <2>3, <3>1, <3>2, <3>3, <3>4, <3>5, <3>6 DEF Flow
  <2> QED
    BY <2>1, <2>2, <2>3, StepsFlow
<1>4. /\ client'[c] = "away" => client[c] = "away"
      /\ Holds(c)' <=> Holds(c)
      /\ pc'[c] # "ioctl" => pc[c] # "ioctl"
      /\ pc'[c] # "gone" => pc[c] # "gone"
  BY ClientsStay, HoldersStay
<1>5. Received(c)' = Received(c)
  BY <1>3 DEF Received
<1>6. \A k : Stores(c, k) => Stores(c, k)'
  BY <1>3, OthersStored
<1>7. pc'[c] # "ioctl" /\ pc'[c] # "gone" =>
        Stores(c, IF Holds(c) THEN Received(c) - 1 ELSE Received(c))'
  BY <1>2, <1>4, <1>5, <1>6 DEF StoredFor, Stores
<1> QED
  BY <1>2, <1>3, <1>4, <1>5, <1>7 DEF StoredFor

\* A step that takes a chunk of c further.
LEMMA FlowKeepsStored ==
  ASSUME Sequential, ServingInv, StoredInv, [Next]_vars, ~Restart, NEW c \in Conn, Flow(c)
  PROVE  StoredFor(c)'
<1>1. /\ data \in Seq(Chunk) /\ buffer \in [Conn -> Chunk \cup {Zeroed}]
      /\ outbox \in [Conn -> Seq(Chunk)] /\ got \in [Conn -> Seq(Chunk)]
      /\ sent \in [Conn -> 0 .. MaxChunks] /\ outbox' \in [Conn -> Seq(Chunk)]
      /\ ThreadTypes /\ (client[c] = "away" => pc[c] = "unborn")
  BY StepKeepsServer
     DEF ServingInv, ServerInv, DataTypes, FileTypes, ConnTypes, ThreadInv, ListInv
<1>2. /\ Len(outbox[c]) \in Nat /\ sent[c] \in Nat /\ outbox[c] \in Seq(Chunk)
      /\ Received(c) = sent[c] - Len(outbox[c]) /\ Received(c) \in Int
  BY <1>1 DEF Received
<1>3. StoredFor(c)
  BY DEF StoredInv
<1>4. client'[c] # "away"
  BY <1>1, ClientsStay
     DEF Flow, ClientSends, CallRecv, WorkDone, Receive, Write, Read, Send, At
<1> DEFINE From(s, r) == \A i \in DOMAIN s : s[i].from = c /\ s[i].n = r + i
<1>5. CASE ClientSends(c)
  <2>1. PICK kind \in Kind :
          outbox' = [outbox EXCEPT ![c] =
                       Append(@, [from |-> c, n |-> sent[c] + 1, kind |-> kind])]
    BY <1>5 DEF ClientSends
  <2> DEFINE x == [from |-> c, n |-> sent[c] + 1, kind |-> kind]
  <2>2. /\ UNCHANGED <<pc, data, buffer>> /\ sent'[c] = sent[c] + 1
        /\ x \in Chunk /\ x.from = c /\ x.n = sent[c] + 1
    BY <1>1, <1>5, ParameterAssumption DEF ClientSends, files, locals, Chunk
  <2>3. outbox'[c] = Append(outbox[c], x)
    BY <1>1, <2>1
  <2> HIDE DEF x
  <2>4. /\ Len(outbox'[c]) = Len(outbox[c]) + 1 /\ DOMAIN outbox'[c] = 1 .. Len(outbox[c]) + 1
        /\ outbox'[c][Len(outbox[c]) + 1] = x
        /\ \A i \in 1 .. Len(outbox[c]) : outbox'[c][i] = outbox[c][i]
    BY <1>2, <2>2, <2>3
  <2>5. Received(c)' = Received(c)
    BY <1>2, <2>2, <2>4 DEF Received
  <2>6. From(outbox[c], Received(c)) => From(outbox'[c], Received(c))
    <3>1. x.n = Received(c) + (Len(outbox[c]) + 1)
      BY <1>2, <2>2
    <3>2. DOMAIN outbox[c] = 1 .. Len(outbox[c])
      BY <1>2
    <3>3. \A i \in 1 .. Len(outbox[c]) + 1 : i \in 1 .. Len(outbox[c]) \/ i = Len(outbox[c]) + 1
      BY <1>2
    <3> QED
      BY <2>2, <2>4, <3>1, <3>2, <3>3
  <2>7. Of(c)' = Of(c) /\ \A k : Stores(c, k)' <=> Stores(c, k)
    BY <2>2 DEF Stores, Of
  <2> QED
    BY <1>2, <1>3, <1>4, <2>2, <2>4, <2>5, <2>6, <2>7 DEF StoredFor, Holds, Stores
<1>6. ASSUME UNCHANGED <<data, outbox, sent>>,
             NEW place, Goto(c, place), place \notin {"lock", "write"}, ~Holds(c),
             pc[c] # "gone", pc[c] # "ioctl"
      PROVE  StoredFor(c)'
  <2>1. pc'[c] = place /\ ~Holds(c)'
    BY <1>1, <1>6, WorkerMoved DEF Holds
  <2>2. Received(c)' = Received(c) /\ Of(c)' = Of(c) /\ \A k : Stores(c, k)' <=> Stores(c, k)
    BY <1>6 DEF Received, Of, Stores
  <2> QED
    BY <1>3, <1>4, <1>6, <2>1, <2>2 DEF StoredFor, Stores
<1>7. CASE CallRecv(c) \/ WorkDone(c) \/ Send(c)
  BY <1>6, <1>7 DEF CallRecv, WorkDone, Send, At, files, clients, Holds
<1>8. CASE Read(c) /\ UNCHANGED outbox
  BY <1>6, <1>8 DEF Read, At, Holds
<1>9. CASE /\ Receive(c) /\ outbox[c] # <<>>
           /\ buffer' = [buffer EXCEPT ![c] = Head(outbox[c])]
           /\ outbox' = [outbox EXCEPT ![c] = Tail(outbox[c])]
  <2>1. PICK place \in {"lock", "ioctl", "write"} : Goto(c, place)
    BY <1>9 DEF Receive
  <2>2. pc[c] = "receiving" /\ UNCHANGED <<data, sent>>
    BY <1>9 DEF Receive, At, files
  <2>3. pc'[c] = place
    BY <1>1, <2>1, WorkerMoved
  <2>4. buffer'[c] = Head(outbox[c]) /\ outbox'[c] = Tail(outbox[c])
    BY <1>1, <1>9
  <2>5. /\ Len(outbox[c]) >= 1 /\ Len(outbox'[c]) = Len(outbox[c]) - 1
        /\ buffer'[c] = outbox[c][1]
        /\ \A i \in DOMAIN outbox'[c] : i \in Nat /\ i + 1 \in DOMAIN outbox[c]
                                        /\ outbox'[c][i] = outbox[c][i + 1]
    <3>1. Len(outbox[c]) # 0 /\ Head(outbox[c]) = outbox[c][1]
      BY <1>2, <1>9
    <3>2. /\ Len(Tail(outbox[c])) = Len(outbox[c]) - 1
          /\ \A i \in 1 .. Len(Tail(outbox[c])) : Tail(outbox[c])[i] = outbox[c][i + 1]
      BY <1>2, <1>9, HeadTailProperties
    <3>3. DOMAIN Tail(outbox[c]) = 1 .. Len(Tail(outbox[c])) /\ DOMAIN outbox[c] = 1 .. Len(outbox[c])
      BY <1>2, <1>9, HeadTailProperties
    <3> QED
      BY <1>2, <2>4, <3>1, <3>2, <3>3
  <2>6. Received(c)' = Received(c) + 1
    BY <1>2, <2>2, <2>5 DEF Received
  <2>7. From(outbox[c], Received(c)) /\ Len(outbox[c]) <= sent[c] /\ Stores(c, Received(c))
    BY <1>3, <2>2 DEF StoredFor, Holds
  <2>8. buffer'[c].from = c /\ buffer'[c].n = Received(c) + 1
    <3>1. 1 \in DOMAIN outbox[c]
      BY <1>2, <2>5
    <3> QED
      BY <2>5, <2>7, <3>1
  <2>9. From(outbox'[c], Received(c) + 1)
    <3>1. ASSUME NEW i \in DOMAIN outbox'[c]
          PROVE  outbox'[c][i].from = c /\ outbox'[c][i].n = Received(c) + 1 + i
      <4>1. outbox'[c][i].n = Received(c) + (i + 1) /\ outbox'[c][i].from = c /\ i \in Nat
        BY <2>5, <2>7
      <4> QED
        BY <1>2, <4>1
    <3> QED
      BY <3>1
  <2>10. \A k : Stores(c, k)' <=> Stores(c, k)
    BY <2>2 DEF Stores, Of
  <2>11. Received(c) + 1 > 0 /\ (Received(c) + 1) - 1 = Received(c)
    BY <1>2, <2>7
  <2>12. Holds(c)' <=> place # "ioctl"
    BY <2>1, <2>3 DEF Holds
  <2>13. place # "ioctl" => Stores(c, IF Holds(c) THEN Received(c) - 1 ELSE Received(c))'
    BY <2>6, <2>7, <2>10, <2>11, <2>12 DEF Stores
  <2>14. Len(outbox'[c]) <= sent'[c] /\ From(outbox'[c], Received(c)')
    BY <1>2, <2>2, <2>5, <2>6, <2>7, <2>9
  <2>15. Holds(c)' => buffer'[c].from = c /\ buffer'[c].n = Received(c)' /\ Received(c)' > 0
    BY <2>6, <2>8, <2>11
  <2> QED
    BY <1>4, <2>3, <2>13, <2>14, <2>15 DEF StoredFor
<1>10. CASE Write(c) /\ data' = Append(data, buffer[c]) /\ UNCHANGED got
  <2>1. /\ pc[c] = "write" /\ buffer[c] \in Chunk /\ UNCHANGED <<outbox, sent>>
        /\ Goto(c, "unlock")
    BY <1>10 DEF Write, At, ServingInv, ServerInv, LocalInv, locals
  <2>2. /\ buffer[c].from = c /\ buffer[c].n = Received(c) /\ Received(c) > 0
        /\ Stores(c, Received(c) - 1)
    BY <1>3, <2>1 DEF StoredFor, Holds
  <2> DEFINE x == buffer[c]
             n == Len(data)
  <2>3. x \in Chunk /\ x.from = c /\ data' = Append(data, x) /\ n \in Nat
    BY <1>1, <1>10, <2>1, <2>2
  <2> HIDE DEF x
  <2>4. /\ Of(c)' = Of(c) \cup {n + 1} /\ data'[n + 1] = x
        /\ \A i \in Of(c) : i \in 1 .. n /\ data'[i] = data[i]
    BY <1>1, <2>3, Appended
  <2> HIDE DEF n
  <2>5. data'[n + 1].n = Received(c)
    BY <2>2, <2>4 DEF x
  <2>6. PICK k \in Nat : Received(c) = k + 1 /\ Received(c) - 1 = k
    BY <1>2, <2>2
  <2>7. Stores(c, k + 1)'
    <3>1. Stores(c, k) /\ data'[n + 1].n = k + 1
      BY <2>2, <2>5, <2>6
    <3> QED
      BY <2>3, <2>4, <3>1, NextStored
  <2>8. Received(c)' = k + 1 /\ pc'[c] = "unlock" /\ ~Holds(c)'
    BY <1>1, <2>1, <2>6, WorkerMoved DEF Received, Holds
  <2>9. Stores(c, Received(c))'
    BY <2>7, <2>8 DEF Stores
  <2> QED
    BY <1>3, <1>4, <2>1, <2>6, <2>8, <2>9 DEF StoredFor, Stores
<1> QED
  BY <1>5, <1>7, <1>8, <1>9, <1>10 DEF Flow

LEMMA StepKeepsStored ==
  ASSUME Sequential, ServingInv, StoredInv, [Next]_vars
  PROVE  StoredInv'
<1>1. CASE ~Restart
  BY <1>1, AsideKeepsStored, FlowKeepsStored DEF StoredInv
<1>2. CASE Restart
  <2> SUFFICES ASSUME NEW c \in Conn PROVE StoredFor(c)'
    BY DEF StoredInv
  <2>1. /\ sent'[c] = 0 /\ outbox'[c] = <<>> /\ data' \in {data, <<>>}
        /\ client'[c] = "away" <=> client[c] = "away"
        /\ pc'[c] = IF client[c] = "away" THEN "unborn" ELSE "gone"
    BY <1>2, ThreadKinds DEF Restart, Left
  <2>2. CASE client[c] = "away"
    <3>1. StoredFor(c) /\ pc[c] = "unborn"
      BY <2>2 DEF StoredInv, ServingInv, ServerInv, ThreadInv, ListInv
    <3>2. Received(c) = 0 /\ Received(c)' = 0 /\ DOMAIN <<>> = {} /\ Len(<<>>) = 0
      <4>1. Len(<<>>) = 0 /\ DOMAIN <<>> = {}
        OBVIOUS
      <4>2. sent[c] = 0 /\ Len(outbox[c]) = 0
        BY <2>2, <3>1, <4>1 DEF StoredFor
      <4>3. sent'[c] = 0 /\ Len(outbox'[c]) = 0
        BY <2>1, <4>1
      <4>4. Received(c) = 0 /\ Received(c)' = 0
        BY <4>2, <4>3 DEF Received
      <4> QED
        BY <4>1, <4>4
    <3>3. Of(c) = {}
      <4>1. Stores(c, Received(c))
        BY <3>1 DEF StoredFor, Holds
      <4>2. Received(c) = 0
        BY <3>2
      <4>3. {data[i].n : i \in Of(c)} = {}
        <5>1. {data[i].n : i \in Of(c)} = 1 .. Received(c)
          BY <4>1 DEF Stores
        <5>2. 1 .. 0 = {}
          OBVIOUS
        <5> QED
          BY <4>2, <5>1, <5>2
      <4> QED
        BY <4>3
    <3>4. Of(c)' = {}
      <4>1. CASE data' = data
        BY <3>3, <4>1 DEF Of
      <4>2. CASE data' = <<>>
        BY <3>2, <4>2 DEF Of
      <4> QED
        BY <2>1, <4>1, <4>2
    <3> QED
      BY <2>1, <2>2, <3>2, <3>4 DEF StoredFor, Holds, Stores
  <2>3. CASE client[c] # "away"
    BY <2>1, <2>3 DEF StoredFor
  <2> QED
    BY <2>2, <2>3
<1> QED
  BY <1>1, <1>2

\* The file has what handle_connection has received, all of it, once and in order,
\* whatever the timestamps and the connections before it have written between
\* (aesdsocket.c:188).
THEOREM ReceivedGetsStored == ASSUME Sequential PROVE Spec => []ReceivedIsStored
<1>1. Init => StoredInv
  <2> SUFFICES ASSUME Init, NEW c \in Conn PROVE StoredFor(c)
    BY DEF StoredInv
  <2>1. /\ pc[c] = "unborn" /\ sent[c] = 0 /\ outbox[c] = <<>> /\ data = <<>>
    BY ThreadKinds DEF Init
  <2>2. DOMAIN <<>> = {} /\ Len(<<>>) = 0
    OBVIOUS
  <2> QED
    BY <2>1, <2>2 DEF StoredFor, Received, Holds, Stores, Of
<1>2. ServingInv /\ StoredInv /\ [Next]_vars => StoredInv'
  BY StepKeepsStored
<1>3. StoredInv => ReceivedIsStored
  BY DEF StoredInv, StoredFor, Stores, Holds, Of, ReceivedIsStored
<1> QED
  BY <1>1, <1>2, <1>3, AlwaysServing, PTL DEF Spec

----------------------------------------------------------------------------
(* What is answered.                                                       *)

\* The mutex of the data file keeps threads from writing at once, and without
\* StampAnytime no timestamp comes in the middle of an answer.
TurnsInv ==
  /\ \A t \in Conn \cup {Stamper} : pc[t] \in {"write", "unlock"} => mutex = t
  /\ pc[Stamper] \in {"write", "unlock"} => \A c \in Conn : ~Answering(c)

\* What a client has got is what has been read, from the start of the file.
AnswerFor(c) ==
  LET pos == fds[datafd].pos
  IN  /\ pc[c] \in {"lock", "write", "unlock", "lseek"} => got[c] = <<>>
      /\ pc[c] \in {"unlock", "lseek", "read", "send"} => data # <<>>
      /\ pc[c] \in {"read", "send"} => pos \in 0 .. Len(data)
      /\ pc[c] = "read" => got[c] = SubSeq(data, 1, pos)
      /\ pc[c] = "send" => Append(got[c], buffer[c]) = SubSeq(data, 1, pos)

AnswerInv == \A c \in Conn : AnswerFor(c)

\* A thread takes the mutex and gives it back, and writes in between.
LEMMA WorkerKeepsTurns ==
  ASSUME Sequential, ~UseCharDevice, ServingInv, TurnsInv, NEW c \in Conn, Worker(c)
  PROVE  TurnsInv'
<1> USE DEF ServingInv
<1>1. ThreadTypes /\ c # Stamper /\ c # NoThread /\ Stamper # NoThread /\ NoThread \notin Conn
  BY ThreadKinds, ThreadAssumption DEF ServerInv, ThreadInv
<1>2. /\ \A t \in Thread : t # c => pc'[t] = pc[t]
      /\ pc'[Stamper] = pc[Stamper] /\ \A d \in Conn : d # c => pc'[d] = pc[d]
  BY <1>1, ThreadKinds, WorkerKeepsTable
<1>3. \A place : Goto(c, place) => pc'[c] = place
  BY <1>1, WorkerMoved
<1>4. CASE Lock(c)
  <2>1. mutex = NoThread /\ mutex' = c /\ pc'[c] = "write"
    BY <1>3, <1>4 DEF Lock
  <2>2. \A t \in Conn \cup {Stamper} : pc[t] \notin {"write", "unlock"}
    BY <1>1, <2>1 DEF TurnsInv
  <2> QED
    BY <1>1, <1>2, <2>1, <2>2 DEF TurnsInv
<1>5. CASE Unlock(c)
  <2>1. pc[c] = "unlock" /\ pc'[c] \in {"recv", "lseek"}
    BY <1>1, <1>3, <1>5 DEF Unlock, Answer, At
  <2>2. \A t \in Conn \cup {Stamper} : t # c => pc[t] \notin {"write", "unlock"}
    BY <1>1, <2>1 DEF TurnsInv
  <2> QED
    BY <1>1, <1>2, <2>1, <2>2 DEF TurnsInv
<1>6. CASE ~Lock(c) /\ ~Unlock(c)
  <2>1. /\ UNCHANGED mutex
        /\ pc'[c] \in {"write", "unlock"} => pc[c] \in {"write", "unlock"}
        /\ Answering(c)' => Answering(c)
    <3>1. CASE CallRecv(c) \/ RecvEnds(c) \/ CloseSocket(c) \/ WorkDone(c) \/ Open(c) \/ CloseData(c)
      <4>1. \E place \in {"receiving", "close_data", "done", "exited", "recv", "cleanup",
                          "close_socket"} : Goto(c, place)
        BY <3>1 DEF CallRecv, RecvEnds, CloseSocket, WorkDone, Open, CloseData
      <4>2. UNCHANGED mutex
        BY <3>1 DEF CallRecv, RecvEnds, CloseSocket, WorkDone, Open, CloseData, flags
      <4> QED
        BY <1>3, <4>1, <4>2 DEF Answering
    <3>2. CASE Receive(c)
      BY <1>3, <3>2 DEF Receive, flags, Answering
    <3>3. CASE Write(c) \/ Rewind(c) \/ Read(c) \/ ReadEnds(c) \/ Send(c)
      BY <1>3, <3>3 DEF Write, Rewind, Read, ReadEnds, Send, flags, At, Answering
    <3>4. CASE OpenFails(c) \/ Fails(c)
      BY <1>3, <3>4 DEF OpenFails, Fails, flags, Answering
    <3> QED
      BY <1>6, <3>1, <3>2, <3>3, <3>4 DEF Worker, Serve, OnFile
  <2>2. \A d \in Conn : Answering(d)' => Answering(d)
    BY <1>2, <2>1 DEF Answering
  <2>3. ASSUME NEW t \in Conn \cup {Stamper}, pc'[t] \in {"write", "unlock"} PROVE mutex' = t
    BY <1>2, <2>1, <2>3 DEF TurnsInv
  <2> QED
    BY <1>2, <2>2, <2>3 DEF TurnsInv
<1> QED
  BY <1>4, <1>5, <1>6

LEMMA StepKeepsTurns ==
  ASSUME Sequential, ~UseCharDevice, ~StampAnytime, ServingInv, TurnsInv, [Next]_vars
  PROVE  TurnsInv'
<1> USE DEF ServingInv
<1>1. /\ ThreadTypes /\ Stamper # NoThread /\ NoThread \notin Conn /\ Stamper \notin Conn
      /\ Main \notin Conn \cup {Stamper}
  BY ThreadKinds, ThreadAssumption DEF ServerInv, ThreadInv, Thread
<1>2. CASE Restart
  <2>1. \A t \in Conn \cup {Stamper} : pc'[t] \in {"unborn", "gone"}
    BY <1>2, ThreadKinds DEF Restart
  <2> QED
    BY <2>1 DEF TurnsInv
<1>3. CASE \E c \in Conn : Worker(c)
  BY <1>3, WorkerKeepsTurns
<1>4. CASE StamperStep
  <2>1. \A c \in Conn : pc'[c] = pc[c] /\ (Answering(c)' <=> Answering(c))
    BY <1>4, StamperKeepsTable, ThreadKinds DEF Answering
  <2>2. \A place : Goto(Stamper, place) => pc'[Stamper] = place
    BY <1>1, ThreadKinds DEF Goto, ThreadTypes
  <2>3. CASE LockToStamp
    <3>1. /\ mutex = NoThread /\ mutex' = Stamper /\ pc'[Stamper] = "write"
          /\ \A c \in Conn : ~Answering(c)
      BY <2>2, <2>3 DEF LockToStamp, Lock
    <3>2. \A c \in Conn : pc[c] \notin {"write", "unlock"}
      BY <1>1, <3>1 DEF TurnsInv
    <3> QED
      BY <2>1, <3>1, <3>2 DEF TurnsInv
  <2>4. CASE Stamp
    <3>1. pc[Stamper] = "write" /\ pc'[Stamper] = "unlock" /\ UNCHANGED mutex
      BY <2>2, <2>4 DEF Stamp, At, flags
    <3> QED
      BY <2>1, <3>1 DEF TurnsInv
  <2>5. CASE Unlock(Stamper)
    <3>1. pc[Stamper] = "unlock" /\ pc'[Stamper] = "sleep"
      BY <2>2, <2>5 DEF Unlock, At
    <3>2. \A c \in Conn : pc[c] \notin {"write", "unlock"}
      BY <1>1, <3>1 DEF TurnsInv
    <3> QED
      BY <2>1, <3>1, <3>2 DEF TurnsInv
  <2>6. CASE Wake
    <3>1. pc'[Stamper] \in {"exited", "lock"} /\ UNCHANGED mutex
      BY <2>2, <2>6 DEF Wake, flags
    <3> QED
      BY <2>1, <3>1 DEF TurnsInv
  <2> QED
    BY <1>4, <2>3, <2>4, <2>5, <2>6 DEF StamperStep
<1>5. CASE ~Restart /\ ~StamperStep /\ ~\E c \in Conn : Worker(c)
  <2>1. \A c \in Conn : pc'[c] = pc[c] \/ (pc[c] = "unborn" /\ pc'[c] = "open")
    BY <1>5, ThreadsMove
  <2>2. /\ UNCHANGED mutex
        /\ \/ UNCHANGED pc
           \/ pc' = [pc EXCEPT ![Main] = "insert", ![new_thread] = "open"]
              /\ new_thread \in Conn
           \/ CreateStamper
           \/ \E t \in Conn \cup {Main} : \E place : Goto(t, place)
    <3>1. CASE Create
      <4>1. pc[Main] = "create"
        BY <3>1 DEF Create, At
      <4>2. new_thread \in Conn
        BY <4>1 DEF ServerInv, ThreadInv, MainInv
      <4> QED
        BY <3>1, <4>2 DEF Create, Sequential, flags
    <3>2. CASE CreateStamper
      BY <3>2 DEF CreateStamper, flags
    <3>3. CASE \/ Start \/ CreateSocket \/ Bind \/ ListenOn \/ Insert \/ Scan \/ Join
               \/ RemoveJoined \/ Signal \/ UNCHANGED vars
               \/ \E d \in Conn : Client(d)
               \/ \E t \in Conn \cup {Main} : Cleanup(t)
      BY <3>3 DEF Start, CreateSocket, Bind, ListenOn, Insert, Scan, Join, RemoveJoined, Signal,
         vars, Client, Accept, ClientSends, ClientCloses, Cleanup, TestList, TakeFirst,
         RemoveHead, RemoveHeadCrashes, JoinThread,
         JoinFails, Exit, flags
    <3> QED
      BY <1>5, <3>1, <3>2, <3>3 DEF Next, MainStep, SetUp, Rest
  <2>3. pc'[Stamper] \in {"write", "unlock"} => pc[Stamper] \in {"write", "unlock"}
    <3>1. CASE CreateStamper
      BY <1>1, <3>1, ThreadKinds DEF CreateStamper, Sequential, ThreadTypes
    <3>2. CASE ~CreateStamper
      BY <1>1, <2>2, <3>2, ThreadKinds DEF Goto, ThreadTypes
    <3> QED
      BY <3>1, <3>2
  <2>4. \A c \in Conn : Answering(c)' => Answering(c)
    BY <2>1 DEF Answering
  <2> QED
    BY <2>1, <2>2, <2>3, <2>4 DEF TurnsInv
<1> QED
  BY <1>2, <1>3, <1>4, <1>5

\* The step of another thread, while c answers.
LEMMA OthersKeepAnswer ==
  ASSUME Sequential, ServingInv, TurnsInv, AnswerInv, [Next]_vars, ~Restart,
         NEW c \in Conn, ~Worker(c)
  PROVE  AnswerFor(c)'
<1> USE DEF ServingInv
<1>1. ThreadTypes /\ NoThread \notin Conn /\ AnswerFor(c)
  BY ThreadKinds DEF ServerInv, ThreadInv, AnswerInv
<1>2. pc'[c] = pc[c] \/ (pc[c] = "unborn" /\ pc'[c] = "open")
  BY ThreadsMove
<1>3. CASE pc'[c] \notin {"lock", "write", "unlock", "lseek", "read", "send"}
  BY <1>3 DEF AnswerFor
<1>4. ASSUME pc'[c] \in {"lock", "write", "unlock", "lseek", "read", "send"}
      PROVE  AnswerFor(c)'
  <2>1. pc'[c] = pc[c] /\ ~Idle(c)
    BY <1>2, <1>4 DEF Idle
  <2>2. \A d \in Conn : ~Worker(d)
    BY <2>1, OneServes, WorkerKeepsTable
  <2>3. pc[Main] \notin SetUpPlaces \cup {"create"}
    BY <2>1, OneServes
  <2>4. CASE Stamp
    <3>1. pc[Stamper] = "write" /\ UNCHANGED got
      BY <2>4, NoSocketInDatafd DEF Stamp, At, WriteData
    <3>2. pc[c] = "lock"
      BY <1>4, <2>1, <3>1 DEF TurnsInv, Answering
    <3> QED
      BY <1>1, <2>1, <3>1, <3>2 DEF AnswerFor
  <2>5. CASE ~Stamp
    <3>1. UNCHANGED <<fds, datafd>>
      <4>1. CASE \E d \in Conn : Accept(d)
        <5>1. \A d \in Conn : client[d] = "away" => Idle(d)
          BY DEF ServerInv, ThreadInv, ListInv, Idle
        <5>2. \A d \in Conn : Idle(d)
          BY <4>1, <5>1 DEF Accept, Sequential, Idle
        <5> QED
          BY <2>1, <5>2
      <4>2. CASE Bind \/ CreateStamper \/ Create \/ Insert \/ Scan \/ Join \/ RemoveJoined
                 \/ Signal \/ LockToStamp \/ Unlock(Stamper) \/ Wake \/ UNCHANGED vars
                 \/ (\E d \in Conn : ClientSends(d) \/ ClientCloses(d))
                 \/ \E t \in Conn \cup {Main} : Cleanup(t)
        BY <4>2 DEF Bind, CreateStamper, Create, Insert, Scan, Join, RemoveJoined, Signal,
           LockToStamp, Lock, Unlock, Wake, vars, ClientSends, ClientCloses,
           Cleanup, TestList, TakeFirst, RemoveHead, RemoveHeadCrashes, JoinThread, JoinFails,
           Exit, files
      <4>3. ~(Start \/ CreateSocket \/ ListenOn)
        BY <2>3 DEF Start, CreateSocket, ListenOn, At, SetUpPlaces
      <4> QED
        BY <2>2, <2>5, <4>1, <4>2, <4>3 DEF Next, Client, MainStep, SetUp, StamperStep, Rest
    <3>2. UNCHANGED <<got, buffer, data>>
      <4>1. CASE \E d \in Conn : Flow(d)
        <5>1. PICK d \in Conn : Flow(d)
          BY <4>1
        <5>2. ClientSends(d)
          BY <2>2, <5>1 DEF Flow, Worker, Serve, OnFile
        <5> QED
          BY <5>2 DEF ClientSends, files, locals
      <4>2. ~Stamped
        BY <2>5 DEF Stamped
      <4> QED
        BY <4>1, <4>2, StepsFlow DEF chunks
    <3> QED
      BY <1>1, <2>1, <3>1, <3>2 DEF AnswerFor
  <2> QED
    BY <2>4, <2>5
<1> QED
  BY <1>3, <1>4

\* Reading on in the file.
LEMMA OneMore ==
  ASSUME NEW s \in Seq(Chunk), NEW p \in 0 .. Len(s) - 1
  PROVE  Append(SubSeq(s, 1, p), s[p + 1]) = SubSeq(s, 1, p + 1)
<1> DEFINE a == SubSeq(s, 1, p)
           b == SubSeq(s, 1, p + 1)
<1>1. Len(s) \in Nat /\ \A i \in 1 .. Len(s) : s[i] \in Chunk
  BY LenProperties
<1>2. a \in Seq(Chunk) /\ Len(a) = p /\ \A i \in 1 .. p : a[i] = s[i]
  BY <1>1
<1>3. b \in Seq(Chunk) /\ Len(b) = p + 1 /\ \A i \in 1 .. p + 1 : b[i] = s[i]
  BY <1>1
<1>4. s[p + 1] \in Chunk
  BY <1>1
<1> HIDE DEF a, b
<1> DEFINE l == Append(a, s[p + 1])
<1>5. l \in Seq(Chunk) /\ Len(l) = p + 1 /\ \A i \in 1 .. p + 1 : l[i] = s[i]
  <2>1. l \in Seq(Chunk) /\ Len(l) = p + 1 /\ l[p + 1] = s[p + 1]
        /\ \A i \in 1 .. p : l[i] = a[i]
    BY <1>2, <1>4, AppendProperties
  <2> QED
    BY <1>2, <2>1
<1> HIDE DEF l
<1>6. l = b
  BY <1>3, <1>5, SeqEqual
<1> QED
  BY <1>6 DEF l, a, b

\* The steps of an answer.
LEMMA WorkerKeepsAnswer ==
  ASSUME Sequential, ~UseCharDevice, ServingInv, AnswerInv, NEW c \in Conn, Worker(c)
  PROVE  AnswerFor(c)'
<1> USE DEF ServingInv
<1>1. /\ ThreadTypes /\ AnswerFor(c) /\ c # Stamper
      /\ data \in Seq(Chunk) /\ Len(data) \in Nat /\ got \in [Conn -> Seq(Chunk)]
      /\ buffer \in [Conn -> Chunk \cup {Zeroed}] /\ fds \in [Fd -> Resource] /\ datafd \in Fd
  BY ThreadKinds DEF ServerInv, ThreadInv, AnswerInv, DataTypes, FileTypes, ConnTypes
<1>2. \A place : Goto(c, place) => pc'[c] = place
  BY <1>1, WorkerMoved
<1>3. pc[c] \in {"write", "lseek", "read"} =>
        fds[datafd].kind = "file" /\ fds[datafd].pos \in Nat
  <2>1. ~Idle(c)
    BY WorkerKeepsTable
  <2>2. fds[datafd].kind = "file" => fds[datafd].pos \in Nat
    BY <1>1, Resources
  <2> QED
    BY <2>1, <2>2, Serving DEF FilePlaces, SocketPlaces, WorkerPlaces
<1>4. ASSUME NEW place, Goto(c, place),
             place \notin {"lock", "write", "unlock", "lseek", "read", "send"}
      PROVE  AnswerFor(c)'
  BY <1>2, <1>4 DEF AnswerFor
<1>5. CASE \/ CallRecv(c) \/ RecvEnds(c) \/ CloseSocket(c) \/ WorkDone(c) \/ Open(c)
           \/ CloseData(c) \/ ReadEnds(c) \/ Fails(c)
  BY <1>4, <1>5
     DEF CallRecv, RecvEnds, CloseSocket, WorkDone, Open, CloseData, ReadEnds, Fails
<1>6. CASE Receive(c)
  <2>1. pc'[c] = "lock" /\ got'[c] = <<>>
    BY <1>1, <1>2, <1>6 DEF Receive
  <2> QED
    BY <2>1 DEF AnswerFor
<1>7. CASE Lock(c)
  <2>1. pc[c] = "lock" /\ pc'[c] = "write" /\ UNCHANGED got
    BY <1>2, <1>7 DEF Lock, At, clients
  <2> QED
    BY <1>1, <2>1 DEF AnswerFor
<1>8. CASE Write(c)
  <2>1. /\ pc[c] = "write" /\ pc'[c] = "unlock" /\ buffer[c] \in Chunk
        /\ data' = Append(data, buffer[c]) /\ UNCHANGED got
    BY <1>2, <1>3, <1>8 DEF Write, WriteData, Stored, At, ServerInv, LocalInv
  <2>2. data' # <<>>
    BY <1>1, <2>1
  <2> QED
    BY <1>1, <2>1, <2>2 DEF AnswerFor
<1>9. CASE Unlock(c)
  <2>1. pc[c] = "unlock" /\ pc'[c] \in {"recv", "lseek"} /\ UNCHANGED <<got, data>>
    BY <1>1, <1>2, <1>9 DEF Unlock, At, Answer, clients, files
  <2> QED
    BY <1>1, <2>1 DEF AnswerFor
<1>10. CASE Rewind(c)
  <2>1. /\ pc[c] = "lseek" /\ pc'[c] = "read" /\ UNCHANGED <<got, data, datafd>>
        /\ fds' = [fds EXCEPT ![datafd] = OpenFile(0)]
    BY <1>2, <1>3, <1>10 DEF Rewind, At, clients
  <2>2. fds'[datafd'].pos = 0
    BY <1>1, <2>1 DEF OpenFile
  <2>3. SubSeq(data, 1, 0) = <<>>
    BY <1>1
  <2> QED
    BY <1>1, <2>1, <2>2, <2>3 DEF AnswerFor
<1>11. CASE Read(c)
  <2> DEFINE p == fds[datafd].pos
  <2>1. /\ pc[c] = "read" /\ pc'[c] = "send" /\ UNCHANGED <<got, data, datafd>>
        /\ fds' = [fds EXCEPT ![datafd] = OpenFile(p + 1)] /\ p < Len(data)
        /\ buffer' = [buffer EXCEPT ![c] = data[p + 1]]
    BY <1>2, <1>3, <1>11 DEF Read, At
  <2>2. fds'[datafd'].pos = p + 1 /\ buffer'[c] = data[p + 1]
    BY <1>1, <2>1 DEF OpenFile
  <2>3. p \in 0 .. Len(data) - 1 /\ got[c] = SubSeq(data, 1, p) /\ data # <<>>
    BY <1>1, <1>3, <2>1 DEF AnswerFor
  <2> HIDE DEF p
  <2>4. Append(got[c], data[p + 1]) = SubSeq(data, 1, p + 1)
    BY <1>1, <2>3, OneMore
  <2>5. p + 1 \in 0 .. Len(data)
    BY <1>1, <2>3
  <2> QED
    BY <2>1, <2>2, <2>3, <2>4, <2>5 DEF AnswerFor
<1>12. CASE Send(c)
  <2>1. pc[c] = "send" /\ pc'[c] = "read" /\ UNCHANGED <<fds, data, datafd>>
    BY <1>2, <1>12 DEF Send, At, files
  <2>2. got' = [got EXCEPT ![c] = Append(got[c], buffer[c])]
    <3>1. ~Idle(c)
      BY WorkerKeepsTable
    <3>2. fds[client_sockfd[c]] = Socket(c)
      BY <2>1, <3>1, Serving DEF SocketPlaces, WorkerPlaces
    <3> QED
      BY <1>12, <3>2 DEF Send, Deliver, Socket
  <2>3. got'[c] = Append(got[c], buffer[c])
    BY <1>1, <2>2
  <2> QED
    BY <1>1, <2>1, <2>3 DEF AnswerFor
<1>13. ~OpenFails(c)
  BY DEF OpenFails, Sequential
<1> QED
  BY <1>5, <1>6, <1>7, <1>8, <1>9, <1>10, <1>11, <1>12, <1>13 DEF Worker, Serve, OnFile

LEMMA StepKeepsAnswer ==
  ASSUME Sequential, ~UseCharDevice, ServingInv, TurnsInv, AnswerInv, [Next]_vars
  PROVE  AnswerInv'
<1>1. CASE ~Restart
  BY <1>1, OthersKeepAnswer, WorkerKeepsAnswer DEF AnswerInv
<1>2. CASE Restart
  <2>1. \A c \in Conn : pc'[c] \in {"unborn", "gone"}
    BY <1>2, ThreadKinds DEF Restart
  <2> QED
    BY <2>1 DEF AnswerInv, AnswerFor
<1> QED
  BY <1>1, <1>2

\* The answer to a complete packet is the whole file, from its first byte on, and
\* with the packet in it (aesdsocket.c:203-218).
THEOREM AnswersAreComplete ==
  ASSUME Sequential, ~UseCharDevice, ~StampAnytime PROVE Spec => RepliesComplete
<1>1. Init => TurnsInv /\ AnswerInv
  BY ThreadKinds DEF Init, TurnsInv, AnswerInv, AnswerFor
<1>2. ServingInv /\ TurnsInv /\ AnswerInv /\ [Next]_vars => TurnsInv' /\ AnswerInv'
  BY StepKeepsTurns, StepKeepsAnswer
<1>3. ASSUME ServingInv, AnswerInv, [Next]_vars, NEW c \in Conn, pc[c] = "read", pc'[c] = "recv"
      PROVE  got[c] # <<>> /\ got[c] = data
  <2>1. ReadEnds(c)
    <3>1. ~Restart
      BY <1>3, ThreadKinds DEF Restart
    <3>2. Worker(c)
      BY <1>3, <3>1, ThreadsMove
    <3>3. \A place : Goto(c, place) => pc'[c] = place
      BY <1>3, WorkerMoved DEF ServingInv, ServerInv, ThreadInv
    <3> QED
      BY <1>3, <3>2, <3>3 DEF Worker, Serve, OnFile, OpenFails, CallRecv, Receive, RecvEnds, Send,
         CloseSocket, WorkDone, Open, Lock, Write, Fails, Unlock, Rewind, Read, CloseData, At
  <2>2. fds[datafd].pos >= Len(data)
    BY <1>3, <2>1, NoSocketInDatafd DEF ReadEnds, ServingInv
  <2>3. data \in Seq(Chunk) /\ Len(data) \in Nat
    BY <1>3 DEF ServingInv, ServerInv, DataTypes, FileTypes
  <2>4. /\ fds[datafd].pos \in 0 .. Len(data) /\ data # <<>>
        /\ got[c] = SubSeq(data, 1, fds[datafd].pos)
    BY <1>3 DEF AnswerInv, AnswerFor
  <2>5. fds[datafd].pos = Len(data)
    BY <2>2, <2>3, <2>4
  <2>6. SubSeq(data, 1, Len(data)) = data
    BY <2>3
  <2> QED
    BY <2>4, <2>5, <2>6
<1>4. ServingInv /\ AnswerInv /\ [Next]_vars =>
        [\A c \in Conn : pc[c] = "read" /\ pc'[c] = "recv" => got[c] # <<>> /\ got[c] = data]_vars
  BY <1>3
<1> QED
  BY <1>1, <1>2, <1>4, AlwaysServing, PTL DEF Spec, RepliesComplete
=============================================================================
