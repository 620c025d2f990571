---------------------------- MODULE DeviceProofs ----------------------------
(***************************************************************************)
(* The device build of the server over the driver, for any number of       *)
(* connections, chunks, slots, addresses and any size of read, with the    *)
(* calls of AesdSocket.tla failing as it lets them and another process     *)
(* writing to the device, as long as clients come one at a time: what the  *)
(* server does to the driver its users may do, all that clients have sent  *)
(* is in the device, and their answers are what the device holds.          *)
(***************************************************************************)
EXTENDS ServerOnDevice, AesdAnswerProofs

\* The driver as ServerOnDevice.tla has it, with what is proved of it.
Char == INSTANCE AesdCharProofs
            WITH Thread <- User, File <- User, ReadSize <- {BufferSize},
                 Payload <- {Bytes(chunk) : chunk \in ClientChunk} \cup {OutsideLine},
                 Seek <- {}, Interruptible <- {},
                 mutex <- dmutex, pc <- dpc

\* What the server assumes of the driver is what its proofs assume.
LEMMA SameAssumptions ==
  /\ Char!CapacityAssumption /\ Char!NullAssumption /\ Char!NoThreadAssumption
  /\ Char!PayloadAssumption /\ Char!CallAssumption /\ Char!NoRequestAssumption
<1>1. /\ Char!CapacityAssumption /\ Char!NullAssumption /\ Char!NoThreadAssumption
      /\ Char!CallAssumption /\ Char!NoRequestAssumption
  BY DriverAssumption
  DEF Char!CapacityAssumption, Char!NullAssumption, Char!NoThreadAssumption,
      Char!CallAssumption, Char!NoRequestAssumption,
      Driver!CapacityAssumption, Driver!NullAssumption, Driver!NoThreadAssumption,
      Driver!CallAssumption, Driver!NoRequestAssumption,
      Char!Found, Driver!Found, Char!Index, Driver!Index, Char!Request, Driver!Request
<1>2. Char!PayloadAssumption
  <2>1. ASSUME NEW x PROVE <<x>> \in Seq(Char!ToSet(<<x>>))
    BY DEF Char!ToSet
  <2>2. ASSUME NEW x, NEW y PROVE <<x, y>> \in Seq(Char!ToSet(<<x, y>>))
    BY DEF Char!ToSet
  <2> QED
    BY <2>1, <2>2 DEF Char!PayloadAssumption, Bytes, OutsideLine
<1> QED
  BY <1>1, <1>2

\* Driver and Char are one: their state, their steps, their specifications.
LEMMA SameStream ==
  /\ Driver!Commands = Char!Commands /\ Driver!Partial = Char!Partial
  /\ Driver!Commands' = Char!Commands' /\ Driver!Partial' = Char!Partial'
BY DEF Driver!Commands, Char!Commands, Driver!Partial, Char!Partial,
       Driver!LogOf, Char!LogOf, Driver!Filled, Char!Filled, Driver!Visited, Char!Visited,
       Driver!Text, Char!Text, Driver!PartialMemory, Char!PartialMemory,
       Driver!Writing, Char!Writing

LEMMA SameSteps ==
  ASSUME NEW u \in User
  PROVE  /\ Driver!Open(u) <=> Char!Open(u)
         /\ Driver!Release(u) <=> Char!Release(u)
         /\ Driver!Lock(u) <=> Char!Lock(u)
         /\ Driver!Unlock(u) <=> Char!Unlock(u)
         /\ Driver!Return(u) <=> Char!Return(u)
         /\ Driver!CopyOut(u) <=> Char!CopyOut(u)
         /\ Driver!Alloc(u) <=> Char!Alloc(u)
         /\ Driver!AllocFails(u) <=> Char!AllocFails(u)
         /\ Driver!CopyIn(u) <=> Char!CopyIn(u)
         /\ Driver!CachePartial(u) <=> Char!CachePartial(u)
         /\ Driver!AddCommand(u) <=> Char!AddCommand(u)
         /\ Driver!AdjustOffset(u) <=> Char!AdjustOffset(u)
         /\ Driver!AdjustRefused(u) <=> Char!AdjustRefused(u)
         /\ \A r : Driver!Call(u, r) <=> Char!Call(u, r)
<1>1. /\ Driver!Open(u) <=> Char!Open(u)
      /\ Driver!Release(u) <=> Char!Release(u)
      /\ Driver!Lock(u) <=> Char!Lock(u)
      /\ Driver!Unlock(u) <=> Char!Unlock(u)
      /\ Driver!Return(u) <=> Char!Return(u)
  BY DEF Driver!Open, Char!Open, Driver!Release, Char!Release, Driver!Lock, Char!Lock,
         Driver!Unlock, Char!Unlock, Driver!Return, Char!Return, Driver!NewFrame, Char!NewFrame,
         Driver!Goto, Char!Goto, Driver!FirstPlace, Char!FirstPlace
<1>2. Driver!CopyOut(u) <=> Char!CopyOut(u)
  BY DEF Driver!CopyOut, Char!CopyOut, Driver!At, Char!At, Driver!Goto, Char!Goto,
         Driver!Excerpt, Char!Excerpt, Driver!FindEntry, Char!FindEntry, Driver!Min, Char!Min,
         Driver!CumulativeLength, Char!CumulativeLength, Driver!RunningSum, Char!RunningSum,
         Driver!VisitedSizes, Char!VisitedSizes, Driver!Visited, Char!Visited,
         Driver!Index, Char!Index
<1>3. /\ Driver!Alloc(u) <=> Char!Alloc(u)
      /\ Driver!AllocFails(u) <=> Char!AllocFails(u)
      /\ Driver!CopyIn(u) <=> Char!CopyIn(u)
  BY DEF Driver!Alloc, Char!Alloc, Driver!AllocFails, Char!AllocFails, Driver!CopyIn, Char!CopyIn,
         Driver!At, Char!At, Driver!Goto, Char!Goto, Driver!ExitWith, Char!ExitWith,
         Driver!ENOMEM, Char!ENOMEM
<1>4. /\ Driver!CachePartial(u) <=> Char!CachePartial(u)
      /\ Driver!AddCommand(u) <=> Char!AddCommand(u)
  BY DEF Driver!CachePartial, Char!CachePartial, Driver!AddCommand, Char!AddCommand,
         Driver!At, Char!At, Driver!Goto, Char!Goto, Driver!NewEntry, Char!NewEntry,
         Driver!Contains, Char!Contains, Driver!Free, Char!Free, Driver!Restrict, Char!Restrict,
         Driver!ReplacedBuffer, Char!ReplacedBuffer, Driver!EmptyEntry, Char!EmptyEntry,
         Driver!AddEntry, Char!AddEntry, Driver!NextOffs, Char!NextOffs
<1>5. /\ Driver!AdjustOffset(u) <=> Char!AdjustOffset(u)
      /\ Driver!AdjustRefused(u) <=> Char!AdjustRefused(u)
  BY DEF Driver!AdjustOffset, Char!AdjustOffset, Driver!AdjustRefused, Char!AdjustRefused,
         Driver!At, Char!At, Driver!Goto, Char!Goto, Driver!ExitWith, Char!ExitWith,
         Driver!EINVAL, Char!EINVAL, Driver!SeekToValid, Char!SeekToValid,
         Driver!SeekToOffset, Char!SeekToOffset, Driver!RunningSum, Char!RunningSum,
         Driver!SlotSizes, Char!SlotSizes, Driver!Index, Char!Index
<1>6. \A r : Driver!Call(u, r) <=> Char!Call(u, r)
  BY DEF Driver!Call, Char!Call, Driver!Goto, Char!Goto, Driver!NewFrame, Char!NewFrame,
         Driver!InFlight, Char!InFlight, Driver!MapThenSumSet, Char!MapThenSumSet,
         Driver!MapThenFoldSet, Char!MapThenFoldSet
<1> QED
  BY <1>1, <1>2, <1>3, <1>4, <1>5, <1>6

\* The operators on sequences are the same ones.
LEMMA SameText ==
  /\ \A s : Char!FlattenSeq(s) = FlattenSeq(s)
  /\ \A s, x : Char!Contains(s, x) <=> Contains(s, x)
  /\ Char!Stored = Stream /\ Char!Stored' = Stream'
  /\ Char!Held = Stream \o Driver!Partial /\ Char!Held' = Stream' \o Driver!Partial'
<1>1. \A s : Char!FlattenSeq(s) = FlattenSeq(s)
  BY DEF Char!FlattenSeq, FlattenSeq
<1>2. \A s, x : Char!Contains(s, x) <=> Contains(s, x)
  BY DEF Char!Contains, Contains
<1>3. Char!Stored = Stream /\ Char!Stored' = Stream'
  BY <1>1, SameStream DEF Char!Stored, Stream
<1> QED
  BY <1>1, <1>2, <1>3, SameStream DEF Char!Held

\* The rest of the driver, which the server does not use.
LEMMA SameOthers ==
  /\ Driver!Load <=> Char!Load
  /\ Driver!Init <=> Char!Init
  /\ Driver!vars = Char!vars /\ Driver!vars' = Char!vars'
  /\ Driver!Request = Char!Request
  /\ \A u \in User :
       /\ Driver!Interrupted(u) <=> Char!Interrupted(u)
       /\ Driver!CopyOutFails(u) <=> Char!CopyOutFails(u)
       /\ Driver!WriteNothing(u) <=> Char!WriteNothing(u)
       /\ Driver!EntriesSize(u) <=> Char!EntriesSize(u)
       /\ Driver!FixedSizeLlseek(u) <=> Char!FixedSizeLlseek(u)
  /\ Driver!Unload <=> Char!Unload
<1>1. /\ Driver!Load <=> Char!Load
      /\ Driver!Init <=> Char!Init
  BY DEF Driver!Load, Char!Load, Driver!Init, Char!Init, Driver!EmptyDevice, Char!EmptyDevice,
         Driver!EmptyBuffer, Char!EmptyBuffer, Driver!EmptyEntry, Char!EmptyEntry, Driver!Index, Char!Index,
         Driver!NewFrame, Char!NewFrame
<1>2. Driver!vars = Char!vars /\ Driver!vars' = Char!vars' /\ Driver!Request = Char!Request
  BY DEF Driver!vars, Char!vars, Driver!Request, Char!Request
<1>3. ASSUME NEW u \in User
      PROVE  /\ Driver!Interrupted(u) <=> Char!Interrupted(u)
             /\ Driver!CopyOutFails(u) <=> Char!CopyOutFails(u)
             /\ Driver!WriteNothing(u) <=> Char!WriteNothing(u)
             /\ Driver!EntriesSize(u) <=> Char!EntriesSize(u)
             /\ Driver!FixedSizeLlseek(u) <=> Char!FixedSizeLlseek(u)
  <2>1. /\ Driver!Interrupted(u) <=> Char!Interrupted(u)
        /\ Driver!WriteNothing(u) <=> Char!WriteNothing(u)
        /\ Driver!FixedSizeLlseek(u) <=> Char!FixedSizeLlseek(u)
    BY DEF Driver!Interrupted, Char!Interrupted, Driver!WriteNothing, Char!WriteNothing,
           Driver!FixedSizeLlseek, Char!FixedSizeLlseek, Driver!At, Char!At, Driver!Goto, Char!Goto,
           Driver!ExitWith, Char!ExitWith, Driver!ERESTARTSYS, Char!ERESTARTSYS, Driver!EINVAL, Char!EINVAL
  <2>2. /\ Driver!CopyOutFails(u) <=> Char!CopyOutFails(u)
        /\ Driver!EntriesSize(u) <=> Char!EntriesSize(u)
    BY DEF Driver!CopyOutFails, Char!CopyOutFails, Driver!EntriesSize, Char!EntriesSize,
           Driver!At, Char!At, Driver!Goto, Char!Goto, Driver!ExitWith, Char!ExitWith, Driver!EFAULT, Char!EFAULT,
           Driver!FindEntry, Char!FindEntry, Driver!Min, Char!Min,
           Driver!CumulativeLength, Char!CumulativeLength, Driver!RunningSum, Char!RunningSum,
           Driver!VisitedSizes, Char!VisitedSizes, Driver!Visited, Char!Visited,
           Driver!Index, Char!Index, Driver!TotalSize, Char!TotalSize, Driver!SlotSizes, Char!SlotSizes
  <2> QED
    BY <2>1, <2>2
<1>4. Driver!Unload <=> Char!Unload
  BY DEF Driver!Unload, Char!Unload, Driver!Free, Char!Free, Driver!Restrict, Char!Restrict,
         Driver!SlotMemory, Char!SlotMemory, Driver!Index, Char!Index
<1> QED
  BY <1>1, <1>2, <1>3, <1>4

\* So what is proved of Char!Spec is proved of Driver!Spec.
LEMMA SameDriver == Driver!Spec <=> Char!Spec
<1>1. Driver!Next <=> Char!Next
  <2>1. (\E f \in User : Driver!Open(f) \/ Driver!Release(f))
          <=> (\E f \in User : Char!Open(f) \/ Char!Release(f))
    BY SameSteps
  <2>2. ASSUME NEW u \in User
        PROVE  (\E r \in Driver!Request : Driver!Call(u, r)) <=> (\E r \in Char!Request : Char!Call(u, r))
    BY SameSteps, SameOthers
  <2>3. ASSUME NEW u \in User
        PROVE  Driver!Proceed(u) <=> Char!Proceed(u)
    BY SameSteps, SameOthers DEF Driver!Proceed, Driver!Body, Char!Proceed, Char!Body
  <2> QED
    BY <2>1, <2>2, <2>3, SameSteps, SameOthers DEF Driver!Next, Char!Next
<1>2. [Driver!Next]_(Driver!vars) <=> [Char!Next]_(Char!vars)
  BY <1>1, SameOthers
<1>3. Driver!Init <=> Char!Init
  BY SameOthers
<1> QED
  BY <1>2, <1>3, PTL DEF Driver!Spec, Char!Spec

----------------------------------------------------------------------------
(* The invariant of the server on the device.                              *)

\* Clients come one at a time, and the server is built for the device.
OneAtATime == ~Overlap /\ UseCharDevice

\* Where a thread has the device open, and where it may be at all.
ServedPlaces == {"recv", "receiving", "write", "ioctl", "read", "send", "close_data"}
                  \cup CleanupPlaces
DevicePlaces == ServedPlaces \cup {"unborn", "open", "close_socket", "done", "exited"}

Arrived(c)   == client[c] # "away"
Connected(c) == Arrived(c) /\ pc[c] \notin {"done", "exited"}
HasDevice(c) == pc[c] \in ServedPlaces

\* One connection at a time is open.
OneInv ==
  /\ \A c \in Conn : pc[c] \in DevicePlaces
  /\ pc[Main] \in MainPlaces \ {"create"} => \A c \in Conn : Arrived(c) => pc[c] # "unborn"
  /\ pc[Main] \in SetUpPlaces => \A c \in Conn : ~Arrived(c)
  /\ \A c, d \in Conn :
       Arrived(c) /\ Arrived(d) /\ pc[c] # "exited" /\ pc[d] # "exited" => c = d
  /\ pc[Main] \in MainPlaces \ {"start"} \/ (\E c \in Conn : Arrived(c)) => loaded

\* The set-up has not failed.
IsUp ==
  \/ pc[Main] \in MainPlaces /\ (pc[Main] = "listen" => proc = "running")
  \/ \E c \in Conn : Arrived(c)

\* What the descriptors stand for.
DeviceTable ==
  IsUp =>
    /\ \A n \in Fd : n < Below => fds[n] = Tty
    /\ HasListen => sockfd = ListenFd /\ fds[ListenFd] = Listen
    /\ \A c \in Conn : Connected(c) => client_sockfd[c] = ClientFd /\ fds[ClientFd] = Socket(c)
    /\ \A c \in Conn : HasDevice(c) => datafd = FileFd /\ fds[FileFd] = Device(c)
    /\ \A n \in Fd :
         /\ n >= Below /\ ~(HasListen /\ n = ListenFd)
         /\ n = ClientFd => \A c \in Conn : ~Connected(c)
         /\ n = FileFd => \A c \in Conn : ~HasDevice(c)
         => fds[n] = Closed

\* What a read of the device leaves in a buffer.
Answers == [kind : {"excerpt"}, bytes : Seq(Char!Byte)]

\* Types.
DeviceTypes ==
  /\ fds = [n \in Fd |-> fds[n]]
  /\ client_sockfd = [c \in Conn |-> client_sockfd[c]]
  /\ on = [c \in Conn |-> on[c]] /\ buffer = [c \in Conn |-> buffer[c]]
  /\ sent \in [Conn -> 0 .. MaxChunks] /\ outbox \in [Conn -> Seq(ClientChunk)]
  /\ got \in [Conn -> Seq(Answers)]
  /\ dropped \in [Conn -> BOOLEAN] /\ asked \in [Conn -> SeekTo \cup {NoRequest}]
  /\ written \in [Conn -> Nat]

\* A thread in the driver is in the system call it has made.
CallFor(c) ==
  /\ dpc[c] # "user" =>
       \/ /\ pc[c] = "write" /\ asked[c] = NoRequest
          /\ req[c] = [op |-> "write", file |-> c, buf |-> Bytes(buffer[c])]
       \/ /\ pc[c] = "read"
          /\ req[c] = [op |-> "read", file |-> c, count |-> BufferSize]
       \/ /\ pc[c] = "ioctl" /\ asked[c] \in SeekTo
          /\ req[c] = [op |-> "ioctl", file |-> c, seekto |-> asked[c]]

\* And so is the other process; a write that stores has copied all its bytes.
DriverCalls ==
  /\ dpc[Outsider] # "user" =>
       req[Outsider] = [op |-> "write", file |-> Outsider, buf |-> OutsideLine]
  /\ \A u \in User : dpc[u] = "store" => frame[u].retval = Len(req[u].buf)

\* What a thread has in hand.
ChunkFor(c) ==
  /\ \A i \in 1 .. Len(outbox[c]) : outbox[c][i].from = c /\ outbox[c][i].n = Received(c) + i
  /\ ~Arrived(c) => sent[c] = 0 /\ outbox[c] = <<>>
  /\ pc[c] = "receiving" => on[c] = Socket(c)
  /\ pc[c] \in {"write", "ioctl"} =>
       /\ buffer[c] \in ClientChunk /\ buffer[c].from = c /\ buffer[c].n = Received(c)
       /\ got[c] = <<>>
  /\ pc[c] = "send" => buffer[c] \in Answers
  /\ pc[c] \in {"unborn", "open"} => Received(c) = 0 /\ written[c] = 0

\* The inductive invariant, but for what the device holds.
ServerSide ==
  /\ ThreadInv /\ OneInv /\ DeviceTable /\ DeviceTypes /\ DriverCalls
  /\ \A c \in Conn : CallFor(c) /\ ChunkFor(c)

----------------------------------------------------------------------------
(* The steps of the server's threads.                                      *)

\* The connections and the other process are the users of the device.
LEMMA DeviceUsers ==
  /\ Conn \subseteq User /\ Outsider \in User /\ Outsider \notin Conn
  /\ \A u \in User : u \in Conn \/ u = Outsider
  /\ \A c \in Conn : c \in Thread /\ c # Main /\ c # Stamper
  /\ \A c \in Conn : PlacesOf(c) = WorkerPlaces \cup CleanupPlaces
BY ByteAssumption, ThreadKinds DEF User

\* Outside the calls of the driver a thread is not in it.
LEMMA OutOfDriver ==
  ASSUME NEW c \in Conn, CallFor(c), pc[c] \notin {"write", "read", "ioctl"}
  PROVE  dpc[c] = "user"
BY DEF CallFor

\* What the steps of handle_connection leave alone, and where they go.
LEMMA ServeGoes ==
  ASSUME UseCharDevice, NEW c \in Conn, Serve(c)
  PROVE  /\ proc = "running" /\ UNCHANGED <<threads, client, sent, sockfd, datafd>>
         /\ \/ OpenFails(c) /\ pc[c] = "open" /\ UNCHANGED <<pc, fds, locals, clients>>
            \/ /\ pc[c] \in {"recv", "receiving", "send", "close_socket", "done"}
               /\ \E place \in {"receiving", "write", "ioctl", "close_data", "read", "done", "exited"} :
                    Goto(c, place)
BY DEF Serve, OpenFails, CallRecv, Receive, RecvEnds, Send, CloseSocket, WorkDone, At, Goto,
       files, clients, locals

\* What the calls on the device leave alone, and where they go.
LEMMA OnDeviceGoes ==
  ASSUME UseCharDevice, NEW c \in Conn, CallFor(c), OnDevice(c)
  PROVE  /\ proc = "running" /\ UNCHANGED <<threads, clients, sockfd>>
         /\ \/ EnterDriver(c) /\ UNCHANGED vars
            \/ OpenDevice(c) /\ pc[c] = "open" /\ \E place \in {"recv", "cleanup"} : Goto(c, place)
            \/ CloseDevice(c) /\ pc[c] = "close_data" /\ Goto(c, "close_socket")
            \/ /\ LeaveDriver(c) /\ dpc[c] = "return" /\ pc[c] \in {"write", "read", "ioctl"}
               /\ UNCHANGED <<fds, datafd, client_sockfd, on>>
               /\ \E place \in {"cleanup", "recv", "read", "send"} : Goto(c, place)
<1>1. CASE EnterDriver(c)
  BY <1>1 DEF EnterDriver, vars, At, clients, files
<1>2. CASE OpenDevice(c)
  BY <1>2 DEF OpenDevice, At, clients
<1>3. CASE CloseDevice(c)
  BY <1>3 DEF CloseDevice, At, clients
<1>4. CASE LeaveDriver(c)
  <2>1. dpc[c] = "return"
    BY <1>4, SameSteps, DeviceUsers DEF LeaveDriver, Char!Return
  <2>2. pc[c] \in {"write", "read", "ioctl"}
    BY <2>1 DEF CallFor
  <2> QED
    BY <1>4, <2>1, <2>2 DEF LeaveDriver, Answer, clients, files
<1> QED
  BY <1>1, <1>2, <1>3, <1>4 DEF OnDevice
\* Steps of the driver, of the other process and of no one leave the server alone.
LEMMA StepKinds ==
  ASSUME [NextOnDevice]_allvars
  PROVE  \/ ServerStep
         \/ \E c \in Conn : OnDevice(c)
         \/ UNCHANGED vars
BY DEF NextOnDevice, DriverStep, OutsiderStep, allvars

\* Threads, locks and lists are as without the device.
LEMMA DeviceKeepsThreads ==
  ASSUME OneAtATime, ServerSide, [NextOnDevice]_allvars
  PROVE  ThreadInv'
<1>1. CASE UNCHANGED vars
  <2>1. Plain
    BY <1>1, OthersArePlain DEF ServerSide, ThreadInv
  <2> QED
    BY <2>1, PlainKeepsThreads DEF ServerSide
<1>2. CASE ServerStep
  <2>1. Next
    BY <1>2 DEF ServerStep, Next, Worker
  <2> QED
    BY <2>1, StepKeepsThreads DEF ServerSide
<1>3. ASSUME NEW c \in Conn, OnDevice(c) PROVE ThreadInv'
  <2>1. ThreadTypes /\ CallFor(c)
    BY DEF ServerSide, ThreadInv
  <2>2. /\ UNCHANGED <<threads, client>>
        /\ \/ UNCHANGED vars
           \/ /\ pc[c] \in {"open", "close_data", "write", "read", "ioctl"}
              /\ \E place \in {"recv", "cleanup", "close_socket", "read", "send"} : Goto(c, place)
    BY <1>3, <2>1, OnDeviceGoes DEF OneAtATime, clients
  <2>3. CASE UNCHANGED vars
    BY <1>1, <2>3
  <2>4. ASSUME NEW place \in {"recv", "cleanup", "close_socket", "read", "send"}, Goto(c, place),
               pc[c] \in {"open", "close_data", "write", "read", "ioctl"}
        PROVE  ThreadInv'
    <3>1. /\ place \in PlacesOf(c) /\ c \in Thread /\ c # Main /\ pc' = [pc EXCEPT ![c] = place]
      BY <2>4, DeviceUsers DEF WorkerPlaces, CleanupPlaces, Goto
    <3>2. pc[c] \notin CleanupPlaces /\ place \notin Within
      BY <2>4 DEF CleanupPlaces, Within
    <3>3. Plain
      BY <2>1, <2>2, <2>4, <3>1, <3>2, MoveIsPlain
    <3> QED
      BY <3>3, PlainKeepsThreads DEF ServerSide
  <2> QED
    BY <2>2, <2>3, <2>4
<1> QED
  BY <1>1, <1>2, <1>3, StepKinds
\* The module stays loaded.
LEMMA LoadedStays ==
  ASSUME [NextOnDevice]_allvars
  PROVE  loaded => loaded'
<1>1. ASSUME NEW u \in User, InDriver(u) \/ Driver!AddCommand(u) PROVE loaded' = loaded
  BY <1>1 DEF InDriver, Driver!Lock, Driver!CopyOut, Driver!Alloc, Driver!AllocFails, Driver!CopyIn,
     Driver!CachePartial, Driver!AdjustOffset, Driver!AdjustRefused, Driver!Unlock, Driver!AddCommand
<1>2. ASSUME NEW c \in Conn, OnDevice(c) PROVE loaded' = loaded
  <2>1. \A f \in User : (Driver!Open(f) => loaded' = loaded)
    BY DEF Driver!Open
  <2>2. \A f : (Driver!Release(f) => loaded' = loaded)
    BY DEF Driver!Release
  <2>3. Driver!Return(c) => loaded' = loaded
    BY DEF Driver!Return
  <2>4. \A r : Driver!Call(c, r) => loaded' = loaded
    BY DEF Driver!Call
  <2> QED
    BY <1>2, <2>1, <2>2, <2>3, <2>4, DeviceUsers
       DEF OnDevice, OpenDevice, EnterDriver, LeaveDriver, CloseDevice
<1>3. OutsiderStep => loaded' = loaded
  BY DEF OutsiderStep, Driver!Open, Driver!Release, Driver!Return, Driver!Call
<1>4. Driver!Load => loaded'
  BY DEF Driver!Load
<1> QED
  BY <1>1, <1>2, <1>3, <1>4 DEF NextOnDevice, ServerStep, DriverStep, allvars, device

\* One open connection moves on.
LEMMA MoveKeepsOne ==
  ASSUME ThreadInv, OneInv, loaded => loaded', UNCHANGED <<client, new_thread>>,
         NEW c \in Conn, NEW place \in DevicePlaces \ {"unborn"}, Goto(c, place),
         pc[c] \notin {"unborn", "exited"}
  PROVE  /\ OneInv' /\ pc'[c] = place /\ \A d \in Conn \ {c} : pc'[d] = pc[d]
         /\ pc'[Main] = pc[Main]
<1>1. /\ \A t \in Thread : pc'[t] = IF t = c THEN place ELSE pc[t]
      /\ c # Main /\ Main \in Thread /\ Conn \subseteq Thread
  BY ThreadKinds DEF ThreadInv, ThreadTypes, Goto
<1>2. pc'[Main] = pc[Main] /\ pc'[c] = place /\ \A d \in Conn : d # c => pc'[d] = pc[d]
  BY <1>1
<1>3. \A d \in Conn : Arrived(d)' <=> Arrived(d)
  BY DEF Arrived
<1> QED
  BY <1>2, <1>3 DEF OneInv, MainPlaces, SetUpPlaces

\* main moves on, the connections do not.
LEMMA MainKeepsOne ==
  ASSUME OneInv, loaded => loaded', \A c \in Conn : pc'[c] = pc[c],
         \A c \in Conn : Arrived(c)' <=> Arrived(c),
         \/ pc'[Main] = pc[Main]
         \/ pc'[Main] \notin MainPlaces
         \/ /\ pc[Main] \in MainPlaces \ {"create"} /\ pc'[Main] # "create"
            /\ pc'[Main] \in SetUpPlaces => pc[Main] \in SetUpPlaces
            /\ loaded
         \/ UNCHANGED pc
  PROVE  OneInv'
<1>1. SetUpPlaces \subseteq MainPlaces
  BY DEF MainPlaces
<1> QED
  BY <1>1 DEF OneInv

\* The table stands as long as no descriptor turns.
LEMMA TableStands ==
  ASSUME DeviceTable, UNCHANGED <<fds, sockfd>>,
         \A c \in Conn : /\ Connected(c)' <=> Connected(c)
                         /\ Connected(c) => client_sockfd'[c] = client_sockfd[c]
                         /\ HasDevice(c)' <=> HasDevice(c)
                         /\ HasDevice(c) => datafd' = datafd,
         IsUp' => IsUp /\ (HasListen' <=> HasListen) /\ Below' = Below
  PROVE  DeviceTable'
<1> SUFFICES ASSUME IsUp' PROVE DeviceTable'
  BY DEF DeviceTable
<1>1. IsUp /\ (HasListen' <=> HasListen) /\ Below' = Below
  OBVIOUS
<1>2. ListenFd' = ListenFd /\ ClientFd' = ClientFd /\ FileFd' = FileFd
  BY DEF ListenFd, ClientFd, FileFd
<1> QED
  BY <1>1, <1>2 DEF DeviceTable, Socket, Device, Tty, Listen, Closed

\* Who has a connection in hand, and what the descriptors are then.
LEMMA Standing ==
  ASSUME ThreadInv, OneInv, DeviceTable, NEW c \in Conn, pc[c] \notin {"unborn", "exited"}
  PROVE  /\ Arrived(c) /\ IsUp /\ HasListen /\ Below = ListenFd
         /\ pc[Main] \notin SetUpPlaces \cup {"start"} /\ loaded
         /\ ListenFd \in {0, 3} /\ ClientFd = ListenFd + 1 /\ FileFd = ListenFd + 2
         /\ ListenFd \in Fd /\ ClientFd \in Fd /\ FileFd \in Fd
         /\ \A d \in Conn \ {c} : ~Connected(d) /\ ~HasDevice(d)
         /\ sockfd = ListenFd /\ fds[ListenFd] = Listen
         /\ \A n \in Fd : n < ListenFd => fds[n] = Tty
         /\ pc[c] # "done" => client_sockfd[c] = ClientFd /\ fds[ClientFd] = Socket(c)
         /\ HasDevice(c) => datafd = FileFd /\ fds[FileFd] = Device(c)
         /\ ~HasDevice(c) => fds[FileFd] = Closed
         /\ \A n \in Fd : n > FileFd => fds[n] = Closed
         /\ pc[c] = "done" => fds[ClientFd] = Closed
<1>1. Arrived(c) /\ \A d \in Conn : ~Arrived(d) => pc[d] = "unborn"
  BY DEF ThreadInv, ListInv, Arrived
<1>2. pc[Main] \notin SetUpPlaces /\ IsUp /\ loaded
  BY <1>1 DEF OneInv, IsUp
<1>3. HasListen /\ Below = ListenFd
  BY <1>2 DEF HasListen, Below, SetUpPlaces
<1>4. /\ ListenFd \in {0, 3} /\ ClientFd = ListenFd + 1 /\ FileFd = ListenFd + 2
      /\ ListenFd \in Fd /\ ClientFd \in Fd /\ FileFd \in Fd /\ Fd \subseteq Nat
  BY Descriptors, Table DEF ClientFd, FileFd
<1>5. \A d \in Conn \ {c} : ~Arrived(d) \/ pc[d] = "exited"
  BY <1>1 DEF OneInv
<1>6. \A d \in Conn \ {c} : ~Connected(d) /\ ~HasDevice(d)
  BY <1>1, <1>5 DEF Connected, HasDevice, ServedPlaces, CleanupPlaces
<1>7. /\ Connected(c) <=> pc[c] # "done"
      /\ HasDevice(c) => Connected(c)
  BY <1>1 DEF Connected, HasDevice, ServedPlaces, CleanupPlaces
<1> HIDE DEF ListenFd, ClientFd, FileFd
<1>8. /\ \A n \in Fd : n < ListenFd => fds[n] = Tty
      /\ sockfd = ListenFd /\ fds[ListenFd] = Listen
      /\ pc[c] # "done" => client_sockfd[c] = ClientFd /\ fds[ClientFd] = Socket(c)
      /\ HasDevice(c) => datafd = FileFd /\ fds[FileFd] = Device(c)
  BY <1>2, <1>3, <1>7 DEF DeviceTable
<1>9. \A n \in Fd : /\ n >= ListenFd /\ n # ListenFd
                    /\ n = ClientFd => \A d \in Conn : ~Connected(d)
                    /\ n = FileFd => \A d \in Conn : ~HasDevice(d)
                    => fds[n] = Closed
  BY <1>2, <1>3 DEF DeviceTable
<1>10. ~HasDevice(c) => fds[FileFd] = Closed
  <2>1. FileFd >= ListenFd /\ FileFd # ListenFd /\ FileFd # ClientFd
    BY <1>4
  <2> QED
    BY <1>4, <1>6, <1>9, <2>1
<1>11. ASSUME NEW n \in Fd, n > FileFd PROVE fds[n] = Closed
  <2>1. n >= ListenFd /\ n # ListenFd /\ n # ClientFd /\ n # FileFd
    BY <1>4, <1>11
  <2> QED
    BY <1>9, <2>1
<1>12. pc[c] = "done" => fds[ClientFd] = Closed
  <2>1. ClientFd >= ListenFd /\ ClientFd # ListenFd /\ FileFd # ClientFd
    BY <1>4
  <2> QED
    BY <1>4, <1>6, <1>7, <1>9, <2>1
<1> QED
  BY <1>1, <1>2, <1>3, <1>4, <1>6, <1>8, <1>10, <1>11, <1>12 DEF SetUpPlaces
\* The table with one connection in it.
LEMMA TableAfter ==
  ASSUME NEW c \in Conn, \A d \in Conn \ {c} : ~Connected(d)' /\ ~HasDevice(d)',
         pc'[Main] \notin {"start", "socket"}, sockfd' = ListenFd,
         Connected(c)' => client_sockfd'[c] = ClientFd,
         HasDevice(c)' => datafd' = FileFd,
         \A n \in Fd : fds'[n] = IF n < ListenFd THEN Tty ELSE IF n = ListenFd THEN Listen
                                 ELSE IF n = ClientFd /\ Connected(c)' THEN Socket(c)
                                 ELSE IF n = FileFd /\ HasDevice(c)' THEN Device(c) ELSE Closed
  PROVE  DeviceTable'
<1>1. /\ HasListen' /\ Below' = ListenFd
      /\ ListenFd' = ListenFd /\ ClientFd' = ClientFd /\ FileFd' = FileFd
  BY DEF HasListen, Below, ListenFd, ClientFd, FileFd
<1>2. /\ ListenFd \in {0, 3} /\ ClientFd = ListenFd + 1 /\ FileFd = ListenFd + 2
      /\ ListenFd \in Fd /\ ClientFd \in Fd /\ FileFd \in Fd /\ Fd \subseteq Nat
  BY Descriptors, Table DEF ClientFd, FileFd
<1>3. /\ ~(ClientFd < ListenFd) /\ ~(FileFd < ListenFd) /\ ~(ListenFd < ListenFd)
      /\ ClientFd # ListenFd /\ FileFd # ListenFd /\ FileFd # ClientFd
      /\ \A n \in Fd : n >= ListenFd <=> ~(n < ListenFd)
  BY <1>2
<1> HIDE DEF ListenFd, ClientFd, FileFd
<1>4. \A n \in Fd : n < ListenFd => fds'[n] = Tty
  OBVIOUS
<1>5. fds'[ListenFd] = Listen
  BY <1>2, <1>3
<1>6. Connected(c)' => fds'[ClientFd] = Socket(c)
  BY <1>2, <1>3
<1>7. HasDevice(c)' => fds'[FileFd] = Device(c)
  BY <1>2, <1>3
<1>8. ASSUME NEW n \in Fd, n >= ListenFd, n # ListenFd,
             n = ClientFd => \A d \in Conn : ~Connected(d)',
             n = FileFd => \A d \in Conn : ~HasDevice(d)'
      PROVE  fds'[n] = Closed
  BY <1>3, <1>8
<1> QED
  BY <1>1, <1>4, <1>5, <1>6, <1>7, <1>8 DEF DeviceTable, Socket, Device, Tty, Listen, Closed

\* handle_connection keeps one connection open, and the table.
LEMMA ServeKeepsTable ==
  ASSUME OneAtATime, ServerSide, loaded => loaded', NEW c \in Conn, Serve(c)
  PROVE  OneInv' /\ DeviceTable'
<1> USE DEF ServedPlaces, DevicePlaces, CleanupPlaces
<1>1. ThreadInv /\ OneInv /\ DeviceTable /\ DeviceTypes /\ ThreadTypes
  BY DEF ServerSide, ThreadInv
<1>2. proc = "running" /\ UNCHANGED <<client, sockfd, datafd, new_thread>>
  BY ServeGoes DEF OneAtATime, threads
<1>3. CASE OpenFails(c)
  <2>1. UNCHANGED <<pc, fds, client_sockfd>>
    BY <1>3, ServeGoes DEF OneAtATime, OpenFails, files, locals
  <2>2. OneInv'
    BY <1>1, <1>2, <2>1, MainKeepsOne DEF Arrived
  <2>3. IsUp' => IsUp
    BY <1>2, <2>1 DEF IsUp, Arrived
  <2>4. DeviceTable'
    BY <1>1, <1>2, <2>1, <2>3, TableStands DEF Connected, HasDevice, Arrived, HasListen, Below
  <2> QED
    BY <2>2, <2>4
<1>4. ASSUME NEW place \in {"receiving", "write", "ioctl", "close_data", "read", "done", "exited"},
             Goto(c, place), pc[c] \in {"recv", "receiving", "send", "close_socket", "done"}
      PROVE  OneInv' /\ DeviceTable'
  <2>1. /\ OneInv' /\ pc'[c] = place /\ \A d \in Conn \ {c} : pc'[d] = pc[d]
        /\ pc'[Main] = pc[Main]
    BY <1>1, <1>2, <1>4, MoveKeepsOne
  <2>2. /\ Arrived(c) /\ IsUp /\ \A d \in Conn : Arrived(d)' <=> Arrived(d)
        /\ (HasListen' <=> HasListen) /\ Below' = Below
    BY <1>1, <1>2, <1>4, <2>1, Standing DEF Arrived, HasListen, Below
  <2>3. CASE ~CloseSocket(c)
    <3>1. /\ UNCHANGED fds /\ \A d \in Conn : d # c => client_sockfd'[d] = client_sockfd[d]
          /\ WorkDone(c) \/ client_sockfd' = client_sockfd
      BY <1>1, <2>3 DEF Serve, OpenFails, CallRecv, Receive, RecvEnds, Send, WorkDone, files,
                        locals, DeviceTypes
    <3>2. /\ WorkDone(c) => pc[c] = "done" /\ place = "exited"
          /\ pc[c] = "done" <=> place \in {"done", "exited"}
          /\ pc[c] \in {"recv", "receiving", "send"} <=> place \notin {"done", "exited"}
      <4>1. /\ \A u : pc' = [pc EXCEPT ![c] = u] => u = place
        BY <1>1, <1>4, DeviceUsers DEF Goto, ThreadTypes
      <4> QED
        BY <2>3, <1>4, <4>1 DEF OneAtATime, Serve, OpenFails, CallRecv, Receive, RecvEnds, Send,
             WorkDone, At, Goto
    <3>3. \A d \in Conn : /\ Connected(d)' <=> Connected(d)
                          /\ HasDevice(d)' <=> HasDevice(d)
                          /\ Connected(d) => client_sockfd'[d] = client_sockfd[d]
      BY <1>4, <2>1, <2>2, <3>1, <3>2 DEF Connected, HasDevice
    <3>4. \A d \in Conn : HasDevice(d) => datafd' = datafd
      BY <1>2
    <3>5. UNCHANGED <<fds, sockfd>> /\ (IsUp' => IsUp /\ (HasListen' <=> HasListen) /\ Below' = Below)
      BY <1>2, <2>2, <3>1
    <3>6. DeviceTable'
      BY <1>1, <3>3, <3>4, <3>5, TableStands
    <3> QED
      BY <2>1, <3>6
  <2>4. CASE CloseSocket(c)
    <3>1. pc[c] = "close_socket" /\ pc'[c] = "done" /\ fds' = [fds EXCEPT ![client_sockfd[c]] = Closed]
      BY <1>1, <2>4, DeviceUsers DEF CloseSocket, At, Goto, ThreadTypes, Close
    <3>2. /\ ~HasDevice(c) /\ ~HasDevice(c)' /\ ~Connected(c)'
          /\ \A d \in Conn \ {c} : ~Connected(d)' /\ ~HasDevice(d)'
      BY <1>1, <2>1, <2>2, <3>1, Standing DEF Connected, HasDevice
    <3>3. fds' = [fds EXCEPT ![ClientFd] = Closed]
      BY <1>1, <3>1, Standing
    <3>4. ASSUME NEW n \in Fd
          PROVE  fds'[n] = IF n < ListenFd THEN Tty ELSE IF n = ListenFd THEN Listen ELSE Closed
      <4>1. /\ ListenFd \in {0, 3} /\ ClientFd = ListenFd + 1 /\ FileFd = ListenFd + 2 /\ n \in Nat
            /\ ClientFd \in Fd
        BY <1>1, <3>1, Standing, Table
      <4>2. fds'[n] = IF n = ClientFd THEN Closed ELSE fds[n]
        BY <1>1, <3>3 DEF DeviceTypes
      <4>3. /\ n < ListenFd => fds[n] = Tty
            /\ n = ListenFd => fds[n] = Listen
            /\ n = FileFd \/ n > FileFd => fds[n] = Closed
        BY <1>1, <3>1, <3>2, Standing
      <4> HIDE DEF ListenFd, ClientFd, FileFd
      <4> QED
        BY <4>1, <4>2, <4>3
    <3>5. sockfd' = ListenFd /\ pc'[Main] \notin {"start", "socket"}
      BY <1>1, <1>2, <2>1, <3>1, Standing DEF SetUpPlaces
    <3> QED
      BY <2>1, <3>2, <3>4, <3>5, TableAfter
  <2> QED
    BY <2>3, <2>4
<1> QED
  BY <1>3, <1>4, ServeGoes DEF OneAtATime

\* And so do its steps on the device.
LEMMA OnDeviceKeepsTable ==
  ASSUME OneAtATime, ServerSide, loaded => loaded', NEW c \in Conn, OnDevice(c)
  PROVE  OneInv' /\ DeviceTable'
<1> USE DEF ServedPlaces, DevicePlaces, CleanupPlaces
<1>1. ThreadInv /\ OneInv /\ DeviceTable /\ DeviceTypes /\ ThreadTypes /\ CallFor(c)
  BY DEF ServerSide, ThreadInv
<1>2. proc = "running" /\ UNCHANGED <<client, client_sockfd, sockfd, new_thread>>
  BY <1>1, OnDeviceGoes DEF OneAtATime, threads, clients, OpenDevice, CloseDevice, LeaveDriver, vars,
                            locals
<1>3. CASE EnterDriver(c) /\ UNCHANGED vars
  <2>1. UNCHANGED <<pc, fds, datafd>>
    BY <1>3 DEF vars, files
  <2>2. OneInv'
    BY <1>1, <1>2, <2>1, MainKeepsOne DEF Arrived
  <2>3. IsUp' => IsUp
    BY <1>2, <2>1, <1>3 DEF IsUp, Arrived, vars
  <2>4. DeviceTable'
    BY <1>1, <1>2, <2>1, <2>3, TableStands DEF Connected, HasDevice, Arrived, HasListen, Below
  <2> QED
    BY <2>2, <2>4
<1>4. ASSUME NEW place \in {"recv", "cleanup", "close_socket", "read", "send"}, Goto(c, place),
             pc[c] \in {"open", "close_data", "write", "read", "ioctl"},
             \/ OpenDevice(c) /\ pc[c] = "open" /\ place \in {"recv", "cleanup"}
             \/ CloseDevice(c) /\ pc[c] = "close_data" /\ place = "close_socket"
             \/ /\ UNCHANGED <<fds, datafd>> /\ pc[c] \in {"write", "read", "ioctl"}
                /\ place \in {"cleanup", "recv", "read", "send"}
      PROVE  OneInv' /\ DeviceTable'
  <2>1. /\ OneInv' /\ pc'[c] = place /\ \A d \in Conn \ {c} : pc'[d] = pc[d]
        /\ pc'[Main] = pc[Main]
    BY <1>1, <1>2, <1>4, MoveKeepsOne
  <2>2. /\ Arrived(c) /\ IsUp /\ \A d \in Conn : Arrived(d)' <=> Arrived(d)
        /\ (HasListen' <=> HasListen) /\ Below' = Below
    BY <1>1, <1>2, <1>4, <2>1, Standing DEF Arrived, HasListen, Below
  <2>3. /\ \A d \in Conn \ {c} : ~Connected(d)' /\ ~HasDevice(d)'
        /\ Connected(c)' /\ client_sockfd'[c] = ClientFd
        /\ sockfd' = ListenFd /\ pc'[Main] \notin {"start", "socket"}
    BY <1>1, <1>2, <1>4, <2>1, <2>2, Standing DEF Connected, HasDevice, SetUpPlaces
  <2>4. /\ ListenFd \in {0, 3} /\ ClientFd = ListenFd + 1 /\ FileFd = ListenFd + 2
        /\ ListenFd \in Fd /\ ClientFd \in Fd /\ FileFd \in Fd /\ Fd \subseteq Nat
    BY <1>1, <1>4, Standing, Table
  <2>5. /\ \A n \in Fd : n < ListenFd => fds[n] = Tty
        /\ fds[ListenFd] = Listen /\ fds[ClientFd] = Socket(c)
        /\ \A n \in Fd : n > FileFd => fds[n] = Closed
        /\ pc[c] = "open" => fds[FileFd] = Closed
        /\ pc[c] # "open" => datafd = FileFd /\ fds[FileFd] = Device(c)
    BY <1>1, <1>4, Standing DEF HasDevice
  <2>6. CASE UNCHANGED <<fds, datafd>> /\ pc[c] \in {"write", "read", "ioctl"}
               /\ place \in {"cleanup", "recv", "read", "send"}
    <3>1. \A d \in Conn : /\ Connected(d)' <=> Connected(d)
                          /\ HasDevice(d)' <=> HasDevice(d)
                          /\ client_sockfd'[d] = client_sockfd[d] /\ datafd' = datafd
      BY <1>2, <2>1, <2>2, <2>6 DEF Connected, HasDevice
    <3>2. UNCHANGED <<fds, sockfd>> /\ (IsUp' => IsUp /\ (HasListen' <=> HasListen) /\ Below' = Below)
      BY <1>2, <2>2, <2>6
    <3>3. DeviceTable'
      BY <1>1, <3>1, <3>2, TableStands
    <3> QED
      BY <2>1, <3>3
  <2>7. CASE OpenDevice(c) /\ pc[c] = "open" /\ place \in {"recv", "cleanup"}
    <3>1. HasDevice(c)' /\ Connected(c)'
      BY <2>1, <2>3, <2>7 DEF HasDevice
    <3>2. fds[FileFd] = Closed /\ \A n \in Fd : n < FileFd => fds[n] # Closed
      <4>1. \A n \in Fd : n < FileFd => n < ListenFd \/ n = ListenFd \/ n = ClientFd
        <5> HIDE DEF ListenFd, ClientFd, FileFd
        <5> QED
          BY <2>4
      <4> QED
        BY <2>5, <2>7, <4>1 DEF Tty, Listen, Socket, Closed
    <3>3. LowestFree = FileFd
      BY <2>4, <3>2, LowestIs
    <3>4. fds' = [fds EXCEPT ![FileFd] = Device(c)] /\ datafd' = FileFd
      BY <2>7, <3>3 DEF OpenDevice
    <3>5. ASSUME NEW n \in Fd
          PROVE  fds'[n] = IF n < ListenFd THEN Tty ELSE IF n = ListenFd THEN Listen
                           ELSE IF n = ClientFd THEN Socket(c)
                           ELSE IF n = FileFd THEN Device(c) ELSE Closed
      <4>1. fds'[n] = IF n = FileFd THEN Device(c) ELSE fds[n]
        BY <1>1, <3>4 DEF DeviceTypes
      <4> HIDE DEF ListenFd, ClientFd, FileFd
      <4> QED
        BY <2>4, <2>5, <4>1
    <3>6. DeviceTable'
      BY <2>3, <3>1, <3>4, <3>5, TableAfter
    <3> QED
      BY <2>1, <3>6
  <2>8. CASE CloseDevice(c) /\ pc[c] = "close_data" /\ place = "close_socket"
    <3>1. ~HasDevice(c)'
      BY <2>1, <2>8 DEF HasDevice
    <3>2. fds' = [fds EXCEPT ![FileFd] = Closed]
      BY <2>5, <2>8 DEF CloseDevice, Close
    <3>3. ASSUME NEW n \in Fd
          PROVE  fds'[n] = IF n < ListenFd THEN Tty ELSE IF n = ListenFd THEN Listen
                           ELSE IF n = ClientFd THEN Socket(c) ELSE Closed
      <4>1. fds'[n] = IF n = FileFd THEN Closed ELSE fds[n]
        BY <1>1, <3>2 DEF DeviceTypes
      <4> HIDE DEF ListenFd, ClientFd, FileFd
      <4> QED
        BY <2>4, <2>5, <4>1
    <3>4. DeviceTable'
      BY <2>3, <3>1, <3>3, TableAfter
    <3> QED
      BY <2>1, <3>4
  <2> QED
    BY <1>4, <2>6, <2>7, <2>8
<1> QED
  <2>1. OnDevice(c) /\ CallFor(c) /\ UseCharDevice
    BY <1>1 DEF OneAtATime
  <2>2. \/ EnterDriver(c) /\ UNCHANGED vars
        \/ \E place \in {"recv", "cleanup", "close_socket", "read", "send"} :
             /\ Goto(c, place) /\ pc[c] \in {"open", "close_data", "write", "read", "ioctl"}
             /\ \/ OpenDevice(c) /\ pc[c] = "open" /\ place \in {"recv", "cleanup"}
                \/ CloseDevice(c) /\ pc[c] = "close_data" /\ place = "close_socket"
                \/ /\ UNCHANGED <<fds, datafd>> /\ pc[c] \in {"write", "read", "ioctl"}
                   /\ place \in {"cleanup", "recv", "read", "send"}
    BY <2>1, OnDeviceGoes
  <2> QED
    BY <1>3, <1>4, <2>2

\* main moves, or no thread does, and the descriptors stay.
LEMMA MainKeepsTable ==
  ASSUME OneInv, DeviceTable, loaded => loaded',
         UNCHANGED <<fds, sockfd, datafd, client_sockfd>>,
         \A c \in Conn : Arrived(c)' <=> Arrived(c),
         \A c \in Conn : pc'[c] = pc[c],
         proc' = "running" => proc = "running",
         \/ pc'[Main] = pc[Main]
         \/ pc'[Main] \in CleanupPlaces
         \/ /\ pc[Main] \in MainPlaces \ {"create", "start", "socket"} /\ loaded /\ proc = "running"
            /\ pc'[Main] \in MainPlaces \ {"create", "start", "socket"}
            /\ pc'[Main] \in SetUpPlaces => pc[Main] \in SetUpPlaces
  PROVE  OneInv' /\ DeviceTable'
<1>1. OneInv'
  BY MainKeepsOne DEF MainPlaces, SetUpPlaces, CleanupPlaces
<1>2. \A c \in Conn : /\ Connected(c)' <=> Connected(c)
                      /\ HasDevice(c)' <=> HasDevice(c)
  BY DEF Connected, HasDevice
<1>3. IsUp' => IsUp /\ (HasListen' <=> HasListen) /\ Below' = Below
  <2> SUFFICES ASSUME IsUp' PROVE IsUp /\ (HasListen' <=> HasListen) /\ Below' = Below
    OBVIOUS
  <2>1. CASE pc'[Main] = pc[Main]
    BY <2>1 DEF IsUp, HasListen, Below
  <2>2. CASE pc'[Main] \in CleanupPlaces
    <3>1. \E c \in Conn : Arrived(c)
      BY <2>2 DEF IsUp, CleanupPlaces, MainPlaces, SetUpPlaces
    <3>2. pc[Main] \notin {"start", "socket"}
      BY <3>1 DEF OneInv, SetUpPlaces
    <3> QED
      BY <2>2, <3>1, <3>2 DEF IsUp, HasListen, Below, CleanupPlaces
  <2>3. CASE /\ pc[Main] \in MainPlaces \ {"create", "start", "socket"} /\ proc = "running"
             /\ pc'[Main] \in MainPlaces \ {"create", "start", "socket"}
             /\ pc'[Main] \in SetUpPlaces => pc[Main] \in SetUpPlaces
    <3>1. IsUp
      BY <2>3 DEF IsUp
    <3> QED
      BY <2>3, <3>1 DEF HasListen, Below
  <2> QED
    BY <2>1, <2>2, <2>3
<1>4. \A c \in Conn : Connected(c) => client_sockfd'[c] = client_sockfd[c]
  OBVIOUS
<1>5. DeviceTable'
  BY <1>2, <1>3, <1>4, TableStands
<1> QED
  BY <1>1, <1>5

\* main sets up.
LEMMA SetUpKeepsBoth ==
  ASSUME OneAtATime, ServerSide, loaded, loaded', SetUp
  PROVE  OneInv' /\ DeviceTable'
<1>1. ThreadInv /\ OneInv /\ DeviceTable /\ DeviceTypes /\ ThreadTypes
  BY DEF ServerSide, ThreadInv
<1>2. /\ UNCHANGED <<client, client_sockfd, datafd>> /\ pc[Main] \in SetUpPlaces /\ proc = "running"
      /\ \A c \in Conn : (Arrived(c)' <=> Arrived(c)) /\ ~Arrived(c)
      /\ \A c \in Conn : pc[c] = "unborn"
  <2>1. UNCHANGED <<client, client_sockfd, datafd>> /\ pc[Main] \in SetUpPlaces /\ proc = "running"
    BY DEF SetUp, Start, CreateSocket, Bind, ListenOn, CreateStamper, At, SetUpPlaces, clients, locals,
           files
  <2>2. \A c \in Conn : ~Arrived(c)
    BY <1>1, <2>1 DEF OneInv
  <2> QED
    BY <1>1, <2>1, <2>2 DEF Arrived, ThreadInv, ListInv
<1>3. \A c \in Conn : ~Connected(c) /\ ~HasDevice(c)
  BY <1>2 DEF Connected, HasDevice, ServedPlaces, CleanupPlaces
<1>4. /\ ListenFd \in {0, 3} /\ ListenFd \in Fd /\ Fd \subseteq Nat /\ (Daemon <=> ListenFd = 0)
      /\ \A n \in Fd : n >= 0
  <2>1. ListenFd \in {0, 3} /\ ListenFd \in Fd /\ Fd \subseteq Nat /\ (Daemon <=> ListenFd = 0)
    BY Descriptors, Table DEF ListenFd
  <2> HIDE DEF ListenFd
  <2> QED
    BY <2>1
<1>5. CASE Start
  <2>1. ASSUME Goto(Main, "cleanup"), UNCHANGED fds PROVE OneInv' /\ DeviceTable'
    <3>1. pc'[Main] = "cleanup" /\ \A c \in Conn : pc'[c] = pc[c]
      BY <1>1, <2>1, MainGoes
    <3>2. UNCHANGED <<sockfd, proc>>
      BY <1>5 DEF Start
    <3> QED
      BY <1>1, <1>2, <2>1, <3>1, <3>2, MainKeepsTable DEF CleanupPlaces
  <2>2. ASSUME Goto(Main, "socket"), fds' = IF Daemon THEN [n \in Fd |-> Closed] ELSE fds
        PROVE  OneInv' /\ DeviceTable'
    <3>1. /\ pc'[Main] = "socket" /\ pc[Main] = "start" /\ \A c \in Conn : pc'[c] = pc[c]
      BY <1>1, <1>5, <2>2, MainGoes DEF Start, At
    <3>2. OneInv'
      BY <1>1, <1>2, <3>1, MainKeepsOne DEF MainPlaces, SetUpPlaces
    <3>3. IsUp /\ ~HasListen' /\ ~HasListen /\ Below' = ListenFd /\ Below = 3
      BY <1>2, <3>1 DEF IsUp, HasListen, Below, MainPlaces, SetUpPlaces, ListenFd
    <3>4. \A c \in Conn : ~Connected(c)' /\ ~HasDevice(c)'
      BY <1>2, <3>1 DEF Connected, HasDevice, ServedPlaces, CleanupPlaces
    <3>5. \A n \in Fd : (n < 3 => fds[n] = Tty) /\ (n >= 3 => fds[n] = Closed)
      BY <1>1, <1>3, <3>3 DEF DeviceTable
    <3>6. /\ Daemon => \A n \in Fd : fds'[n] = Closed
          /\ ~Daemon => fds' = fds
      BY <2>2
    <3>7. \A n \in Fd : (n < Below' => fds'[n] = Tty) /\ (n >= Below' => fds'[n] = Closed)
      <4> HIDE DEF ListenFd
      <4>1. CASE Daemon
        <5>1. ListenFd = 0
          BY <1>4, <4>1
        <5> QED
          BY <1>4, <3>3, <3>6, <4>1, <5>1
      <4>2. CASE ~Daemon
        <5>1. ListenFd = 3
          BY <1>4, <4>2
        <5> QED
          BY <3>3, <3>5, <3>6, <4>2, <5>1
      <4> QED
        BY <4>1, <4>2
    <3>8. DeviceTable'
      BY <3>3, <3>4, <3>7 DEF DeviceTable, Tty, Closed
    <3> QED
      BY <3>2, <3>8
  <2> QED
    BY <1>5, <2>1, <2>2 DEF Start
<1>6. CASE CreateSocket
  <2>1. pc[Main] = "socket" /\ IsUp /\ ~HasListen /\ Below = ListenFd
    BY <1>2, <1>6 DEF CreateSocket, At, IsUp, HasListen, Below, MainPlaces, SetUpPlaces
  <2>2. \A n \in Fd : (n < ListenFd => fds[n] = Tty) /\ (n >= ListenFd => fds[n] = Closed)
    BY <1>1, <1>3, <2>1 DEF DeviceTable
  <2>3. ASSUME Goto(Main, "cleanup") PROVE OneInv' /\ DeviceTable'
    <3>1. pc'[Main] = "cleanup" /\ \A c \in Conn : pc'[c] = pc[c]
      BY <1>1, <2>3, MainGoes
    <3>2. OneInv'
      BY <1>1, <1>2, <3>1, MainKeepsOne DEF MainPlaces, SetUpPlaces
    <3>3. ~IsUp'
      BY <1>2, <3>1 DEF IsUp, MainPlaces, SetUpPlaces
    <3> QED
      BY <3>2, <3>3 DEF DeviceTable
  <2>4. ASSUME Goto(Main, "bind"), sockfd' = LowestFree, fds' = [fds EXCEPT ![LowestFree] = Listen]
        PROVE  OneInv' /\ DeviceTable'
    <3>1. pc'[Main] = "bind" /\ \A c \in Conn : pc'[c] = pc[c]
      BY <1>1, <2>4, MainGoes
    <3>2. OneInv'
      BY <1>1, <1>2, <2>1, <3>1, MainKeepsOne DEF MainPlaces, SetUpPlaces
    <3>3. LowestFree = ListenFd
      <4>1. fds[ListenFd] = Closed /\ \A n \in Fd : n < ListenFd => fds[n] # Closed
        <5>1. ListenFd >= ListenFd
          BY <1>4
        <5> QED
          BY <1>4, <2>2, <5>1 DEF Tty, Closed
      <4> QED
        BY <1>4, <4>1, LowestIs
    <3>4. \A c \in Conn : ~Connected(c)' /\ ~HasDevice(c)'
      BY <1>2, <3>1 DEF Connected, HasDevice, ServedPlaces, CleanupPlaces
    <3>5. HasListen' /\ Below' = ListenFd /\ ListenFd' = ListenFd /\ sockfd' = ListenFd
      BY <2>4, <3>1, <3>3 DEF HasListen, Below, ListenFd
    <3>6. ASSUME NEW n \in Fd
          PROVE  fds'[n] = IF n = ListenFd THEN Listen ELSE IF n < ListenFd THEN Tty ELSE Closed
      <4>1. fds'[n] = IF n = ListenFd THEN Listen ELSE fds[n]
        BY <1>1, <2>4, <3>3 DEF DeviceTypes
      <4> HIDE DEF ListenFd
      <4> QED
        BY <1>4, <2>2, <4>1
    <3>7. /\ \A n \in Fd : n < ListenFd => fds'[n] = Tty
          /\ fds'[ListenFd] = Listen
          /\ \A n \in Fd : n >= ListenFd /\ n # ListenFd => fds'[n] = Closed
      <4> HIDE DEF ListenFd
      <4> QED
        BY <1>4, <3>6
    <3>8. DeviceTable'
      BY <3>4, <3>5, <3>7 DEF DeviceTable, Tty, Closed, Listen
    <3> QED
      BY <3>2, <3>8
  <2> QED
    BY <1>6, <2>3, <2>4 DEF CreateSocket
<1>7. CASE Bind
  <2>1. pc[Main] = "bind" /\ UNCHANGED <<proc, fds, sockfd>>
    BY <1>7 DEF Bind, At, files
  <2>2. PICK place \in {"listen", "cleanup"} : Goto(Main, place)
    BY <1>7 DEF Bind
  <2>3. pc'[Main] = place /\ \A c \in Conn : pc'[c] = pc[c]
    BY <1>1, <2>2, MainGoes
  <2>4. \/ pc'[Main] \in CleanupPlaces
        \/ /\ pc[Main] \in MainPlaces \ {"create", "start", "socket"}
           /\ pc'[Main] \in MainPlaces \ {"create", "start", "socket"}
           /\ pc[Main] \in SetUpPlaces
    BY <2>1, <2>3 DEF CleanupPlaces, MainPlaces, SetUpPlaces
  <2> QED
    BY <1>1, <1>2, <2>1, <2>3, <2>4, MainKeepsTable
<1>8. CASE ListenOn
  <2>1. pc[Main] = "listen" /\ UNCHANGED sockfd
    BY <1>8 DEF ListenOn, At
  <2>2. ASSUME Goto(Main, "accept"), UNCHANGED <<proc, fds>> PROVE OneInv' /\ DeviceTable'
    <3>1. pc'[Main] = "accept" /\ \A c \in Conn : pc'[c] = pc[c]
      BY <1>1, <2>2, MainGoes
    <3>2. /\ pc[Main] \in MainPlaces \ {"create", "start", "socket"}
          /\ pc'[Main] \in MainPlaces \ {"create", "start", "socket"}
          /\ pc[Main] \in SetUpPlaces
      BY <2>1, <3>1 DEF MainPlaces, SetUpPlaces
    <3> QED
      BY <1>1, <1>2, <2>1, <2>2, <3>1, <3>2, MainKeepsTable
  <2>3. ASSUME proc' = "exited", UNCHANGED pc PROVE OneInv' /\ DeviceTable'
    <3>1. OneInv'
      BY <1>1, <1>2, <2>3, MainKeepsOne
    <3>2. ~IsUp'
      BY <1>2, <2>1, <2>3 DEF IsUp
    <3> QED
      BY <3>1, <3>2 DEF DeviceTable
  <2> QED
    BY <1>8, <2>2, <2>3 DEF ListenOn, OneAtATime
<1>9. CASE CreateStamper
  <2>1. pc[Main] = "stamper" /\ UNCHANGED <<proc, fds, sockfd>>
    BY <1>9 DEF CreateStamper, At, files
  <2>2. pc'[Main] \in {"accept", "cleanup"} /\ \A c \in Conn : pc'[c] = pc[c]
    <3>1. CASE Goto(Main, "cleanup")
      BY <1>1, <3>1, MainGoes
    <3>2. CASE pc' = [pc EXCEPT ![Main] = "accept",
                                ![Stamper] = IF stamps < MaxStamps THEN "lock" ELSE "sleep"]
      BY <1>1, <3>2, ThreadKinds DEF ThreadTypes
    <3> QED
      BY <1>9, <3>1, <3>2 DEF CreateStamper
  <2>3. \/ pc'[Main] \in CleanupPlaces
        \/ /\ pc[Main] \in MainPlaces \ {"create", "start", "socket"}
           /\ pc'[Main] \in MainPlaces \ {"create", "start", "socket"}
           /\ pc[Main] \in SetUpPlaces
    BY <2>1, <2>2 DEF CleanupPlaces, MainPlaces, SetUpPlaces
  <2> QED
    BY <1>1, <1>2, <2>1, <2>2, <2>3, MainKeepsTable
<1> QED
  BY <1>5, <1>6, <1>7, <1>8, <1>9 DEF SetUp

\* main accepts a client, and starts its thread.
LEMMA AcceptKeepsBoth ==
  ASSUME OneAtATime, ServerSide, loaded => loaded', NEW c \in Conn, Accept(c)
  PROVE  OneInv' /\ DeviceTable'
<1>1. ThreadInv /\ OneInv /\ DeviceTable /\ DeviceTypes /\ ThreadTypes
  BY DEF ServerSide, ThreadInv
<1>2. /\ pc[Main] = "accept" /\ proc = "running" /\ client[c] = "away" /\ ~Arrived(c)
      /\ sockfd' = sockfd /\ datafd' = datafd
      /\ client' = [client EXCEPT ![c] = "open"]
      /\ fds' = [fds EXCEPT ![LowestFree] = Socket(c)]
      /\ client_sockfd' = [client_sockfd EXCEPT ![c] = LowestFree]
      /\ \A d \in Conn \ {c} : client[d] = "away" \/ pc[d] \in {"exited", "gone"}
  BY DEF Accept, At, OneAtATime, Arrived
<1>3. /\ pc'[Main] \in {"create", "cleanup"} /\ \A d \in Conn : pc'[d] = pc[d]
  BY <1>1, MainGoes DEF Accept
<1>4. /\ Arrived(c)' /\ \A d \in Conn \ {c} : (Arrived(d)' <=> Arrived(d))
      /\ pc[c] = "unborn"
      /\ \A d \in Conn \ {c} : ~Arrived(d) \/ pc[d] = "exited"
      /\ \A d \in Conn \ {c} : ~Arrived(d) => pc[d] = "unborn"
  <2>1. client' = [d \in Conn |-> client'[d]] /\ \A d \in Conn : client'[d] = IF d = c THEN "open" ELSE client[d]
    BY <1>1, <1>2 DEF ThreadTypes
  <2>2. \A d \in Conn : pc[d] # "gone"
    BY <1>1 DEF OneInv, DevicePlaces, ServedPlaces, CleanupPlaces
  <2>3. \A d \in Conn : client[d] = "away" => pc[d] = "unborn"
    BY <1>1 DEF ThreadInv, ListInv
  <2> QED
    BY <1>2, <2>1, <2>2, <2>3 DEF Arrived
<1>5. OneInv'
  <2>1. loaded'
    BY <1>1, <1>2 DEF OneInv, MainPlaces
  <2>2. \A d \in Conn : pc'[d] \in DevicePlaces
    BY <1>1, <1>3 DEF OneInv
  <2>3. \A d, e \in Conn : Arrived(d)' /\ Arrived(e)' /\ pc'[d] # "exited" /\ pc'[e] # "exited" => d = e
    BY <1>3, <1>4
  <2> QED
    BY <1>3, <2>1, <2>2, <2>3 DEF OneInv, MainPlaces, SetUpPlaces
<1>6. /\ \A d \in Conn : ~Connected(d) /\ ~HasDevice(d)
      /\ \A d \in Conn \ {c} : ~Connected(d)' /\ ~HasDevice(d)'
      /\ Connected(c)' /\ ~HasDevice(c)'
  BY <1>2, <1>3, <1>4 DEF Connected, HasDevice, ServedPlaces, CleanupPlaces
<1>7. /\ ListenFd \in {0, 3} /\ ClientFd = ListenFd + 1 /\ FileFd = ListenFd + 2
      /\ ListenFd \in Fd /\ ClientFd \in Fd /\ FileFd \in Fd /\ Fd \subseteq Nat
  BY Descriptors, Table DEF ClientFd, FileFd
<1>8. /\ IsUp /\ HasListen /\ Below = ListenFd
  BY <1>2 DEF IsUp, HasListen, Below, MainPlaces
<1>9. /\ sockfd = ListenFd /\ fds[ListenFd] = Listen
      /\ \A n \in Fd : n < ListenFd => fds[n] = Tty
      /\ \A n \in Fd : n >= ListenFd /\ n # ListenFd => fds[n] = Closed
  BY <1>1, <1>6, <1>8 DEF DeviceTable
<1>10. LowestFree = ClientFd
  <2>1. fds[ClientFd] = Closed /\ \A n \in Fd : n < ClientFd => n < ListenFd \/ n = ListenFd
    <3> HIDE DEF ListenFd, ClientFd, FileFd
    <3> QED
      BY <1>7, <1>9
  <2>2. \A n \in Fd : n < ClientFd => fds[n] # Closed
    BY <1>9, <2>1 DEF Tty, Listen, Closed
  <2> QED
    BY <1>7, <2>1, <2>2, LowestIs
<1>11. ASSUME NEW n \in Fd
       PROVE  fds'[n] = IF n < ListenFd THEN Tty ELSE IF n = ListenFd THEN Listen
                        ELSE IF n = ClientFd THEN Socket(c) ELSE Closed
  <2>1. fds'[n] = IF n = ClientFd THEN Socket(c) ELSE fds[n]
    BY <1>1, <1>2, <1>10 DEF DeviceTypes
  <2> HIDE DEF ListenFd, ClientFd, FileFd
  <2> QED
    BY <1>7, <1>9, <2>1
<1>12. client_sockfd'[c] = ClientFd
  BY <1>1, <1>2, <1>10 DEF DeviceTypes
<1>13. DeviceTable'
  BY <1>2, <1>3, <1>6, <1>9, <1>11, <1>12, TableAfter
<1> QED
  BY <1>5, <1>13

\* pthread_create: the thread of the connection begins.
LEMMA CreateKeepsBoth ==
  ASSUME ServerSide, loaded => loaded', Create
  PROVE  OneInv' /\ DeviceTable'
<1>1. ThreadInv /\ OneInv /\ DeviceTable /\ DeviceTypes /\ ThreadTypes
  BY DEF ServerSide, ThreadInv
<1>2. /\ pc[Main] = "create" /\ UNCHANGED <<proc, client, fds, sockfd, datafd, client_sockfd>>
      /\ \A d \in Conn : Arrived(d)' <=> Arrived(d)
  BY DEF Create, At, files, clients, locals, Arrived
<1>3. CASE Goto(Main, "cleanup")
  <2>1. pc'[Main] = "cleanup" /\ \A d \in Conn : pc'[d] = pc[d]
    BY <1>1, <1>3, MainGoes
  <2> QED
    BY <1>1, <1>2, <2>1, MainKeepsTable DEF CleanupPlaces
<1>4. CASE pc' = [pc EXCEPT ![Main] = "insert", ![new_thread] = "open"]
  <2>1. new_thread \in Conn /\ pc[new_thread] = "unborn" /\ Arrived(new_thread)
    BY <1>1, <1>2 DEF ThreadInv, MainInv, Arrived
  <2>2. /\ pc'[Main] = "insert" /\ pc'[new_thread] = "open"
        /\ \A d \in Conn : d # new_thread => pc'[d] = pc[d]
    BY <1>1, <1>4, <2>1, ThreadKinds DEF ThreadTypes
  <2>3. \A d \in Conn : d # new_thread => ~Arrived(d) \/ pc[d] = "exited"
    BY <1>1, <2>1 DEF OneInv
  <2>4. OneInv'
    <3>1. \A d \in Conn : pc'[d] \in DevicePlaces
      BY <1>1, <2>2 DEF OneInv, DevicePlaces
    <3>2. \A d \in Conn : Arrived(d)' => pc'[d] # "unborn"
      BY <1>2, <2>2, <2>3
    <3>3. \A d, e \in Conn : Arrived(d)' /\ Arrived(e)' /\ pc'[d] # "exited" /\ pc'[e] # "exited" => d = e
      BY <1>2, <2>2, <2>3
    <3>4. loaded'
      BY <1>1, <2>1 DEF OneInv
    <3> QED
      BY <2>2, <3>1, <3>2, <3>3, <3>4 DEF OneInv, SetUpPlaces
  <2>5. \A d \in Conn : /\ Connected(d)' <=> Connected(d)
                        /\ HasDevice(d)' <=> HasDevice(d)
    BY <1>2, <2>1, <2>2 DEF Connected, HasDevice, ServedPlaces, CleanupPlaces
  <2>6. IsUp /\ HasListen /\ HasListen' /\ Below' = Below
    BY <1>2, <2>1, <2>2 DEF IsUp, HasListen, Below
  <2>7. /\ \A d \in Conn : (Connected(d) => client_sockfd'[d] = client_sockfd[d])
                           /\ (HasDevice(d) => datafd' = datafd)
        /\ UNCHANGED <<fds, sockfd>>
    BY <1>2
  <2>8. DeviceTable'
    BY <1>1, <2>5, <2>6, <2>7, TableStands
  <2> QED
    BY <2>4, <2>8
<1> QED
  BY <1>3, <1>4 DEF Create

\* The other steps of main, and those of no thread.
LEMMA LoopKeepsBoth ==
  ASSUME ServerSide, loaded => loaded',
         \/ loaded /\ (Insert \/ Scan \/ Join \/ RemoveJoined)
         \/ Signal \/ Cleanup(Main)
         \/ \E c \in Conn : ClientSends(c) \/ ClientCloses(c)
         \/ UNCHANGED vars
  PROVE  OneInv' /\ DeviceTable'
<1>1. ThreadInv /\ OneInv /\ DeviceTable /\ DeviceTypes /\ ThreadTypes
  BY DEF ServerSide, ThreadInv
<1>2. /\ UNCHANGED <<fds, sockfd, datafd, client_sockfd>>
      /\ proc' = "running" => proc = "running"
  <2>1. CASE Insert \/ Scan \/ Join \/ RemoveJoined \/ Signal \/ Cleanup(Main)
    BY <2>1 DEF Insert, Scan, Join, RemoveJoined, Signal, Cleanup, TestList, TakeFirst,
                RemoveHead, RemoveHeadCrashes, JoinThread, JoinFails, Exit, files, locals, At
  <2>2. CASE \E c \in Conn : ClientSends(c) \/ ClientCloses(c)
    BY <2>2 DEF ClientSends, ClientCloses, files, locals
  <2>3. CASE UNCHANGED vars
    BY <2>3 DEF vars, files, locals
  <2> QED
    BY <2>1, <2>2, <2>3
<1>3. \A d \in Conn : Arrived(d)' <=> Arrived(d)
  <2>1. CASE \E c \in Conn : ClientCloses(c)
    <3>1. PICK c \in Conn : ClientCloses(c)
      BY <2>1
    <3>2. client[c] = "open" /\ client' = [client EXCEPT ![c] = "closed"]
      BY <3>1 DEF ClientCloses
    <3> QED
      BY <1>1, <3>2 DEF ThreadTypes, Arrived
  <2>2. CASE ~ \E c \in Conn : ClientCloses(c)
    <3>1. UNCHANGED client
      BY <2>2 DEF Insert, Scan, Join, RemoveJoined, Signal, Cleanup, TestList, TakeFirst,
                  RemoveHead, RemoveHeadCrashes, JoinThread, JoinFails, Exit, ClientSends,
                  clients, vars
    <3> QED
      BY <3>1 DEF Arrived
  <2> QED
    BY <2>1, <2>2
<1>4. ASSUME NEW place, Goto(Main, place)
      PROVE  pc'[Main] = place /\ \A d \in Conn : pc'[d] = pc[d]
  BY <1>1, <1>4, MainGoes
<1>5. ASSUME UNCHANGED pc PROVE OneInv' /\ DeviceTable'
  BY <1>1, <1>2, <1>3, <1>5, MainKeepsTable
<1>6. ASSUME NEW place \in CleanupPlaces, Goto(Main, place) PROVE OneInv' /\ DeviceTable'
  BY <1>1, <1>2, <1>3, <1>4, <1>6, MainKeepsTable
<1>7. ASSUME NEW place \in {"scan", "accept", "join", "remove"}, Goto(Main, place), loaded,
             pc[Main] \in {"insert", "scan", "join", "remove"}, proc = "running"
      PROVE  OneInv' /\ DeviceTable'
  <2>1. /\ pc[Main] \in MainPlaces \ {"create", "start", "socket"}
        /\ pc'[Main] \in MainPlaces \ {"create", "start", "socket"}
        /\ pc'[Main] \notin SetUpPlaces
    BY <1>4, <1>7 DEF MainPlaces, SetUpPlaces
  <2> QED
    BY <1>1, <1>2, <1>3, <1>4, <1>7, <2>1, MainKeepsTable
<1>8. CASE loaded /\ (Insert \/ Scan \/ Join \/ RemoveJoined)
  <2>1. /\ pc[Main] \in {"insert", "scan", "join", "remove"} /\ proc = "running" /\ loaded
        /\ \/ UNCHANGED pc
           \/ Goto(Main, "cleanup")
           \/ \E place \in {"scan", "accept", "join", "remove"} : Goto(Main, place)
    BY <1>8 DEF Insert, Scan, Join, RemoveJoined, At
  <2> QED
    BY <1>5, <1>6, <1>7, <2>1 DEF CleanupPlaces
<1>9. CASE Signal \/ Cleanup(Main)
  <2>1. UNCHANGED pc \/ \E place \in CleanupPlaces : Goto(Main, place)
    BY <1>9 DEF Signal, Cleanup, TestList, TakeFirst, RemoveHead, RemoveHeadCrashes, JoinThread,
                JoinFails, Exit, CleanupPlaces
  <2> QED
    BY <1>5, <1>6, <2>1
<1>10. CASE (\E c \in Conn : ClientSends(c) \/ ClientCloses(c)) \/ UNCHANGED vars
  <2>1. UNCHANGED pc
    BY <1>10 DEF ClientSends, ClientCloses, vars
  <2> QED
    BY <1>5, <2>1
<1> QED
  BY <1>8, <1>9, <1>10

\* A thread of a connection cleans up.
LEMMA CleanupKeepsBoth ==
  ASSUME ServerSide, loaded => loaded', NEW c \in Conn, Cleanup(c)
  PROVE  OneInv' /\ DeviceTable'
<1>1. ThreadInv /\ OneInv /\ DeviceTable /\ DeviceTypes /\ ThreadTypes
  BY DEF ServerSide, ThreadInv
<1>2. UNCHANGED <<client, new_thread, fds, sockfd, datafd, client_sockfd>> /\ proc = "running"
  BY DEF Cleanup, TestList, TakeFirst, RemoveHead, RemoveHeadCrashes, JoinThread, JoinFails,
         Exit, clients, files, locals, At, threads
<1>3. \A d \in Conn : Arrived(d)' <=> Arrived(d)
  BY <1>2 DEF Arrived
<1>4. CASE UNCHANGED pc
  BY <1>1, <1>2, <1>3, <1>4, MainKeepsTable
<1>5. ASSUME NEW place \in CleanupPlaces, Goto(c, place), pc[c] \in CleanupPlaces
      PROVE  OneInv' /\ DeviceTable'
  <2>1. /\ OneInv' /\ pc'[c] = place /\ \A d \in Conn \ {c} : pc'[d] = pc[d]
        /\ pc'[Main] = pc[Main]
    <3>1. pc[c] \notin {"unborn", "exited"} /\ place \in DevicePlaces \ {"unborn"}
      BY <1>5 DEF CleanupPlaces, DevicePlaces, ServedPlaces
    <3> QED
      BY <1>1, <1>2, <1>5, <3>1, MoveKeepsOne
  <2>2. Arrived(c) /\ IsUp /\ (HasListen' <=> HasListen) /\ Below' = Below
    <3>1. pc[c] \notin {"unborn", "exited"}
      BY <1>5 DEF CleanupPlaces
    <3> QED
      BY <1>1, <2>1, <3>1, Standing DEF HasListen, Below
  <2>3. \A d \in Conn : /\ Connected(d)' <=> Connected(d)
                        /\ HasDevice(d)' <=> HasDevice(d)
    BY <1>3, <1>5, <2>1 DEF Connected, HasDevice, ServedPlaces, CleanupPlaces
  <2>4. /\ \A d \in Conn : (Connected(d) => client_sockfd'[d] = client_sockfd[d])
                           /\ (HasDevice(d) => datafd' = datafd)
        /\ UNCHANGED <<fds, sockfd>>
    BY <1>2
  <2>5. DeviceTable'
    BY <1>1, <2>2, <2>3, <2>4, TableStands
  <2> QED
    BY <2>1, <2>5
<1>6. UNCHANGED pc \/ (pc[c] \in CleanupPlaces /\ \E place \in CleanupPlaces : Goto(c, place))
  BY DEF Cleanup, TestList, TakeFirst, RemoveHead, RemoveHeadCrashes, JoinThread, JoinFails,
         Exit, CleanupPlaces, At
<1> QED
  BY <1>4, <1>5, <1>6

\* One connection at a time is open, and the table is as DeviceTable has it.
LEMMA StepKeepsBoth ==
  ASSUME OneAtATime, ServerSide, [NextOnDevice]_allvars
  PROVE  OneInv' /\ DeviceTable'
<1>1. loaded => loaded'
  BY LoadedStays
<1>2. CASE UNCHANGED vars
  BY <1>1, <1>2, LoopKeepsBoth
<1>3. ASSUME NEW c \in Conn, OnDevice(c) PROVE OneInv' /\ DeviceTable'
  BY <1>1, <1>3, OnDeviceKeepsTable
<1>4. ASSUME NEW c \in Conn, Serve(c) PROVE OneInv' /\ DeviceTable'
  BY <1>1, <1>4, ServeKeepsTable
<1>5. ASSUME NEW c \in Conn, Client(c) PROVE OneInv' /\ DeviceTable'
  BY <1>1, <1>5, AcceptKeepsBoth, LoopKeepsBoth DEF Client
<1>6. CASE loaded /\ MainStep
  <2>1. CASE SetUp
    BY <1>1, <1>6, <2>1, SetUpKeepsBoth
  <2>2. CASE Create
    BY <1>1, <2>2, CreateKeepsBoth
  <2> QED
    BY <1>1, <1>6, <2>1, <2>2, LoopKeepsBoth DEF MainStep
<1>7. CASE Signal \/ Cleanup(Main) \/ Rest
  BY <1>1, <1>7, LoopKeepsBoth DEF Rest
<1>8. ASSUME NEW c \in Conn, Cleanup(c) PROVE OneInv' /\ DeviceTable'
  BY <1>1, <1>8, CleanupKeepsBoth
<1> QED
  BY <1>2, <1>3, <1>4, <1>5, <1>6, <1>7, <1>8, StepKinds DEF ServerStep

----------------------------------------------------------------------------
(* What a step does to one connection.                                     *)

\* It stays where it is.
Still(c) ==
  UNCHANGED <<pc[c], buffer[c], on[c], sent[c], outbox[c], got[c], asked[c], written[c]>>

\* It goes on, outside the calls on the device and the socket.
MovesOn(c) ==
  /\ UNCHANGED <<sent[c], outbox[c], got[c], asked[c], written[c]>>
  /\ pc[c] \notin {"open", "write", "ioctl", "read", "send"}
  /\ pc'[c] \notin {"unborn", "write", "ioctl", "read", "send", "gone"}
  /\ pc'[c] = "open" => pc[c] = "unborn"
  /\ pc'[c] = "receiving" => on'[c] = Socket(c)
  /\ HasDevice(c)' => HasDevice(c)

\* recv returns a chunk.
Takes(c) ==
  /\ pc[c] = "receiving" /\ pc'[c] \in {"write", "ioctl"} /\ outbox[c] # <<>>
  /\ buffer'[c] = Head(outbox[c]) /\ outbox'[c] = Tail(outbox[c]) /\ got'[c] = <<>>
  /\ UNCHANGED <<sent[c], asked[c], written[c]>>

\* send.
Replies(c) ==
  /\ pc[c] = "send" /\ pc'[c] = "read" /\ got'[c] = Append(got[c], buffer[c])
  /\ UNCHANGED <<sent[c], outbox[c], asked[c], written[c]>>

\* Its client sends.
Puts(c) ==
  /\ Arrived(c) /\ sent[c] < MaxChunks /\ sent'[c] = sent[c] + 1
  /\ \E kind \in Kind :
       outbox'[c] = Append(outbox[c], [from |-> c, n |-> sent[c] + 1, kind |-> kind])
  /\ UNCHANGED <<pc[c], buffer[c], on[c], got[c], asked[c], written[c]>>

\* The calls on the device.
Opens(c) ==
  /\ OpenDevice(c) /\ pc[c] = "open" /\ pc'[c] \in {"recv", "cleanup"}
  /\ UNCHANGED <<sent[c], outbox[c], got[c], asked[c], written[c]>>

Enters(c) ==
  /\ EnterDriver(c) /\ pc[c] \in {"write", "read", "ioctl"}
  /\ UNCHANGED <<pc[c], buffer[c], on[c], sent[c], outbox[c], got[c], written[c]>>

Leaves(c) ==
  LET ret == frame[c].retval
  IN  /\ LeaveDriver(c) /\ dpc[c] = "return" /\ pc[c] \in {"write", "read", "ioctl"}
      /\ pc'[c] = IF ret < 0 THEN "cleanup"
                  ELSE CASE pc[c] = "write" -> Answer(c)
                         [] pc[c] = "ioctl" -> "read"
                         [] pc[c] = "read"  -> IF ret = 0 THEN "recv" ELSE "send"
      /\ buffer'[c] = IF pc[c] = "read" /\ ret > 0 THEN Excerpt(frame[c].given) ELSE buffer[c]
      /\ written'[c] = IF pc[c] = "write" /\ ret >= 0 THEN written[c] + 1 ELSE written[c]
      /\ UNCHANGED <<on[c], sent[c], outbox[c], got[c], asked[c]>>

\* There are no others.
Kinds(c) == Still(c) \/ MovesOn(c) \/ Takes(c) \/ Replies(c) \/ Puts(c) \/ Opens(c)
              \/ Enters(c) \/ Leaves(c)

\* The steps of handle_connection off the device.
LEMMA ServeKinds ==
  ASSUME OneAtATime, ServerSide, NEW d \in Conn, Serve(d), UNCHANGED aux, NEW c \in Conn
  PROVE  Kinds(c)
<1>1. ThreadInv /\ OneInv /\ DeviceTable /\ DeviceTypes /\ ThreadTypes /\ ChunkFor(d) /\ UseCharDevice
  BY DEF ServerSide, ThreadInv, OneAtATime
<1>2. UNCHANGED <<asked[c], written[c], sent[c]>>
  BY <1>1, ServeGoes DEF aux
<1>3. ASSUME NEW place, Goto(d, place) PROVE pc'[c] = IF c = d THEN place ELSE pc[c]
  BY <1>1, <1>3, WorkerMoved
<1>4. CASE OpenFails(d)
  BY <1>2, <1>4 DEF OpenFails, Kinds, Still, locals, clients
<1>5. CASE CallRecv(d)
  <2>1. pc[d] = "recv" /\ pc'[c] = (IF c = d THEN "receiving" ELSE pc[c]) /\ UNCHANGED <<outbox, got>>
    BY <1>3, <1>5 DEF CallRecv, At, clients
  <2>2. fds[client_sockfd[d]] = Socket(d)
    BY <1>1, <2>1, Standing
  <2>3. /\ on'[c] = IF c = d THEN Socket(d) ELSE on[c]
        /\ c # d => buffer'[c] = buffer[c]
    BY <1>1, <1>5, <2>2 DEF CallRecv, DeviceTypes
  <2> QED
    BY <1>2, <2>1, <2>3 DEF Kinds, Still, MovesOn, HasDevice, ServedPlaces
<1>6. CASE Receive(d)
  <2>1. on[d] = Socket(d) /\ pc[d] = "receiving"
    BY <1>1, <1>6 DEF ChunkFor, Receive, At
  <2>2. on[d].of = d
    BY <2>1 DEF Socket
  <2>3. /\ outbox[d] # <<>> /\ buffer' = [buffer EXCEPT ![d] = Head(outbox[d])]
        /\ outbox' = [outbox EXCEPT ![d] = Tail(outbox[d])] /\ got' = [got EXCEPT ![d] = <<>>]
        /\ on' = on
    BY <1>6, <2>2 DEF Receive
  <2>4. \E place \in {"ioctl", "write"} : Goto(d, place)
    BY <1>1, <1>6, <2>2 DEF Receive
  <2>5. IF c = d THEN pc'[c] \in {"ioctl", "write"} ELSE pc'[c] = pc[c]
    BY <1>3, <2>4
  <2>6. /\ buffer'[c] = IF c = d THEN Head(outbox[d]) ELSE buffer[c]
        /\ outbox'[c] = IF c = d THEN Tail(outbox[d]) ELSE outbox[c]
        /\ got'[c] = IF c = d THEN <<>> ELSE got[c]
    BY <1>1, <2>3 DEF DeviceTypes
  <2> QED
    BY <1>2, <2>1, <2>3, <2>5, <2>6 DEF Kinds, Still, Takes
<1>7. CASE RecvEnds(d)
  <2>1. /\ pc[d] = "receiving" /\ pc'[c] = (IF c = d THEN "close_data" ELSE pc[c])
        /\ UNCHANGED <<outbox, got, on, buffer>>
    BY <1>3, <1>7 DEF RecvEnds, At, clients, locals
  <2> QED
    BY <1>2, <2>1 DEF Kinds, Still, MovesOn, HasDevice, ServedPlaces
<1>8. CASE Send(d)
  <2>1. /\ pc[d] = "send" /\ pc'[c] = (IF c = d THEN "read" ELSE pc[c])
        /\ UNCHANGED <<outbox, on, buffer>>
    BY <1>3, <1>8 DEF Send, At, locals
  <2>2. fds[client_sockfd[d]] = Socket(d)
    BY <1>1, <2>1, Standing
  <2>3. got' = [got EXCEPT ![d] = Append(got[d], buffer[d])]
    BY <1>8, <2>2 DEF Send, Socket, Deliver
  <2>4. got'[c] = IF c = d THEN Append(got[d], buffer[d]) ELSE got[c]
    BY <1>1, <2>3 DEF DeviceTypes
  <2> QED
    BY <1>2, <2>1, <2>4 DEF Kinds, Still, Replies
<1>9. CASE CloseSocket(d)
  <2>1. /\ pc[d] = "close_socket" /\ pc'[c] = (IF c = d THEN "done" ELSE pc[c])
        /\ UNCHANGED <<outbox, got, on, buffer>>
    BY <1>3, <1>9 DEF CloseSocket, At, clients, locals
  <2> QED
    BY <1>2, <2>1 DEF Kinds, Still, MovesOn, HasDevice, ServedPlaces, CleanupPlaces
<1>10. CASE WorkDone(d)
  <2>1. /\ pc[d] = "done" /\ pc'[c] = (IF c = d THEN "exited" ELSE pc[c])
        /\ UNCHANGED <<outbox, got>>
    BY <1>3, <1>10 DEF WorkDone, At, clients
  <2>2. c # d => buffer'[c] = buffer[c] /\ on'[c] = on[c]
    BY <1>1, <1>10 DEF WorkDone, DeviceTypes
  <2> QED
    BY <1>2, <2>1, <2>2 DEF Kinds, Still, MovesOn, HasDevice, ServedPlaces, CleanupPlaces
<1> QED
  BY <1>4, <1>5, <1>6, <1>7, <1>8, <1>9, <1>10 DEF Serve

\* Those on the device.
LEMMA OnDeviceKinds ==
  ASSUME OneAtATime, ServerSide, NEW d \in Conn, OnDevice(d), NEW c \in Conn
  PROVE  Kinds(c) /\ UNCHANGED <<client, history>>
<1>1. ThreadInv /\ OneInv /\ DeviceTable /\ DeviceTypes /\ ThreadTypes /\ CallFor(d) /\ UseCharDevice
  BY DEF ServerSide, ThreadInv, OneAtATime
<1>2. UNCHANGED <<client, history, sent, outbox, got, on>>
  BY DEF OnDevice, OpenDevice, EnterDriver, LeaveDriver, CloseDevice, clients, locals, vars
<1>3. ASSUME NEW place, Goto(d, place) PROVE pc'[c] = IF c = d THEN place ELSE pc[c]
  BY <1>1, <1>3, WorkerMoved
<1>4. CASE EnterDriver(d)
  <2>1. UNCHANGED <<pc, buffer, written>> /\ pc[d] \in {"write", "read", "ioctl"}
    BY <1>4 DEF EnterDriver, vars, locals, At
  <2>2. c # d => asked'[c] = asked[c]
    <3>1. PICK r \in SystemCall(d) :
            asked' = CASE r.op = "write" -> [asked EXCEPT ![d] = NoRequest]
                     [] r.op = "ioctl" -> [asked EXCEPT ![d] = r.seekto]
                     [] r.op = "read"  -> asked
      BY <1>4 DEF EnterDriver
    <3>2. r.op \in {"write", "ioctl", "read"}
      BY <2>1 DEF SystemCall
    <3> QED
      BY <1>1, <3>1, <3>2 DEF DeviceTypes
  <2> QED
    BY <1>2, <1>4, <2>1, <2>2 DEF Kinds, Still, Enters
<1>5. CASE OpenDevice(d)
  <2>1. pc[d] = "open" /\ UNCHANGED <<asked, written, buffer>>
    BY <1>5 DEF OpenDevice, At, locals
  <2>2. \E place \in {"recv", "cleanup"} : Goto(d, place)
    BY <1>5 DEF OpenDevice
  <2> QED
    BY <1>2, <1>3, <1>5, <2>1, <2>2 DEF Kinds, Still, Opens
<1>6. CASE CloseDevice(d)
  <2>1. pc[d] = "close_data" /\ Goto(d, "close_socket") /\ UNCHANGED <<asked, written, buffer>>
    BY <1>6 DEF CloseDevice, At, locals, aux
  <2> QED
    BY <1>2, <1>3, <2>1 DEF Kinds, Still, MovesOn, HasDevice, ServedPlaces, CleanupPlaces
<1>7. CASE LeaveDriver(d)
  <2>1. dpc[d] = "return" /\ pc[d] \in {"write", "read", "ioctl"}
    BY <1>7, SameSteps, DeviceUsers, <1>1 DEF LeaveDriver, Char!Return, CallFor
  <2> DEFINE ret == frame[d].retval
             Next0 == IF ret < 0 THEN "cleanup"
                     ELSE CASE pc[d] = "write" -> Answer(d)
                            [] pc[d] = "ioctl" -> "read"
                            [] pc[d] = "read"  -> IF ret = 0 THEN "recv" ELSE "send"
  <2>2. /\ Goto(d, Next0) /\ asked' = asked
        /\ buffer' = [buffer EXCEPT ![d] =
                        IF pc[d] = "read" /\ ret > 0 THEN Excerpt(frame[d].given) ELSE buffer[d]]
        /\ written' = [written EXCEPT ![d] =
                         IF pc[d] = "write" /\ ret >= 0 THEN written[d] + 1 ELSE written[d]]
    BY <1>7 DEF LeaveDriver
  <2>3. pc'[c] = IF c = d THEN Next0 ELSE pc[c]
    <3> HIDE DEF Next0
    <3> QED
      BY <1>3, <2>2
  <2>4. /\ c = d => buffer'[c] = IF pc[d] = "read" /\ ret > 0 THEN Excerpt(frame[d].given) ELSE buffer[d]
        /\ c # d => buffer'[c] = buffer[c]
    BY <1>1, <2>2 DEF DeviceTypes
  <2>5. /\ c = d => written'[c] = IF pc[d] = "write" /\ ret >= 0 THEN written[d] + 1 ELSE written[d]
        /\ c # d => written'[c] = written[c]
    BY <1>1, <2>2 DEF DeviceTypes
  <2>6. CASE c = d
    <3>1. pc'[c] = Next0
      BY <2>3, <2>6
    <3> QED
      BY <1>2, <1>7, <2>1, <2>2, <2>4, <2>5, <2>6, <3>1 DEF Kinds, Leaves
  <2>7. CASE c # d
    BY <1>2, <2>2, <2>3, <2>4, <2>5, <2>7 DEF Kinds, Still
  <2> QED
    BY <2>6, <2>7
<1> QED
  BY <1>2, <1>4, <1>5, <1>6, <1>7 DEF OnDevice

\* Every step, seen from one connection.
LEMMA StepIsOfAKind ==
  ASSUME OneAtATime, ServerSide, [NextOnDevice]_allvars, NEW c \in Conn
  PROVE  Kinds(c)
<1>1. ThreadInv /\ OneInv /\ DeviceTable /\ DeviceTypes /\ ThreadTypes
  BY DEF ServerSide, ThreadInv
<1>2. ASSUME NEW d \in Conn, OnDevice(d) PROVE Kinds(c)
  BY <1>2, OnDeviceKinds
<1>3. CASE UNCHANGED vars /\ ~ \E d \in Conn : OnDevice(d)
  <2>1. UNCHANGED <<asked, written>>
    BY <1>3 DEF NextOnDevice, ServerStep, DriverStep, OutsiderStep, allvars, aux
  <2> QED
    BY <1>3, <2>1 DEF vars, locals, clients, Kinds, Still
<1>4. CASE ServerStep
  <2>1. UNCHANGED aux
    BY <1>4 DEF ServerStep
  <2>2. ASSUME NEW d \in Conn, Serve(d) PROVE Kinds(c)
    BY <2>1, <2>2, ServeKinds
  <2>3. ASSUME NEW d \in Conn, Accept(d) PROVE Kinds(c)
    <3>1. UNCHANGED <<on, buffer, sent, outbox, got>>
      BY <2>3 DEF Accept
    <3>2. pc'[c] = pc[c]
      BY <1>1, <2>3, MainGoes DEF Accept
    <3> QED
      BY <2>1, <3>1, <3>2 DEF Kinds, Still, aux
  <2>4. ASSUME NEW d \in Conn, ClientSends(d) PROVE Kinds(c)
    <3>1. /\ client[d] = "open" /\ sent[d] < MaxChunks /\ sent' = [sent EXCEPT ![d] = sent[d] + 1]
          /\ UNCHANGED <<pc, on, buffer, got>>
      BY <2>4 DEF ClientSends, locals
    <3>2. PICK kind \in Kind :
            outbox' = [outbox EXCEPT ![d] = Append(outbox[d], [from |-> d, n |-> sent[d] + 1, kind |-> kind])]
      BY <2>4 DEF ClientSends
    <3>3. Arrived(d)
      BY <3>1 DEF Arrived
    <3> QED
      BY <1>1, <2>1, <3>1, <3>2, <3>3 DEF DeviceTypes, aux, Kinds, Still, Puts
  <2>5. ASSUME NEW d \in Conn, ClientCloses(d) PROVE Kinds(c)
    BY <2>1, <2>5 DEF ClientCloses, locals, aux, Kinds, Still
  <2>6. ASSUME NEW d \in Conn, Cleanup(d) PROVE Kinds(c)
    <3>1. UNCHANGED <<on, buffer, sent, outbox, got>>
      BY <2>6 DEF Cleanup, TestList, TakeFirst, RemoveHead, RemoveHeadCrashes, JoinThread,
                  JoinFails, Exit, locals, clients
    <3>2. UNCHANGED pc \/ (pc[d] \in CleanupPlaces /\ \E place \in CleanupPlaces : Goto(d, place))
      BY <2>6 DEF Cleanup, TestList, TakeFirst, RemoveHead, RemoveHeadCrashes, JoinThread,
                  JoinFails, Exit, At, CleanupPlaces
    <3>3. pc'[c] = pc[c] \/ (c = d /\ pc[c] \in CleanupPlaces /\ pc'[c] \in CleanupPlaces)
      BY <1>1, <3>2, WorkerMoved
    <3> QED
      BY <2>1, <3>1, <3>3 DEF aux, Kinds, Still, MovesOn, HasDevice, ServedPlaces, CleanupPlaces
  <2>7. CASE Create
    <3>1. /\ UNCHANGED <<on, buffer, sent, outbox, got>>
          /\ new_thread \in Conn /\ pc[new_thread] = "unborn" /\ pc[Main] = "create"
      BY <1>1, <2>7 DEF Create, At, locals, clients, ThreadInv, MainInv
    <3>2. pc'[c] = pc[c] \/ (pc[c] = "unborn" /\ pc'[c] = "open")
      <4>1. CASE Goto(Main, "cleanup")
        BY <1>1, <4>1, MainGoes
      <4>2. CASE pc' = [pc EXCEPT ![Main] = "insert", ![new_thread] = "open"]
        BY <1>1, <3>1, <4>2, ThreadKinds DEF ThreadTypes
      <4> QED
        BY <2>7, <4>1, <4>2 DEF Create
    <3> QED
      BY <2>1, <3>1, <3>2 DEF aux, Kinds, Still, MovesOn, HasDevice, ServedPlaces, CleanupPlaces
  <2>8. CASE SetUp \/ Insert \/ Scan \/ Join \/ RemoveJoined \/ Signal \/ Cleanup(Main)
    <3>1. UNCHANGED <<on, buffer, sent, outbox, got>>
      BY <2>8 DEF SetUp, Start, CreateSocket, Bind, ListenOn, CreateStamper, Insert, Scan, Join,
                  RemoveJoined, Signal, Cleanup, TestList, TakeFirst, RemoveHead,
                  RemoveHeadCrashes, JoinThread, JoinFails, Exit, locals, clients
    <3>2. CASE CreateStamper /\ ~ \E place : Goto(Main, place)
      <4>1. pc' = [pc EXCEPT ![Main] = "accept",
                             ![Stamper] = IF stamps < MaxStamps THEN "lock" ELSE "sleep"]
        BY <3>2 DEF CreateStamper
      <4>2. pc'[c] = pc[c]
        BY <1>1, <4>1, ThreadKinds DEF ThreadTypes
      <4> QED
        BY <2>1, <3>1, <4>2 DEF aux, Kinds, Still
    <3>3. CASE UNCHANGED pc \/ \E place : Goto(Main, place)
      <4>1. pc'[c] = pc[c]
        BY <1>1, <3>3, MainGoes
      <4> QED
        BY <2>1, <3>1, <4>1 DEF aux, Kinds, Still
    <3>4. CreateStamper \/ UNCHANGED pc \/ \E place : Goto(Main, place)
      BY <2>8 DEF SetUp, Start, CreateSocket, Bind, ListenOn, CreateStamper, Insert, Scan, Join,
                  RemoveJoined, Signal, Cleanup, TestList, TakeFirst, RemoveHead,
                  RemoveHeadCrashes, JoinThread, JoinFails, Exit
    <3> QED
      BY <3>2, <3>3, <3>4
  <2>9. CASE Rest
    BY <2>1, <2>9 DEF Rest, vars, locals, clients, aux, Kinds, Still
  <2> QED
    BY <1>4, <2>2, <2>3, <2>4, <2>5, <2>6, <2>7, <2>8, <2>9 DEF ServerStep, Client, MainStep
<1> QED
  BY <1>2, <1>3, <1>4, StepKinds

----------------------------------------------------------------------------
(* The types, and what a thread has in hand.                               *)

\* The tables change at one place.
LEMMA StepsReplace ==
  ASSUME UseCharDevice, [NextOnDevice]_allvars
  PROVE  /\ \/ UNCHANGED fds \/ fds' = [n \in Fd |-> Closed]
            \/ \E n, r : fds' = [fds EXCEPT ![n] = r]
         /\ UNCHANGED client_sockfd \/ \E n, r : client_sockfd' = [client_sockfd EXCEPT ![n] = r]
         /\ UNCHANGED on \/ \E n, r : on' = [on EXCEPT ![n] = r]
         /\ UNCHANGED buffer \/ \E n, r : buffer' = [buffer EXCEPT ![n] = r]
         /\ UNCHANGED sent \/ \E n, r : sent' = [sent EXCEPT ![n] = r]
         /\ UNCHANGED outbox \/ \E n, r : outbox' = [outbox EXCEPT ![n] = r]
         /\ UNCHANGED got \/ \E n, r : got' = [got EXCEPT ![n] = r]
         /\ \/ UNCHANGED dropped \/ dropped' = [c \in Conn |-> TRUE]
            \/ \E n : dropped' = [dropped EXCEPT ![n] = FALSE]
         /\ UNCHANGED asked \/ \E n, r : asked' = [asked EXCEPT ![n] = r]
         /\ UNCHANGED written \/ \E n, r : written' = [written EXCEPT ![n] = r]
<1> DEFINE Shape ==
         /\ \/ UNCHANGED fds \/ fds' = [n \in Fd |-> Closed]
            \/ \E n, r : fds' = [fds EXCEPT ![n] = r]
         /\ UNCHANGED client_sockfd \/ \E n, r : client_sockfd' = [client_sockfd EXCEPT ![n] = r]
         /\ UNCHANGED on \/ \E n, r : on' = [on EXCEPT ![n] = r]
         /\ UNCHANGED buffer \/ \E n, r : buffer' = [buffer EXCEPT ![n] = r]
         /\ UNCHANGED sent \/ \E n, r : sent' = [sent EXCEPT ![n] = r]
         /\ UNCHANGED outbox \/ \E n, r : outbox' = [outbox EXCEPT ![n] = r]
         /\ UNCHANGED got \/ \E n, r : got' = [got EXCEPT ![n] = r]
         /\ \/ UNCHANGED dropped \/ dropped' = [c \in Conn |-> TRUE]
            \/ \E n : dropped' = [dropped EXCEPT ![n] = FALSE]
         /\ UNCHANGED asked \/ \E n, r : asked' = [asked EXCEPT ![n] = r]
         /\ UNCHANGED written \/ \E n, r : written' = [written EXCEPT ![n] = r]
<1> SUFFICES Shape
  OBVIOUS
<1>1. ASSUME UNCHANGED vars, UNCHANGED <<asked, written>>,
             UNCHANGED dropped \/ dropped' = [c \in Conn |-> TRUE]
      PROVE  Shape
  BY <1>1 DEF vars, files, locals, clients
<1>2. ASSUME UNCHANGED <<clients, aux>>, UNCHANGED <<locals, files>> PROVE Shape
  BY <1>2 DEF files, locals, clients, aux
<1>3. ASSUME NEW c \in Conn, Serve(c), UNCHANGED aux PROVE Shape
  <2>1. CASE OpenFails(c) \/ RecvEnds(c)
    BY <1>2, <1>3, <2>1 DEF OpenFails, RecvEnds
  <2>2. CASE CallRecv(c)
    BY <1>3, <2>2 DEF CallRecv, files, clients, aux
  <2>3. CASE Receive(c)
    BY <1>3, <2>3 DEF Receive, files, aux
  <2>4. CASE Send(c)
    BY <1>3, <2>4 DEF Send, Deliver, files, aux, locals
  <2>5. CASE CloseSocket(c)
    BY <1>3, <2>5 DEF CloseSocket, Close, clients, aux, locals
  <2>6. CASE WorkDone(c)
    BY <1>3, <2>6 DEF WorkDone, files, clients, aux
  <2> QED
    BY <1>3, <2>1, <2>2, <2>3, <2>4, <2>5, <2>6 DEF Serve
<1>4. ASSUME NEW c \in Conn, OnDevice(c) PROVE Shape
  <2>1. CASE OpenDevice(c)
    BY <2>1 DEF OpenDevice, locals, clients
  <2>2. CASE EnterDriver(c)
    <3>1. UNCHANGED asked \/ \E n, r : asked' = [asked EXCEPT ![n] = r]
      <4>1. pc[c] \in {"write", "read", "ioctl"}
        BY <2>2 DEF EnterDriver, At
      <4>2. PICK r \in SystemCall(c) :
              asked' = CASE r.op = "write" -> [asked EXCEPT ![c] = NoRequest]
                       [] r.op = "ioctl" -> [asked EXCEPT ![c] = r.seekto]
                       [] r.op = "read"  -> asked
        BY <2>2 DEF EnterDriver
      <4>3. r.op \in {"write", "ioctl", "read"}
        BY <4>1 DEF SystemCall
      <4> QED
        BY <4>2, <4>3
    <3> QED
      BY <2>2, <3>1 DEF EnterDriver, vars, files, locals, clients
  <2>3. CASE LeaveDriver(c)
    BY <2>3 DEF LeaveDriver, files, clients
  <2>4. CASE CloseDevice(c)
    BY <2>4 DEF CloseDevice, Close, locals, clients, aux
  <2> QED
    BY <1>4, <2>1, <2>2, <2>3, <2>4 DEF OnDevice
<1>5. ASSUME NEW c \in Conn, Client(c), UNCHANGED aux PROVE Shape
  <2>1. CASE Accept(c)
    BY <1>5, <2>1 DEF Accept, aux
  <2>2. CASE ClientSends(c)
    BY <1>5, <2>2 DEF ClientSends, files, locals, aux
  <2>3. CASE ClientCloses(c)
    BY <1>5, <2>3 DEF ClientCloses, files, locals, aux
  <2> QED
    BY <1>5, <2>1, <2>2, <2>3 DEF Client
<1>6. ASSUME SetUp, UNCHANGED aux PROVE Shape
  <2>1. CASE Bind \/ CreateStamper
    BY <1>2, <1>6, <2>1 DEF Bind, CreateStamper
  <2>2. CASE Start
    BY <1>6, <2>2 DEF Start, locals, clients, aux
  <2>3. CASE CreateSocket
    BY <1>6, <2>3 DEF CreateSocket, locals, clients, aux
  <2>4. CASE ListenOn
    BY <1>6, <2>4 DEF ListenOn, Close, locals, clients, aux
  <2> QED
    BY <1>6, <2>1, <2>2, <2>3, <2>4 DEF SetUp
<1>7. ASSUME Create \/ Insert \/ Scan \/ Join \/ RemoveJoined \/ Signal \/ Rest, UNCHANGED aux
      PROVE  Shape
  BY <1>2, <1>7 DEF Create, Insert, Scan, Join, RemoveJoined, Signal, Rest, vars
<1>8. ASSUME NEW t \in Conn \cup {Main}, Cleanup(t), UNCHANGED aux PROVE Shape
  BY <1>8 DEF Cleanup, TestList, TakeFirst, RemoveHead, RemoveHeadCrashes, JoinThread,
              JoinFails, Exit, files, locals, clients, aux
<1>9. CASE ServerStep
  <2> HIDE DEF Shape
  <2> QED
    BY <1>3, <1>5, <1>6, <1>7, <1>8, <1>9 DEF ServerStep, MainStep
<1>10. CASE UNCHANGED vars /\ ~ \E c \in Conn : OnDevice(c)
  <2>1. UNCHANGED <<asked, written>> /\ (UNCHANGED dropped \/ dropped' = [c \in Conn |-> TRUE])
    BY <1>10 DEF NextOnDevice, ServerStep, DriverStep, OutsiderStep, allvars, aux
  <2> QED
    BY <1>1, <1>10, <2>1
<1> HIDE DEF Shape
<1> QED
  BY <1>4, <1>9, <1>10, StepKinds

\* Types.
LEMMA TypesKept ==
  ASSUME OneAtATime, ServerSide, [NextOnDevice]_allvars
  PROVE  DeviceTypes'
<1>1. DeviceTypes /\ UseCharDevice
  BY DEF ServerSide, OneAtATime
<1>2. /\ fds' = [n \in Fd |-> fds'[n]]
      /\ client_sockfd' = [c \in Conn |-> client_sockfd'[c]]
      /\ on' = [c \in Conn |-> on'[c]] /\ buffer' = [c \in Conn |-> buffer'[c]]
  BY <1>1, StepsReplace DEF DeviceTypes
<1>3. /\ sent' = [c \in Conn |-> sent'[c]] /\ outbox' = [c \in Conn |-> outbox'[c]]
      /\ got' = [c \in Conn |-> got'[c]]
      /\ asked' = [c \in Conn |-> asked'[c]] /\ written' = [c \in Conn |-> written'[c]]
  BY <1>1, StepsReplace DEF DeviceTypes
<1>4. dropped' \in [Conn -> BOOLEAN]
  BY <1>1, StepsReplace DEF DeviceTypes
<1>5. ASSUME NEW c \in Conn
      PROVE  /\ sent'[c] \in 0 .. MaxChunks /\ outbox'[c] \in Seq(ClientChunk)
             /\ got'[c] \in Seq(Answers) /\ asked'[c] \in SeekTo \cup {NoRequest}
             /\ written'[c] \in Nat
  <2>1. /\ sent[c] \in 0 .. MaxChunks /\ outbox[c] \in Seq(ClientChunk) /\ got[c] \in Seq(Answers)
        /\ asked[c] \in SeekTo \cup {NoRequest} /\ written[c] \in Nat /\ MaxChunks \in Nat
    BY <1>1, BoundAssumption DEF DeviceTypes
  <2>2. ChunkFor(c)
    BY DEF ServerSide
  <2>3. <<>> \in Seq(Answers)
    OBVIOUS
  <2>4. CASE Still(c) \/ MovesOn(c) \/ Opens(c)
    BY <2>1, <2>4 DEF Still, MovesOn, Opens
  <2>5. CASE Takes(c)
    BY <2>1, <2>3, <2>5 DEF Takes
  <2>6. CASE Replies(c)
    <3>1. buffer[c] \in Answers
      BY <2>2, <2>6 DEF ChunkFor, Replies
    <3> QED
      BY <2>1, <2>6, <3>1 DEF Replies
  <2>7. CASE Puts(c)
    <3>1. PICK kind \in Kind :
            outbox'[c] = Append(outbox[c], [from |-> c, n |-> sent[c] + 1, kind |-> kind])
      BY <2>7 DEF Puts
    <3>2. sent[c] < MaxChunks /\ sent'[c] = sent[c] + 1
      BY <2>7 DEF Puts
    <3>3. [from |-> c, n |-> sent[c] + 1, kind |-> kind] \in ClientChunk
      BY <2>1, <3>2 DEF ClientChunk
    <3> QED
      BY <2>1, <2>7, <3>1, <3>2, <3>3 DEF Puts
  <2>8. CASE Enters(c)
    <3>1. asked'[c] \in SeekTo \cup {NoRequest}
      <4>1. PICK r \in SystemCall(c) :
              asked' = CASE r.op = "write" -> [asked EXCEPT ![c] = NoRequest]
                       [] r.op = "ioctl" -> [asked EXCEPT ![c] = r.seekto]
                       [] r.op = "read"  -> asked
        BY <2>8 DEF EnterDriver, Enters
      <4>2. r.op \in {"write", "ioctl", "read"} /\ (r.op = "ioctl" => r.seekto \in SeekTo)
        BY <2>8 DEF SystemCall, Enters
      <4> QED
        BY <1>1, <4>1, <4>2 DEF DeviceTypes
    <3> QED
      BY <2>1, <2>8, <3>1 DEF Enters
  <2>9. CASE Leaves(c)
    BY <2>1, <2>9 DEF Leaves
  <2> QED
    BY <2>4, <2>5, <2>6, <2>7, <2>8, <2>9, StepIsOfAKind DEF Kinds
<1>6. /\ sent' \in [Conn -> 0 .. MaxChunks] /\ outbox' \in [Conn -> Seq(ClientChunk)]
      /\ got' \in [Conn -> Seq(Answers)]
      /\ asked' \in [Conn -> SeekTo \cup {NoRequest}]
      /\ written' \in [Conn -> Nat]
  BY <1>3, <1>5
<1>7. Char!Byte' = Char!Byte
  OBVIOUS
<1>8. Answers' = Answers /\ ClientChunk' = ClientChunk
  OBVIOUS
<1> QED
  BY <1>2, <1>4, <1>6, <1>8 DEF DeviceTypes

\* Who has come stays.
LEMMA ArrivedStays ==
  ASSUME ServerSide, [NextOnDevice]_allvars, NEW c \in Conn
  PROVE  Arrived(c) => Arrived(c)'
<1>1. CASE UNCHANGED client
  BY <1>1 DEF Arrived
<1>2. ASSUME NEW d \in Conn, NEW s \in {"open", "closed"}, client' = [client EXCEPT ![d] = s]
      PROVE  Arrived(c) => Arrived(c)'
  BY <1>2 DEF Arrived, ServerSide, ThreadInv, ThreadTypes
<1>3. ASSUME NEW d \in Conn, Serve(d) \/ OnDevice(d) PROVE UNCHANGED client
  BY <1>3 DEF Serve, OpenFails, CallRecv, Receive, RecvEnds, Send, CloseSocket, WorkDone, clients,
     OnDevice, OpenDevice, EnterDriver, LeaveDriver, CloseDevice, vars
<1>4. ASSUME NEW d \in Conn, Client(d)
      PROVE  UNCHANGED client \/ \E s \in {"open", "closed"} : client' = [client EXCEPT ![d] = s]
  BY <1>4 DEF Client, Accept, ClientSends, ClientCloses
<1>5. ASSUME MainStep \/ Signal \/ (\E t \in Conn \cup {Main} : Cleanup(t)) \/ Rest PROVE UNCHANGED client
  BY <1>5 DEF MainStep, SetUp, Start, CreateSocket, Bind, ListenOn, CreateStamper, Create,
              Insert, Scan, Join, RemoveJoined, Signal, Cleanup, TestList, TakeFirst,
              RemoveHead, RemoveHeadCrashes, JoinThread, JoinFails, Exit, Rest, clients, vars
<1>6. CASE UNCHANGED vars
  BY <1>1, <1>6 DEF vars, clients
<1> QED
  BY <1>1, <1>2, <1>3, <1>4, <1>5, <1>6, StepKinds DEF ServerStep

\* The chunks of a connection are handled in the order they were sent.
LEMMA ChunksKept ==
  ASSUME OneAtATime, ServerSide, Char!StreamInv, [NextOnDevice]_allvars, NEW c \in Conn
  PROVE  ChunkFor(c)'
<1>1. /\ DeviceTypes /\ ChunkFor(c) /\ (Arrived(c) => Arrived(c)') /\ UseCharDevice /\ MaxChunks \in Nat
      /\ Answers' = Answers /\ ClientChunk' = ClientChunk /\ Socket(c)' = Socket(c)
  BY ArrivedStays, BoundAssumption DEF ServerSide, OneAtATime
<1>2. sent[c] \in 0 .. MaxChunks /\ outbox[c] \in Seq(ClientChunk)
  BY <1>1 DEF DeviceTypes
<1>3. CASE Still(c)
  BY <1>1, <1>3 DEF Still, ChunkFor, Received
<1>4. CASE MovesOn(c)
  BY <1>1, <1>4 DEF MovesOn, ChunkFor, Received
<1>5. CASE Opens(c)
  BY <1>1, <1>5 DEF Opens, ChunkFor, Received
<1>6. CASE Replies(c)
  BY <1>1, <1>6 DEF Replies, ChunkFor, Received
<1>7. CASE Enters(c)
  BY <1>1, <1>7 DEF Enters, ChunkFor, Received
<1>8. CASE Leaves(c)
  <2>1. frame[c].retval \in Int /\ frame[c].given \in Seq(Char!Byte)
    <3>1. Char!Typed
      BY DEF Char!StreamInv, Char!HeapInv
    <3> QED
      BY <3>1, DeviceUsers DEF Char!Typed, Char!Frame
  <2>2. /\ UNCHANGED <<on[c], sent[c], outbox[c], got[c], asked[c]>>
        /\ pc'[c] \in {"cleanup", "recv", "read", "send"}
        /\ pc'[c] = "send" => buffer'[c] = Excerpt(frame[c].given)
    BY <1>1, <1>8, <2>1 DEF Leaves, Answer
  <2>3. pc'[c] = "send" => buffer'[c] \in Answers
    BY <2>1, <2>2 DEF Answers, Excerpt
  <2> QED
    BY <1>1, <2>2, <2>3 DEF ChunkFor, Received
<1>9. CASE Takes(c)
  <2>1. /\ outbox[c] # <<>> /\ outbox'[c] = Tail(outbox[c]) /\ sent'[c] = sent[c]
        /\ pc'[c] \in {"write", "ioctl"} /\ buffer'[c] = Head(outbox[c]) /\ got'[c] = <<>>
    BY <1>9 DEF Takes
  <2>2. /\ Len(outbox'[c]) = Len(outbox[c]) - 1 /\ Len(outbox[c]) \in Nat \ {0}
        /\ \A i \in 1 .. Len(outbox'[c]) : outbox'[c][i] = outbox[c][i + 1] /\ i + 1 \in 1 .. Len(outbox[c])
        /\ Head(outbox[c]) = outbox[c][1] /\ Head(outbox[c]) \in ClientChunk
    BY <1>2, <2>1
  <2>3. Received(c) \in Int /\ Received(c)' = Received(c) + 1
    BY <1>2, <2>1, <2>2 DEF Received
  <2>4. \A i \in 1 .. Len(outbox[c]) : outbox[c][i].from = c /\ outbox[c][i].n = Received(c) + i
    BY <1>1 DEF ChunkFor
  <2>5. ASSUME NEW i \in 1 .. Len(outbox'[c])
        PROVE  outbox'[c][i].from = c /\ outbox'[c][i].n = Received(c)' + i
    <3>1. outbox'[c][i].from = c /\ outbox'[c][i].n = Received(c) + (i + 1)
      BY <2>2, <2>4
    <3> QED
      BY <2>3, <3>1
  <2>6. Head(outbox[c]).from = c /\ Head(outbox[c]).n = Received(c) + 1
    BY <2>2, <2>4
  <2>7. Arrived(c)
    BY <1>1, <2>1 DEF ChunkFor
  <2> QED
    BY <1>1, <2>1, <2>2, <2>3, <2>5, <2>6, <2>7 DEF ChunkFor
<1>10. CASE Puts(c)
  <2>1. PICK kind \in Kind :
          outbox'[c] = Append(outbox[c], [from |-> c, n |-> sent[c] + 1, kind |-> kind])
    BY <1>10 DEF Puts
  <2>2. /\ Arrived(c) /\ sent'[c] = sent[c] + 1
        /\ UNCHANGED <<pc[c], buffer[c], on[c], got[c], asked[c], written[c]>>
    BY <1>10 DEF Puts
  <2>3. /\ Len(outbox'[c]) = Len(outbox[c]) + 1 /\ Len(outbox[c]) \in Nat
        /\ \A i \in 1 .. Len(outbox[c]) : outbox'[c][i] = outbox[c][i]
        /\ outbox'[c][Len(outbox[c]) + 1] = [from |-> c, n |-> sent[c] + 1, kind |-> kind]
    BY <1>2, <2>1
  <2>4. Received(c) \in Int /\ Received(c)' = Received(c)
    BY <1>2, <2>2, <2>3 DEF Received
  <2>5. ASSUME NEW i \in 1 .. Len(outbox'[c])
        PROVE  outbox'[c][i].from = c /\ outbox'[c][i].n = Received(c) + i
    <3>1. CASE i \in 1 .. Len(outbox[c])
      BY <1>1, <2>3, <3>1 DEF ChunkFor
    <3>2. CASE i = Len(outbox[c]) + 1
      <4>1. outbox'[c][i].from = c /\ outbox'[c][i].n = sent[c] + 1
        BY <2>3, <3>2
      <4>2. Received(c) + i = sent[c] + 1
        BY <1>2, <2>3, <3>2 DEF Received
      <4> QED
        BY <4>1, <4>2
    <3> QED
      BY <2>3, <3>1, <3>2
  <2> QED
    BY <1>1, <2>2, <2>4, <2>5 DEF ChunkFor
<1> QED
  BY <1>3, <1>4, <1>5, <1>6, <1>7, <1>8, <1>9, <1>10, StepIsOfAKind DEF Kinds

----------------------------------------------------------------------------
(* What a step does to a user of the driver.                               *)

\* It stays where it is.
Rests(u) == UNCHANGED <<dpc[u], req[u], frame[u]>>

\* It takes a step in the driver.
Works(u) ==
  /\ DriverStep(u) /\ UNCHANGED <<vars, asked, written>>
  /\ dpc[u] \notin {"user", "return"} /\ dpc'[u] # "user" /\ req' = req

\* It enters the driver, and it leaves.
Calls(u, r) ==
  /\ Char!Call(u, r) /\ r \in Char!Request /\ UNCHANGED dropped
  /\ dpc[u] = "user" /\ dpc'[u] = "lock" /\ req'[u] = r

Returns(u) ==
  /\ Char!Return(u) /\ UNCHANGED dropped
  /\ dpc[u] = "return" /\ dpc'[u] = "user"

\* Types of the driver.
LEMMA DriverTypes ==
  ASSUME Char!StreamInv
  PROVE  /\ dpc \in [User -> Char!Places]
         /\ req \in [User -> Char!Request \cup {NoRequest}]
         /\ frame \in [User -> Char!Frame]
         /\ f_pos \in [User -> Nat]
         /\ \A u \in User : /\ frame[u].retval \in Int /\ frame[u].given \in Seq(Char!Byte)
                            /\ frame[u].pos \in Nat /\ f_pos[u] \in Nat
BY DEF Char!StreamInv, Char!HeapInv, Char!HolderInv, Char!Typed, Char!Frame

\* A step inside the driver.
LEMMA StepInside ==
  ASSUME Char!StreamInv, NEW u \in User, DriverStep(u)
  PROVE  /\ dpc[u] \notin {"user", "return"} /\ dpc'[u] # "user" /\ UNCHANGED <<req, opened, loaded>>
         /\ \A t \in User \ {u} : Rests(t)
         /\ dpc'[u] = "store" => frame'[u].retval = Len(req[u].buf)
<1>1. /\ dpc \in [User -> Char!Places] /\ frame \in [User -> Char!Frame]
  BY DriverTypes
<1>2. ASSUME NEW place, dpc' = [dpc EXCEPT ![u] = place]
      PROVE  dpc'[u] = place /\ \A t \in User \ {u} : dpc'[t] = dpc[t]
  BY <1>1, <1>2
<1>3. ASSUME NEW g, frame' = [frame EXCEPT ![u] = g]
      PROVE  frame'[u] = g /\ \A t \in User \ {u} : frame'[t] = frame[t]
  BY <1>1, <1>3
<1>4. CASE Driver!Lock(u)
  <2>1. req[u] \in Char!Request
    <3>1. dpc[u] = "lock"
      BY <1>4 DEF Driver!Lock
    <3> QED
      BY <3>1 DEF Char!StreamInv, Char!HeapInv, Char!HolderInv, Char!InCall
  <2>2. Char!FirstPlace(req[u].op) \in {"copy_out", "alloc", "size", "adjust"}
    BY <2>1 DEF Char!Request, Char!FirstPlace
  <2>3. dpc[u] = "lock" /\ UNCHANGED <<req, frame, opened, loaded>>
        /\ dpc' = [dpc EXCEPT ![u] = Char!FirstPlace(req[u].op)]
    BY <1>4 DEF Driver!Lock, Driver!Goto, Driver!FirstPlace, Char!FirstPlace
  <2> QED
    BY <1>2, <2>2, <2>3 DEF Rests
<1>5. CASE Driver!CopyOut(u) \/ Driver!Alloc(u) \/ Driver!AllocFails(u) \/ Driver!AdjustOffset(u)
             \/ Driver!AdjustRefused(u)
  <2>1. /\ dpc[u] \notin {"user", "return"} /\ UNCHANGED <<req, opened, loaded>>
        /\ \E place \in {"unlock", "copy_in"} : dpc' = [dpc EXCEPT ![u] = place]
        /\ \E g : frame' = [frame EXCEPT ![u] = g]
    BY <1>5 DEF Driver!CopyOut, Driver!Alloc, Driver!AllocFails, Driver!AdjustOffset,
         Driver!AdjustRefused, Driver!At, Driver!Goto, Driver!ExitWith
  <2> QED
    BY <1>2, <1>3, <2>1 DEF Rests
<1>6. CASE Driver!CachePartial(u) \/ Driver!AddCommand(u)
  <2>1. /\ dpc[u] \notin {"user", "return"} /\ UNCHANGED <<req, frame, opened, loaded>>
        /\ dpc' = [dpc EXCEPT ![u] = "unlock"]
    BY <1>6 DEF Driver!CachePartial, Driver!AddCommand, Driver!At, Driver!Goto
  <2> QED
    BY <1>2, <2>1 DEF Rests
<1>7. CASE Driver!Unlock(u)
  <2>1. /\ dpc[u] = "unlock" /\ UNCHANGED <<req, frame, opened, loaded>>
        /\ \E place \in {"seek", "return"} : dpc' = [dpc EXCEPT ![u] = place]
    BY <1>7 DEF Driver!Unlock, Driver!Goto
  <2> QED
    BY <1>2, <2>1 DEF Rests
<1>8. CASE Driver!CopyIn(u) /\ frame'[u].retval = Len(req[u].buf)
  <2>1. /\ dpc[u] = "copy_in" /\ UNCHANGED <<req, opened, loaded>>
        /\ dpc' = [dpc EXCEPT ![u] = "store"]
        /\ \E g : frame' = [frame EXCEPT ![u] = g]
    BY <1>8 DEF Driver!CopyIn, Driver!At, Driver!Goto
  <2> QED
    BY <1>2, <1>3, <1>8, <2>1 DEF Rests
<1> QED
  BY <1>4, <1>5, <1>6, <1>7, <1>8 DEF DriverStep, InDriver

\* The call a thread makes: on its own file.
LEMMA EntersCalls ==
  ASSUME ServerSide, Char!StreamInv, NEW c \in Conn, EnterDriver(c)
  PROVE  \E r : /\ Calls(c, r) /\ UNCHANGED <<vars, written, dropped>> /\ r.file = c
                /\ \A t \in User \ {c} : Rests(t)
                /\ \/ /\ pc[c] = "write" /\ asked'[c] = NoRequest
                      /\ r = [op |-> "write", file |-> c, buf |-> Bytes(buffer[c])]
                   \/ /\ pc[c] = "read" /\ asked'[c] = asked[c]
                      /\ r = [op |-> "read", file |-> c, count |-> BufferSize]
                   \/ /\ pc[c] = "ioctl" /\ asked'[c] \in SeekTo
                      /\ r = [op |-> "ioctl", file |-> c, seekto |-> asked'[c]]
<1>1. /\ ThreadInv /\ OneInv /\ DeviceTable /\ DeviceTypes /\ ChunkFor(c) /\ c \in User
      /\ pc[c] \in {"write", "read", "ioctl"} /\ UNCHANGED <<vars, written, dropped>>
  BY DeviceUsers DEF ServerSide, EnterDriver, At
<1>2. fds[datafd].file = c
  <2>1. HasDevice(c) /\ pc[c] \notin {"unborn", "exited"}
    BY <1>1 DEF HasDevice, ServedPlaces
  <2>2. datafd = FileFd /\ fds[FileFd] = Device(c)
    BY <1>1, <2>1, Standing
  <2> QED
    BY <2>2 DEF Device
<1>3. PICK r \in SystemCall(c) :
        /\ Driver!Call(c, r)
        /\ asked' = CASE r.op = "write" -> [asked EXCEPT ![c] = NoRequest]
                      [] r.op = "ioctl" -> [asked EXCEPT ![c] = r.seekto]
                      [] r.op = "read"  -> asked
  BY DEF EnterDriver
<1>4. \/ /\ pc[c] = "write" /\ asked'[c] = NoRequest
         /\ r = [op |-> "write", file |-> c, buf |-> Bytes(buffer[c])]
      \/ /\ pc[c] = "read" /\ asked'[c] = asked[c]
         /\ r = [op |-> "read", file |-> c, count |-> BufferSize]
      \/ /\ pc[c] = "ioctl" /\ asked'[c] \in SeekTo
         /\ r = [op |-> "ioctl", file |-> c, seekto |-> asked'[c]]
  <2>1. CASE pc[c] = "write"
    <3>1. r = [op |-> "write", file |-> c, buf |-> Bytes(buffer[c])]
      BY <1>2, <1>3, <2>1 DEF SystemCall
    <3>2. asked' = [asked EXCEPT ![c] = NoRequest]
      BY <1>3, <3>1
    <3> QED
      BY <1>1, <2>1, <3>1, <3>2 DEF DeviceTypes
  <2>2. CASE pc[c] = "read"
    <3>1. r = [op |-> "read", file |-> c, count |-> BufferSize]
      BY <1>2, <1>3, <2>2 DEF SystemCall
    <3> QED
      BY <1>3, <2>2, <3>1
  <2>3. CASE pc[c] = "ioctl"
    <3>1. PICK s \in SeekTo : r = [op |-> "ioctl", file |-> c, seekto |-> s]
      BY <1>2, <1>3, <2>3 DEF SystemCall
    <3>2. asked' = [asked EXCEPT ![c] = s]
      BY <1>3, <3>1
    <3> QED
      BY <1>1, <2>3, <3>1, <3>2 DEF DeviceTypes
  <2> QED
    BY <1>1, <2>1, <2>2, <2>3
<1>5. r.file = c
  BY <1>4
<1>6. r \in Char!Request
  <2>1. pc[c] = "write" => buffer[c] \in ClientChunk
    BY <1>1 DEF ChunkFor
  <2> QED
    BY <1>1, <1>4, <2>1 DEF Char!Request
<1>7. Char!Call(c, r)
  BY <1>1, <1>3, SameSteps
<1>8. /\ dpc[c] = "user" /\ dpc' = [dpc EXCEPT ![c] = "lock"] /\ req' = [req EXCEPT ![c] = r]
      /\ \E g : frame' = [frame EXCEPT ![c] = g]
  BY <1>7 DEF Char!Call, Char!Goto
<1>9. dpc'[c] = "lock" /\ req'[c] = r /\ \A t \in User \ {c} : Rests(t)
  BY <1>1, <1>8, DriverTypes DEF Rests
<1> QED
  BY <1>1, <1>4, <1>5, <1>6, <1>7, <1>8, <1>9 DEF Calls

\* A call returns.
LEMMA ReturnKinds ==
  ASSUME Char!StreamInv, NEW u \in User, Driver!Return(u)
  PROVE  /\ Char!Return(u) /\ dpc[u] = "return" /\ dpc'[u] = "user"
         /\ \A t \in User \ {u} : Rests(t)
<1>1. Char!Return(u)
  BY SameSteps
<1>2. /\ dpc[u] = "return" /\ dpc' = [dpc EXCEPT ![u] = "user"]
      /\ req' = [req EXCEPT ![u] = NoRequest] /\ \E g : frame' = [frame EXCEPT ![u] = g]
  BY <1>1 DEF Char!Return, Char!Goto
<1> QED
  BY <1>1, <1>2, DriverTypes DEF Rests

\* The other process.
LEMMA OutsiderKinds ==
  ASSUME Char!StreamInv, OutsiderStep
  PROVE  /\ UNCHANGED <<vars, dropped, asked, written>> /\ \A c \in Conn : Rests(c)
         /\ \/ Char!Open(Outsider) /\ Rests(Outsider)
            \/ Char!Release(Outsider) /\ Rests(Outsider)
            \/ Calls(Outsider, [op |-> "write", file |-> Outsider, buf |-> OutsideLine])
            \/ Returns(Outsider)
<1>1. Outsider \in User /\ \A c \in Conn : c \in User \ {Outsider}
  BY DeviceUsers
<1>2. UNCHANGED <<vars, dropped, asked, written>>
  BY DEF OutsiderStep
<1>3. CASE Driver!Open(Outsider) \/ Driver!Release(Outsider)
  <2>1. Char!Open(Outsider) \/ Char!Release(Outsider)
    BY <1>1, <1>3, SameSteps
  <2>2. UNCHANGED <<dpc, req, frame>>
    BY <2>1 DEF Char!Open, Char!Release
  <2> QED
    BY <1>2, <2>1, <2>2 DEF Rests
<1>4. CASE Driver!Return(Outsider)
  BY <1>1, <1>2, <1>4, ReturnKinds DEF Returns
<1> DEFINE r == [op |-> "write", file |-> Outsider, buf |-> OutsideLine]
<1>5. CASE Driver!Call(Outsider, r)
  <2>1. r \in Char!Request /\ Char!Call(Outsider, r)
    BY <1>1, <1>5, SameSteps DEF Char!Request
  <2> HIDE DEF r
  <2>2. /\ dpc[Outsider] = "user" /\ dpc' = [dpc EXCEPT ![Outsider] = "lock"]
        /\ req' = [req EXCEPT ![Outsider] = r]
        /\ \E g : frame' = [frame EXCEPT ![Outsider] = g]
    BY <2>1 DEF Char!Call, Char!Goto
  <2>3. dpc'[Outsider] = "lock" /\ req'[Outsider] = r /\ \A c \in Conn : Rests(c)
    BY <1>1, <2>2, DriverTypes DEF Rests
  <2>4. Calls(Outsider, r)
    BY <1>2, <2>1, <2>2, <2>3 DEF Calls
  <2>5. Calls(Outsider, [op |-> "write", file |-> Outsider, buf |-> OutsideLine])
    BY <2>4 DEF r
  <2> QED
    BY <1>2, <2>3, <2>5
<1> QED
  BY <1>3, <1>4, <1>5 DEF OutsiderStep

\* Every step, seen from one connection and its place in the driver.
LEMMA TwoKinds ==
  ASSUME OneAtATime, ServerSide, Char!StreamInv, [NextOnDevice]_allvars, NEW c \in Conn
  PROVE  \/ Rests(c) /\ (Still(c) \/ MovesOn(c) \/ Takes(c) \/ Replies(c) \/ Puts(c) \/ Opens(c))
         \/ Works(c) /\ Still(c)
         \/ Enters(c)
         \/ Leaves(c) /\ Returns(c)
<1>1. c \in User /\ c # Outsider /\ CallFor(c)
  BY DeviceUsers DEF ServerSide
<1>2. Kinds(c)
  BY StepIsOfAKind
<1>3. CASE EnterDriver(c)
  <2>1. pc[c] \in {"write", "read", "ioctl"} /\ UNCHANGED <<vars, written>>
    BY <1>3 DEF EnterDriver, At
  <2> QED
    BY <1>3, <2>1 DEF Enters, vars, locals, clients
<1>4. CASE LeaveDriver(c)
  <2>1. Driver!Return(c) /\ UNCHANGED dropped
    BY <1>4 DEF LeaveDriver
  <2>2. Returns(c)
    BY <1>1, <2>1, ReturnKinds DEF Returns
  <2>3. pc[c] \in {"write", "read", "ioctl"} /\ pc'[c] # pc[c]
    <3>1. pc[c] \in {"write", "read", "ioctl"}
      BY <1>1, <2>2 DEF Returns, CallFor
    <3>2. \E place : place # pc[c] /\ Goto(c, place)
      BY <1>4, <3>1 DEF LeaveDriver, Answer, OneAtATime
    <3>3. PICK place : place # pc[c] /\ Goto(c, place)
      BY <3>2
    <3>4. pc'[c] = place
      BY <3>3, WorkerMoved DEF ServerSide, ThreadInv
    <3> QED
      BY <3>1, <3>3, <3>4
  <2>4. Leaves(c)
    BY <1>2, <2>3 DEF Kinds, Still, MovesOn, Takes, Replies, Puts, Opens, Enters
  <2> QED
    BY <2>2, <2>4
<1>5. CASE ~EnterDriver(c) /\ ~LeaveDriver(c)
  <2>1. Still(c) \/ MovesOn(c) \/ Takes(c) \/ Replies(c) \/ Puts(c) \/ Opens(c)
    BY <1>2, <1>5 DEF Kinds, Enters, Leaves
  <2>2. CASE ServerStep \/ UNCHANGED allvars \/ Driver!Load
    <3>1. UNCHANGED <<dpc, req, frame>>
      BY <2>2 DEF ServerStep, allvars, device, Driver!Load
    <3> QED
      BY <2>1, <3>1 DEF Rests
  <2>3. ASSUME NEW d \in Conn, OnDevice(d) PROVE Rests(c)
    <3>1. CASE OpenDevice(d) \/ CloseDevice(d)
      BY <3>1 DEF OpenDevice, CloseDevice, Driver!Open, Driver!Release, Rests
    <3>2. CASE EnterDriver(d)
      BY <1>1, <1>5, <3>2, EntersCalls
    <3>3. CASE LeaveDriver(d)
      <4>1. Driver!Return(d) /\ d \in User /\ c \in User \ {d}
        BY <1>1, <1>5, <3>3, DeviceUsers DEF LeaveDriver
      <4> QED
        BY <4>1, ReturnKinds
    <3> QED
      BY <2>3, <3>1, <3>2, <3>3 DEF OnDevice
  <2>4. ASSUME NEW u \in User, DriverStep(u)
        PROVE  (Rests(c) \/ Works(c)) /\ Still(c)
    <3>1. UNCHANGED <<vars, asked, written>>
      BY <2>4 DEF DriverStep
    <3>2. Still(c)
      BY <3>1 DEF vars, locals, clients, Still
    <3>3. Rests(c) \/ Works(c)
      <4>1. CASE u = c
        BY <2>4, <3>1, <4>1, StepInside DEF Works
      <4>2. CASE u # c
        BY <1>1, <2>4, <4>2, StepInside
      <4> QED
        BY <4>1, <4>2
    <3> QED
      BY <3>2, <3>3
  <2>5. CASE OutsiderStep
    BY <2>1, <2>5, OutsiderKinds
  <2> QED
    BY <2>1, <2>2, <2>3, <2>4, <2>5 DEF NextOnDevice
<1> QED
  BY <1>3, <1>4, <1>5

\* Calls stay what their callers have made them.
LEMMA CallsKept ==
  ASSUME OneAtATime, ServerSide, Char!StreamInv, [NextOnDevice]_allvars
  PROVE  DriverCalls' /\ \A c \in Conn : CallFor(c)'
<1>1. DriverCalls /\ DeviceTypes
  BY DEF ServerSide
<1>2. ASSUME NEW c \in Conn
      PROVE  CallFor(c)' /\ (dpc'[c] = "store" => frame'[c].retval = Len(req'[c].buf))
  <2>1. CallFor(c) /\ ChunkFor(c) /\ c \in User /\ (dpc[c] = "store" => frame[c].retval = Len(req[c].buf))
    BY <1>1, DeviceUsers DEF ServerSide, DriverCalls
  <2>2. CASE Rests(c) /\ (Still(c) \/ Puts(c))
    BY <2>1, <2>2 DEF Rests, Still, Puts, CallFor
  <2>3. CASE Rests(c) /\ (MovesOn(c) \/ Takes(c) \/ Replies(c) \/ Opens(c))
    <3>1. dpc[c] = "user" /\ dpc'[c] = "user"
      BY <2>1, <2>3 DEF MovesOn, Takes, Replies, Opens, CallFor, Rests
    <3> QED
      BY <3>1 DEF CallFor
  <2>4. CASE Works(c) /\ Still(c)
    <3>1. req' = req /\ dpc[c] # "user" /\ (dpc'[c] = "store" => frame'[c].retval = Len(req[c].buf))
      BY <2>1, <2>4, StepInside DEF Works
    <3> QED
      BY <2>1, <2>4, <3>1 DEF Still, CallFor
  <2>5. CASE Enters(c)
    <3>1. UNCHANGED <<pc[c], buffer[c]>> /\ EnterDriver(c)
      BY <2>5 DEF Enters
    <3>2. PICK r : /\ Calls(c, r)
                   /\ \/ /\ pc[c] = "write" /\ asked'[c] = NoRequest
                         /\ r = [op |-> "write", file |-> c, buf |-> Bytes(buffer[c])]
                      \/ /\ pc[c] = "read" /\ asked'[c] = asked[c]
                         /\ r = [op |-> "read", file |-> c, count |-> BufferSize]
                      \/ /\ pc[c] = "ioctl" /\ asked'[c] \in SeekTo
                         /\ r = [op |-> "ioctl", file |-> c, seekto |-> asked'[c]]
      BY <3>1, EntersCalls
    <3>3. dpc'[c] = "lock" /\ req'[c] = r
      BY <3>2 DEF Calls
    <3>4. Bytes(buffer[c])' = Bytes(buffer[c])
      BY <3>1 DEF Bytes
    <3> QED
      BY <3>1, <3>2, <3>3, <3>4 DEF CallFor
  <2>6. CASE Returns(c)
    BY <2>6 DEF CallFor, Returns
  <2> QED
    BY <2>2, <2>3, <2>4, <2>5, <2>6, TwoKinds
<1>3. Outsider \in User /\ \A c \in Conn : c # Outsider
  BY DeviceUsers
<1>4. /\ dpc'[Outsider] # "user" =>
           req'[Outsider] = [op |-> "write", file |-> Outsider, buf |-> OutsideLine]
      /\ dpc'[Outsider] = "store" => frame'[Outsider].retval = Len(req'[Outsider].buf)
  <2>1. CASE Rests(Outsider)
    BY <1>1, <1>3, <2>1 DEF Rests, DriverCalls
  <2>2. CASE Works(Outsider)
    BY <1>1, <1>3, <2>2, StepInside DEF Works, DriverCalls
  <2>3. CASE Calls(Outsider, [op |-> "write", file |-> Outsider, buf |-> OutsideLine]) \/ Returns(Outsider)
    BY <2>3 DEF Calls, Returns
  <2>4. Rests(Outsider) \/ Works(Outsider) \/ Returns(Outsider)
          \/ Calls(Outsider, [op |-> "write", file |-> Outsider, buf |-> OutsideLine])
    <3>1. CASE ServerStep \/ UNCHANGED allvars \/ Driver!Load
      BY <3>1 DEF ServerStep, allvars, device, Driver!Load, Rests
    <3>2. ASSUME NEW d \in Conn, OnDevice(d) PROVE Rests(Outsider)
      <4>1. CASE OpenDevice(d) \/ CloseDevice(d)
        BY <4>1 DEF OpenDevice, CloseDevice, Driver!Open, Driver!Release, Rests
      <4>2. CASE EnterDriver(d)
        BY <1>3, <4>2, EntersCalls
      <4>3. CASE LeaveDriver(d)
        <5>1. Driver!Return(d) /\ d \in User /\ Outsider \in User \ {d}
          BY <1>3, <4>3, DeviceUsers DEF LeaveDriver
        <5> QED
          BY <5>1, ReturnKinds
      <4> QED
        BY <3>2, <4>1, <4>2, <4>3 DEF OnDevice
    <3>3. ASSUME NEW u \in User, DriverStep(u) PROVE Rests(Outsider) \/ Works(Outsider)
      <4>1. CASE u = Outsider
        BY <1>3, <3>3, <4>1, StepInside DEF Works, DriverStep
      <4>2. CASE u # Outsider
        BY <1>3, <3>3, <4>2, StepInside
      <4> QED
        BY <4>1, <4>2
    <3>4. CASE OutsiderStep
      BY <3>4, OutsiderKinds
    <3> QED
      BY <3>1, <3>2, <3>3, <3>4 DEF NextOnDevice
  <2> QED
    BY <2>1, <2>2, <2>3, <2>4
<1>5. OutsideLine' = OutsideLine
  OBVIOUS
<1> QED
  BY <1>2, <1>3, <1>4, <1>5, DeviceUsers DEF DriverCalls

----------------------------------------------------------------------------
(* The driver's part of a step is a step of the driver.                    *)

\* Every step is one of the driver, or changes nothing of it.
LEMMA StepIsDrivers ==
  ASSUME OneAtATime, ServerSide, Char!StreamInv, [NextOnDevice]_allvars
  PROVE  [Char!Next]_(Char!vars)
<1>1. \A c \in Conn : c \in User
  BY DeviceUsers
<1>2. CASE ServerStep \/ UNCHANGED allvars
  BY <1>2 DEF ServerStep, allvars, device, Char!vars
<1>3. ASSUME NEW c \in Conn, OnDevice(c) PROVE Char!Next
  <2>1. CASE OpenDevice(c)
    BY <1>1, <1>3, <2>1, SameSteps DEF OpenDevice, Char!Next
  <2>2. CASE EnterDriver(c)
    BY <1>1, <1>3, <2>2, EntersCalls DEF Calls, Char!Next
  <2>3. CASE LeaveDriver(c)
    <3>1. Char!Return(c)
      BY <1>1, <1>3, <2>3, SameSteps DEF LeaveDriver
    <3> QED
      BY <1>1, <3>1 DEF Char!Next, Char!Proceed
  <2>4. CASE CloseDevice(c)
    <3>1. pc[c] = "close_data" /\ HasDevice(c)
      BY <2>4 DEF CloseDevice, At, HasDevice, ServedPlaces
    <3>2. datafd = FileFd /\ fds[FileFd] = Device(c)
      BY <3>1, Standing DEF ServerSide
    <3>3. fds[datafd].file = c
      BY <3>2 DEF Device
    <3>4. Char!Release(c)
      BY <1>1, <2>4, <3>3, SameSteps DEF CloseDevice
    <3> QED
      BY <1>1, <3>4 DEF Char!Next
  <2> QED
    BY <1>3, <2>1, <2>2, <2>3, <2>4 DEF OnDevice
<1>4. ASSUME NEW u \in User, DriverStep(u) PROVE Char!Next
  BY <1>4, SameSteps DEF DriverStep, InDriver, Char!Next, Char!Proceed, Char!Body
<1>5. CASE OutsiderStep
  BY <1>5, OutsiderKinds, DeviceUsers DEF Calls, Returns, Char!Next, Char!Proceed
<1>6. CASE Driver!Load
  BY <1>6, SameOthers DEF Char!Next
<1> QED
  BY <1>2, <1>3, <1>4, <1>5, <1>6 DEF NextOnDevice

LEMMA NothingInterrupts == {} \subseteq {"llseek"}
OBVIOUS

\* The invariant is inductive.
LEMMA StepKeepsSides ==
  ASSUME OneAtATime, ServerSide, Char!StreamInv, [NextOnDevice]_allvars
  PROVE  ServerSide' /\ Char!StreamInv'
<1>1. Char!StreamInv'
  <2>1. [Char!Next]_(Char!vars)
    BY StepIsDrivers
  <2> QED
    BY <2>1, SameAssumptions, NothingInterrupts, Char!StepKeepsStream
<1> QED
  BY <1>1, DeviceKeepsThreads, StepKeepsBoth, TypesKept, CallsKept, ChunksKept DEF ServerSide

\* It holds at first.
LEMMA InitHasSides == ASSUME OneAtATime, InitOnDevice PROVE ServerSide /\ Char!StreamInv
<1>1. Init /\ Driver!Init /\ outside = 0 /\ dropped = [c \in Conn |-> FALSE]
      /\ asked = [c \in Conn |-> NoRequest] /\ written = [c \in Conn |-> 0]
  BY DEF InitOnDevice
<1>2. Char!StreamInv
  BY <1>1, SameOthers, SameAssumptions, NothingInterrupts, Char!InitStream
<1>3. ThreadInv
  BY <1>1, InitHasThreads
<1>4. pc[Main] = "start" /\ \A c \in Conn : pc[c] = "unborn" /\ ~Arrived(c)
  BY <1>1, ThreadKinds DEF Init, Arrived
<1>5. OneInv
  BY <1>4 DEF OneInv, DevicePlaces, MainPlaces, SetUpPlaces
<1>6. DeviceTable
  <2>1. ~HasListen /\ Below = 3 /\ \A c \in Conn : ~Connected(c) /\ ~HasDevice(c)
    BY <1>4 DEF HasListen, Below, Connected, HasDevice, ServedPlaces, CleanupPlaces
  <2>2. \A n \in Fd : (n < 3 => fds[n] = Tty) /\ (n >= 3 => fds[n] = Closed)
    BY <1>1, Table DEF Init, Standard
  <2> QED
    BY <2>1, <2>2 DEF DeviceTable
<1>7. DeviceTypes
  <2>1. <<>> \in Seq(ClientChunk) /\ <<>> \in Seq(Answers)
    OBVIOUS
  <2>2. 0 \in 0 .. MaxChunks
    BY BoundAssumption
  <2> QED
    BY <1>1, <2>1, <2>2 DEF DeviceTypes, Init, Standard
<1>8. \A u \in User : dpc[u] = "user"
  BY <1>1 DEF Driver!Init
<1>9. DriverCalls /\ \A c \in Conn : CallFor(c)
  BY <1>8, DeviceUsers DEF DriverCalls, CallFor
<1>10. \A c \in Conn : ChunkFor(c)
  BY <1>1, <1>4 DEF ChunkFor, Init, Received
<1> QED
  BY <1>2, <1>3, <1>5, <1>6, <1>7, <1>9, <1>10 DEF ServerSide

\* So it holds throughout.
LEMMA SidesKept == ASSUME OneAtATime PROVE SpecOnDevice => [](ServerSide /\ Char!StreamInv)
<1>1. ASSUME InitOnDevice PROVE ServerSide /\ Char!StreamInv
  BY <1>1, InitHasSides
<1>2. ASSUME ServerSide /\ Char!StreamInv, [NextOnDevice]_allvars
      PROVE  (ServerSide /\ Char!StreamInv)'
  BY <1>2, StepKeepsSides
<1> QED
  BY <1>1, <1>2, PTL DEF SpecOnDevice

----------------------------------------------------------------------------
\* What the server and the other process do to the device is what some of its
\* users may do: the composition implements the driver.
THEOREM ServerUsesDriver == ASSUME OneAtATime PROVE SpecOnDevice => Driver!Spec
<1>1. ASSUME InitOnDevice PROVE Char!Init
  BY <1>1, SameOthers DEF InitOnDevice
<1>2. ASSUME ServerSide /\ Char!StreamInv, [NextOnDevice]_allvars
      PROVE  [Char!Next]_(Char!vars)
  BY <1>2, StepIsDrivers
<1>3. SpecOnDevice => Char!Spec
  BY <1>1, <1>2, SidesKept, PTL DEF SpecOnDevice, Char!Spec
<1> QED
  BY <1>3, SameDriver

\* Between two connections the device's and the client's descriptors are closed.
THEOREM DescriptorsComeBack ==
  ASSUME OneAtATime PROVE SpecOnDevice => []DescriptorsBalanced
<1>1. ASSUME ServerSide PROVE DescriptorsBalanced
  <2> SUFFICES ASSUME pc[Main] = "accept", \A c \in Conn : Idle(c), NEW n \in Fd
               PROVE  fds[n] = IF n = sockfd THEN Listen
                               ELSE IF n < 3 /\ ~Daemon THEN Tty ELSE Closed
    BY DEF DescriptorsBalanced
  <2>1. IsUp /\ HasListen /\ Below = ListenFd
    BY DEF IsUp, HasListen, Below, MainPlaces
  <2>2. \A c \in Conn : ~Connected(c) /\ ~HasDevice(c)
    <3>1. OneInv
      BY <1>1 DEF ServerSide
    <3> QED
      BY <3>1 DEF OneInv, Idle, Connected, HasDevice, DevicePlaces, ServedPlaces, CleanupPlaces, MainPlaces
  <2>3. /\ sockfd = ListenFd /\ fds[ListenFd] = Listen
        /\ n < ListenFd => fds[n] = Tty
        /\ n >= ListenFd /\ n # ListenFd => fds[n] = Closed
    BY <1>1, <2>1, <2>2 DEF ServerSide, DeviceTable
  <2>4. ListenFd = (IF Daemon THEN 0 ELSE 3) /\ n \in Nat
    BY Table DEF ListenFd
  <2> HIDE DEF ListenFd
  <2> QED
    BY <2>3, <2>4
<1> QED
  BY <1>1, SidesKept, PTL

----------------------------------------------------------------------------
(* What a step does to the stream.                                         *)

\* A step that leaves the stream alone, and one that adds to it.
StreamSame ==
  /\ Char!Commands' = Char!Commands /\ Char!Partial' = Char!Partial
  /\ Char!Stored' = Char!Stored /\ Char!Held' = Char!Held
  /\ dev' = dev \/ \A c \in Conn : ~Arrived(c)

StoresBy(u) ==
  /\ DriverStep(u) /\ (Char!AddCommand(u) \/ Char!CachePartial(u))
  /\ frame[u].retval = Len(req[u].buf) /\ dpc[u] = "store" /\ req[u].op = "write"
  /\ \/ dropped' = [c \in Conn |-> TRUE]
     \/ dropped' = dropped /\ (Char!CachePartial(u) \/ ~dev.circular_buffer.full)

\* A step that changes neither the commands nor the partial one.
LEMMA SameEnough ==
  ASSUME Char!Commands' = Char!Commands, Char!Partial' = Char!Partial,
         dev' = dev \/ \A c \in Conn : ~Arrived(c)
  PROVE  StreamSame
BY DEF StreamSame, Char!Stored, Char!Held

\* The stream changes by stores only.
LEMMA StepOnStream ==
  ASSUME OneAtATime, ServerSide, Char!StreamInv, [NextOnDevice]_allvars
  PROVE  \/ /\ StreamSame /\ \A c \in Conn : dropped'[c] = dropped[c] \/ OpenDevice(c)
            /\ \A u \in User : ~(dpc[u] = "store" /\ dpc'[u] # "store")
         \/ \E u \in User : StoresBy(u)
<1>1. DeviceTypes /\ \A c \in Conn : c \in User
  BY DeviceUsers DEF ServerSide
<1> DEFINE NoStore == \A u \in User : ~(dpc[u] = "store" /\ dpc'[u] # "store")
           Drops == \A c \in Conn : dropped'[c] = dropped[c] \/ OpenDevice(c)
<1>2. CASE ServerStep \/ UNCHANGED allvars
  <2>1. UNCHANGED Char!vars /\ dropped' = dropped
    BY <1>2 DEF ServerStep, allvars, device, aux, Char!vars
  <2>2. Char!Commands' = Char!Commands /\ Char!Partial' = Char!Partial /\ dev' = dev
    BY <2>1, SameAssumptions, Char!StreamStays
  <2>3. dpc' = dpc
    BY <2>1 DEF Char!vars
  <2> QED
    BY <2>1, <2>2, <2>3, SameEnough
<1>3. ASSUME NEW c \in Conn, OnDevice(c)
      PROVE  StreamSame /\ Drops /\ NoStore
  <2>1. CASE OpenDevice(c)
    <3>1. Char!Open(c)
      BY <1>1, <2>1, SameSteps DEF OpenDevice
    <3>2. Char!Commands' = Char!Commands /\ Char!Partial' = Char!Partial /\ dev' = dev
      BY <1>1, <3>1, SameAssumptions, Char!StreamStays
    <3>3. dpc' = dpc /\ dropped' = [dropped EXCEPT ![c] = FALSE]
      BY <2>1, <3>1 DEF Char!Open, OpenDevice
    <3>4. Drops
      BY <1>1, <2>1, <3>3 DEF DeviceTypes
    <3> QED
      BY <3>2, <3>3, <3>4, SameEnough
  <2>2. CASE EnterDriver(c)
    <3>1. PICK r : /\ Calls(c, r) /\ dropped' = dropped
                   /\ \A t \in User \ {c} : Rests(t)
      BY <2>2, EntersCalls
    <3>2. Char!Quiet(c)
      BY <3>1 DEF Calls, Char!Quiet
    <3>3. Char!Commands' = Char!Commands /\ Char!Partial' = Char!Partial /\ dev' = dev
      BY <1>1, <3>2, SameAssumptions, Char!StreamStays
    <3>4. NoStore
      BY <3>1 DEF Calls, Rests
    <3> QED
      BY <3>1, <3>3, <3>4, SameEnough
  <2>3. CASE LeaveDriver(c)
    <3>1. /\ Char!Return(c) /\ dropped' = dropped /\ dpc[c] = "return" /\ dpc'[c] = "user"
          /\ \A t \in User \ {c} : Rests(t)
      BY <1>1, <2>3, ReturnKinds DEF LeaveDriver
    <3>2. Char!Quiet(c)
      BY <3>1 DEF Char!Quiet
    <3>3. Char!Commands' = Char!Commands /\ Char!Partial' = Char!Partial /\ dev' = dev
      BY <1>1, <3>2, SameAssumptions, Char!StreamStays
    <3>4. NoStore
      BY <3>1 DEF Rests
    <3> QED
      BY <3>1, <3>3, <3>4, SameEnough
  <2>4. CASE CloseDevice(c)
    <3>1. HasDevice(c) /\ pc[c] \notin {"unborn", "exited"}
      BY <2>4 DEF CloseDevice, At, HasDevice, ServedPlaces
    <3>2. fds[datafd] = Device(c)
      BY <3>1, Standing DEF ServerSide
    <3>3. Driver!Release(c) /\ dropped' = dropped
      BY <2>4, <3>2 DEF CloseDevice, Device, aux
    <3>4. Char!Release(c)
      BY <1>1, <3>3, SameSteps
    <3>5. Char!Commands' = Char!Commands /\ Char!Partial' = Char!Partial /\ dev' = dev
      BY <1>1, <3>4, SameAssumptions, Char!StreamStays
    <3>6. dpc' = dpc
      BY <3>4 DEF Char!Release
    <3> QED
      BY <3>3, <3>5, <3>6, SameEnough
  <2> QED
    BY <1>3, <2>1, <2>2, <2>3, <2>4 DEF OnDevice
<1>4. ASSUME NEW u \in User, DriverStep(u)
      PROVE  (StreamSame /\ Drops /\ NoStore) \/ StoresBy(u)
  <2>1. \A t \in User \ {u} : Rests(t)
    BY <1>4, StepInside
  <2>2. CASE Driver!AddCommand(u) \/ Driver!CachePartial(u)
    <3>1. Char!AddCommand(u) \/ Char!CachePartial(u)
      BY <2>2, SameSteps
    <3>2. dpc[u] = "store" /\ req[u].op = "write"
      BY <3>1 DEF Char!AddCommand, Char!CachePartial, Char!At
    <3>3. frame[u].retval = Len(req[u].buf)
      BY <3>2 DEF ServerSide, DriverCalls
    <3>4. \/ dropped' = [c \in Conn |-> TRUE]
          \/ dropped' = dropped /\ (Char!CachePartial(u) \/ ~dev.circular_buffer.full)
      <4>1. CASE Driver!AddCommand(u) /\ ~Driver!CachePartial(u)
        <5>1. ~InDriver(u)
          BY <3>2, <4>1 DEF InDriver, Driver!Lock, Driver!CopyOut, Driver!Alloc, Driver!AllocFails,
               Driver!CopyIn, Driver!AdjustOffset, Driver!AdjustRefused, Driver!Unlock, Driver!At
        <5> QED
          BY <1>4, <5>1 DEF DriverStep
      <4>2. CASE Driver!CachePartial(u)
        <5>1. Char!CachePartial(u) /\ ~Driver!AddCommand(u)
          BY <4>2, SameSteps DEF Driver!CachePartial, Driver!AddCommand
        <5> QED
          BY <1>4, <5>1 DEF DriverStep
      <4> QED
        BY <2>2, <4>1, <4>2
    <3> QED
      BY <1>4, <3>1, <3>2, <3>3, <3>4 DEF StoresBy
  <2>3. CASE ~(Driver!AddCommand(u) \/ Driver!CachePartial(u))
    <3>1. /\ Driver!Lock(u) \/ Driver!CopyOut(u) \/ Driver!Alloc(u) \/ Driver!AllocFails(u)
               \/ Driver!CopyIn(u) \/ Driver!AdjustOffset(u) \/ Driver!AdjustRefused(u)
               \/ Driver!Unlock(u)
          /\ UNCHANGED dropped
      BY <1>4, <2>3 DEF DriverStep, InDriver
    <3>2. Char!Quiet(u) \/ Char!Alloc(u) \/ Char!CopyIn(u)
      BY <3>1, SameSteps DEF Char!Quiet
    <3>3. Char!Commands' = Char!Commands /\ Char!Partial' = Char!Partial /\ dev' = dev
      BY <1>1, <3>2, SameAssumptions, Char!StreamStays
    <3>4. dpc[u] # "store"
      BY <3>1 DEF Driver!Lock, Driver!CopyOut, Driver!Alloc, Driver!AllocFails,
               Driver!CopyIn, Driver!AdjustOffset, Driver!AdjustRefused, Driver!Unlock, Driver!At
    <3>5. NoStore
      BY <2>1, <3>4 DEF Rests
    <3> QED
      BY <3>1, <3>3, <3>5, SameEnough
  <2> QED
    BY <2>2, <2>3
<1>5. CASE OutsiderStep
  <2>1. dropped' = dropped /\ Outsider \in User /\ \A c \in Conn : Rests(c)
    BY <1>5, OutsiderKinds, DeviceUsers
  <2>2. \/ (Char!Open(Outsider) \/ Char!Release(Outsider)) /\ Rests(Outsider)
        \/ Char!Quiet(Outsider) /\ dpc[Outsider] # "store"
    BY <1>5, OutsiderKinds DEF Calls, Returns, Char!Quiet
  <2>3. Char!Commands' = Char!Commands /\ Char!Partial' = Char!Partial /\ dev' = dev
    BY <2>1, <2>2, SameAssumptions, Char!StreamStays
  <2>4. NoStore
    BY <2>1, <2>2, DeviceUsers DEF Rests
  <2> QED
    BY <2>1, <2>3, <2>4, SameEnough
<1>6. CASE Driver!Load /\ UNCHANGED <<vars, aux>>
  <2>1. Char!Load
    BY <1>6, SameOthers
  <2>2. Char!Commands' = Char!Commands /\ Char!Partial' = Char!Partial
    BY <2>1, SameAssumptions, Char!LoadHidden
  <2>3. ~loaded /\ dpc' = dpc /\ dropped' = dropped
    BY <1>6, <2>1 DEF Char!Load, aux
  <2>4. \A c \in Conn : ~Arrived(c)
    BY <2>3 DEF ServerSide, OneInv
  <2> QED
    BY <2>2, <2>3, <2>4, SameEnough
<1> QED
  BY <1>2, <1>3, <1>4, <1>5, <1>6 DEF NextOnDevice

----------------------------------------------------------------------------
(* The bytes of one connection in a sequence of bytes.                     *)

\* Where they are.
Mine(s, c) == {i \in DOMAIN s : s[i] # NL /\ s[i].from = c}

\* They are in the order they were sent in, up to the last.
InOrder(s, c, last) ==
  /\ \A i \in Mine(s, c) : s[i].n <= last
  /\ \A i, j \in Mine(s, c) : i < j => s[i].n < s[j].n

\* They are places of the sequence, finitely many.
LEMMA MineTyped ==
  ASSUME NEW s \in Seq(Char!Byte), NEW c \in Conn
  PROVE  /\ IsFiniteSet(Mine(s, c)) /\ Cardinality(Mine(s, c)) \in Nat
         /\ \A i \in Mine(s, c) : s[i] \in ClientChunk /\ s[i].n \in Nat /\ s[i].n >= 1
<1>1. IsFiniteSet(DOMAIN s) /\ Mine(s, c) \subseteq DOMAIN s
  <2>1. DOMAIN s = 1 .. Len(s) /\ Len(s) \in Nat
    OBVIOUS
  <2> QED
    BY <2>1, FS_Interval DEF Mine
<1>2. IsFiniteSet(Mine(s, c)) /\ Cardinality(Mine(s, c)) \in Nat
  BY <1>1, FS_Subset, FS_CardinalityType
<1>3. ASSUME NEW x \in Char!Byte, x # NL, x.from = c PROVE x \in ClientChunk
  <2>1. Char!Byte = UNION {Char!ToSet(b) : b \in {Bytes(chunk) : chunk \in ClientChunk} \cup {OutsideLine}}
    BY DEF Char!Byte
  <2>2. PICK b \in {Bytes(chunk) : chunk \in ClientChunk} \cup {OutsideLine} : x \in Char!ToSet(b)
    BY <1>3, <2>1
  <2>3. CASE b = OutsideLine
    <3>1. x = [from |-> Outsider]
      BY <1>3, <2>2, <2>3 DEF OutsideLine, Char!ToSet
    <3> QED
      BY <1>3, <3>1, DeviceUsers
  <2>4. ASSUME NEW chunk \in ClientChunk, b = Bytes(chunk) PROVE x \in ClientChunk
    BY <1>3, <2>2, <2>4 DEF Bytes, Char!ToSet
  <2> QED
    BY <2>2, <2>3, <2>4
<1>4. \A i \in Mine(s, c) : s[i] \in ClientChunk
  BY <1>3 DEF Mine
<1>5. \A x \in ClientChunk : x.n \in Nat /\ x.n >= 1
  BY BoundAssumption DEF ClientChunk
<1> QED
  BY <1>2, <1>4, <1>5

\* What is left when the oldest bytes go.
LEMMA TailInOrder ==
  ASSUME NEW head \in Seq(Char!Byte), NEW s \in Seq(Char!Byte), NEW c, NEW last,
         InOrder(head \o s, c, last)
  PROVE  InOrder(s, c, last)
<1> DEFINE n == Len(head)
           all == head \o s
<1>1. n \in Nat /\ Len(s) \in Nat /\ Len(all) = n + Len(s)
      /\ \A i \in 1 .. Len(s) : all[n + i] = s[i] /\ n + i \in 1 .. Len(all)
  OBVIOUS
<1>2. DOMAIN all = 1 .. Len(all) /\ DOMAIN s = 1 .. Len(s)
  OBVIOUS
<1> HIDE DEF all, n
<1>3. \A i \in Mine(s, c) : n + i \in Mine(all, c) /\ all[n + i] = s[i] /\ i \in Nat
  BY <1>1, <1>2 DEF Mine
<1>4. InOrder(all, c, last)
  BY DEF all
<1>5. ASSUME NEW i \in Mine(s, c), NEW j \in Mine(s, c), i < j PROVE s[i].n < s[j].n
  <2>1. n + i < n + j
    BY <1>1, <1>3, <1>5
  <2> QED
    BY <1>3, <1>4, <2>1 DEF InOrder
<1> QED
  BY <1>3, <1>4, <1>5 DEF InOrder

\* What others append does not count.
LEMMA OthersAppend ==
  ASSUME NEW s \in Seq(Char!Byte), NEW more \in Seq(Char!Byte), NEW c,
         \A k \in 1 .. Len(more) : more[k] = NL \/ more[k].from # c
  PROVE  /\ Mine(s \o more, c) = Mine(s, c)
         /\ \A last : InOrder(s, c, last) => InOrder(s \o more, c, last)
<1> DEFINE n == Len(s)
           all == s \o more
<1>1. n \in Nat /\ Len(more) \in Nat /\ Len(all) = n + Len(more)
      /\ (\A i \in 1 .. n : all[i] = s[i])
      /\ \A i \in 1 .. Len(all) : i \in 1 .. n \/ (i - n \in 1 .. Len(more) /\ all[i] = more[i - n])
  OBVIOUS
<1>2. DOMAIN all = 1 .. Len(all) /\ DOMAIN s = 1 .. n
  OBVIOUS
<1> HIDE DEF all, n
<1>3. Mine(all, c) = Mine(s, c) /\ \A i \in Mine(s, c) : all[i] = s[i]
  <2>1. \A i : i \in Mine(s, c) => i \in Mine(all, c) /\ all[i] = s[i]
    BY <1>1, <1>2 DEF Mine
  <2>2. \A i : i \in Mine(all, c) => i \in Mine(s, c)
    BY <1>1, <1>2 DEF Mine
  <2> QED
    BY <2>1, <2>2
<1>4. \A last : InOrder(s, c, last) => InOrder(all, c, last)
  BY <1>3 DEF InOrder
<1> QED
  BY <1>3, <1>4 DEF all

\* Its own chunk is one more, and the last.
LEMMA OwnAppend ==
  ASSUME NEW s \in Seq(Char!Byte), NEW c \in Conn, NEW x \in ClientChunk, x.from = c, x # NL,
         NEW more \in {<<x>>, <<x, NL>>}, NEW last \in Nat, x.n = last, InOrder(s, c, last - 1)
  PROVE  /\ Cardinality(Mine(s \o more, c)) = Cardinality(Mine(s, c)) + 1
         /\ InOrder(s \o more, c, last)
<1> DEFINE n == Len(s)
           all == s \o more
<1>1. n \in Nat /\ Len(all) = n + Len(more) /\ Len(more) \in {1, 2} /\ more[1] = x
      /\ (Len(more) = 2 => more[2] = NL)
      /\ (\A i \in 1 .. n : all[i] = s[i])
      /\ \A i \in 1 .. Len(all) : i \in 1 .. n \/ all[i] = more[i - n]
  OBVIOUS
<1>2. DOMAIN all = 1 .. Len(all) /\ DOMAIN s = 1 .. n
  OBVIOUS
<1>3. all[n + 1] = x /\ n + 1 \in DOMAIN all
      /\ \A i \in DOMAIN all : i \in DOMAIN s \/ i = n + 1 \/ all[i] = NL
  <2> HIDE DEF n, all
  <2> QED
    BY <1>1, <1>2
<1> HIDE DEF all, n
<1>4. n + 1 \notin Mine(s, c)
  BY <1>1, <1>2 DEF Mine
<1>5. Mine(all, c) = Mine(s, c) \cup {n + 1} /\ \A i \in Mine(s, c) : all[i] = s[i]
  <2>1. \A i : i \in Mine(s, c) => i \in Mine(all, c) /\ all[i] = s[i]
    BY <1>1, <1>2 DEF Mine
  <2>2. \A i : i \in Mine(all, c) => i \in Mine(s, c) \/ i = n + 1
    BY <1>1, <1>2, <1>3 DEF Mine
  <2>3. n + 1 \in Mine(all, c)
    BY <1>3 DEF Mine
  <2> QED
    BY <2>1, <2>2, <2>3
<1>6. Cardinality(Mine(all, c)) = Cardinality(Mine(s, c)) + 1
  BY <1>4, <1>5, MineTyped, FS_AddElement
<1>7. \A i \in Mine(s, c) : s[i].n \in Nat /\ s[i].n <= last - 1 /\ i \in 1 .. n
  BY <1>2, MineTyped DEF InOrder, Mine
<1>8. \A i \in Mine(all, c) : all[i].n <= last
  BY <1>3, <1>5, <1>7
<1>9. ASSUME NEW i \in Mine(all, c), NEW j \in Mine(all, c), i < j PROVE all[i].n < all[j].n
  <2>1. i \in Mine(s, c)
    BY <1>1, <1>5, <1>7, <1>9
  <2>2. CASE j \in Mine(s, c)
    BY <1>5, <1>9, <2>1, <2>2 DEF InOrder
  <2>3. CASE j = n + 1
    <3>1. all[i] = s[i] /\ all[j].n = last /\ s[i].n \in Nat /\ s[i].n <= last - 1
      BY <1>3, <1>5, <1>7, <2>1, <2>3
    <3> QED
      BY <3>1
  <2> QED
    BY <1>5, <2>2, <2>3
<1> QED
  BY <1>6, <1>8, <1>9 DEF InOrder, all

----------------------------------------------------------------------------
(* What handle_connection has written is in the device.                    *)

\* A write that has stored its chunk and not yet returned.
StoredIt(c) ==
  pc[c] = "write" /\ dpc[c] \in {"unlock", "return"} /\ frame[c].retval >= 0

\* The last chunk the device can have, and how many it has got.
LastOf(c)  == IF pc[c] = "write" /\ ~StoredIt(c) THEN Received(c) - 1 ELSE Received(c)
CountOf(c) == IF StoredIt(c) THEN written[c] + 1 ELSE written[c]

\* As many as counted, unless some were dropped, and in order.
KeptFor(c) ==
  /\ InOrder(Char!Held, c, LastOf(c))
  /\ dropped[c] \/ Cardinality(Mine(Char!Held, c)) = CountOf(c)

\* Chunks are counted from one.
LEMMA ReceivedCounts ==
  ASSUME ServerSide, NEW c \in Conn
  PROVE  /\ Received(c) \in Int /\ written[c] \in Nat
         /\ pc[c] = "write" => /\ buffer[c] \in ClientChunk /\ buffer[c].from = c
                               /\ buffer[c].n = Received(c) /\ Received(c) \in Nat \ {0}
         /\ pc[c] = "receiving" /\ outbox[c] # <<>> => Received(c) >= 0
<1>1. ChunkFor(c) /\ DeviceTypes
  BY DEF ServerSide
<1>2. Received(c) \in Int /\ written[c] \in Nat /\ sent[c] \in Nat /\ outbox[c] \in Seq(ClientChunk)
  BY <1>1, BoundAssumption DEF Received, DeviceTypes
<1>3. \A x \in ClientChunk : x.n \in Nat /\ x.n >= 1
  BY BoundAssumption DEF ClientChunk
<1>4. ASSUME outbox[c] # <<>> PROVE Received(c) >= 0
  <2>1. 1 \in 1 .. Len(outbox[c]) /\ outbox[c][1] \in ClientChunk
    BY <1>2, <1>4
  <2>2. outbox[c][1].n = Received(c) + 1
    BY <1>1, <2>1 DEF ChunkFor
  <2> QED
    BY <1>2, <1>3, <2>1, <2>2
<1>5. ASSUME pc[c] = "write"
      PROVE  /\ buffer[c] \in ClientChunk /\ buffer[c].from = c
             /\ buffer[c].n = Received(c) /\ Received(c) \in Nat \ {0}
  BY <1>1, <1>3, <1>5 DEF ChunkFor
<1> QED
  BY <1>2, <1>4, <1>5

\* What a write that stores has in hand.
LEMMA WhatIsStored ==
  ASSUME ServerSide, NEW u \in User, dpc[u] = "store", req[u].op = "write"
  PROVE  \/ u = Outsider /\ req[u].buf = OutsideLine
         \/ /\ u \in Conn /\ pc[u] = "write" /\ ~StoredIt(u)
            /\ req[u].buf = Bytes(buffer[u]) /\ buffer[u] \in ClientChunk /\ buffer[u].from = u
            /\ buffer[u].n = Received(u) /\ Received(u) \in Nat \ {0}
<1>1. CASE u = Outsider
  BY <1>1 DEF ServerSide, DriverCalls
<1>2. CASE u \in Conn
  <2>1. CallFor(u) /\ req[u].op = "write"
    BY <1>2 DEF ServerSide
  <2>2. pc[u] = "write" /\ req[u] = [op |-> "write", file |-> u, buf |-> Bytes(buffer[u])]
    <3>1. [op |-> "read", file |-> u, count |-> BufferSize].op # "write"
      OBVIOUS
    <3>2. [op |-> "ioctl", file |-> u, seekto |-> asked[u]].op # "write"
      OBVIOUS
    <3> QED
      BY <2>1, <3>1, <3>2 DEF CallFor
  <2> QED
    BY <1>2, <2>2, ReceivedCounts DEF StoredIt
<1> QED
  BY <1>1, <1>2, DeviceUsers

\* A connection that nothing has been received on has nothing in the device.
LEMMA NothingYet ==
  ASSUME ServerSide, Char!StreamInv, NEW c \in Conn, InOrder(Char!Held, c, 0)
  PROVE  Cardinality(Mine(Char!Held, c)) = 0
<1>1. \A i \in Mine(Char!Held, c) : Char!Held[i].n >= 1 /\ Char!Held[i].n \in Nat
  BY SameAssumptions, Char!InvariantTyped, MineTyped
<1>2. Mine(Char!Held, c) = {}
  BY <1>1 DEF InOrder
<1> QED
  BY <1>2, FS_EmptySet

\* A store keeps what is there in order and complete, and adds its own.
LEMMA StoreKeeps ==
  ASSUME OneAtATime, ServerSide, Char!StreamInv, [NextOnDevice]_allvars,
         NEW u \in User, StoresBy(u), NEW c \in Conn, KeptFor(c)
  PROVE  KeptFor(c)'
<1> DEFINE buf == req[u].buf
           held == Char!Held
           all == held \o buf
<1>1. /\ DriverStep(u) /\ (Char!AddCommand(u) \/ Char!CachePartial(u))
      /\ frame[u].retval = Len(buf) /\ dpc[u] = "store" /\ req[u].op = "write"
      /\ \/ dropped' = [d \in Conn |-> TRUE]
         \/ dropped' = dropped /\ (Char!CachePartial(u) \/ ~dev.circular_buffer.full)
  BY DEF StoresBy
<1>2. UNCHANGED <<vars, asked, written>> /\ DeviceTypes
  BY <1>1 DEF DriverStep, ServerSide
<1>3. PICK head \in Seq(Char!Byte) :
        /\ all = head \o Char!Held'
        /\ Char!Held' \in Seq(Char!Byte)
        /\ Char!CachePartial(u) \/ ~dev.circular_buffer.full => head = <<>>
  BY <1>1, SameAssumptions, Char!StoreHolds
<1>4. held \in Seq(Char!Byte) /\ buf \in Seq(Char!Byte)
  BY <1>1, SameAssumptions, Char!InvariantTyped, Char!WholeStore
<1>5. LastOf(c) \in Int /\ CountOf(c) \in Nat /\ written[c] \in Nat /\ Received(c)' = Received(c)
      /\ Received(c) \in Int
  BY <1>2, ReceivedCounts DEF LastOf, CountOf, vars, clients, Received
<1>6. /\ InOrder(all, c, LastOf(c)')
      /\ dropped[c] \/ Cardinality(Mine(all, c)) = CountOf(c)'
  <2>1. CASE u = c
    <3>1. /\ pc[c] = "write" /\ ~StoredIt(c) /\ buf = Bytes(buffer[c])
          /\ buffer[c] \in ClientChunk /\ buffer[c].from = c
          /\ buffer[c].n = Received(c) /\ Received(c) \in Nat \ {0}
      BY <1>1, <2>1, WhatIsStored, DeviceUsers
    <3>2. buffer[c] # NL /\ buf \in {<<buffer[c]>>, <<buffer[c], NL>>}
      BY <3>1, ByteAssumption DEF Bytes
    <3>3. InOrder(held, c, Received(c) - 1)
      BY <3>1 DEF KeptFor, LastOf
    <3>4. /\ Cardinality(Mine(all, c)) = Cardinality(Mine(held, c)) + 1
          /\ InOrder(all, c, Received(c))
      <4> HIDE DEF held, buf
      <4> QED
        BY <1>4, <3>1, <3>2, <3>3, OwnAppend
    <3>5. StoredIt(c)'
      <4>1. dpc'[c] = "unlock" /\ frame' = frame
        BY <1>1, <2>1, DriverTypes DEF Char!AddCommand, Char!CachePartial, Char!Goto
      <4>2. frame[c].retval >= 0 /\ pc' = pc
        BY <1>1, <1>2, <1>4, <2>1 DEF vars
      <4> QED
        BY <3>1, <4>1, <4>2 DEF StoredIt
    <3>6. LastOf(c)' = Received(c) /\ CountOf(c)' = CountOf(c) + 1
      BY <1>2, <1>5, <3>1, <3>5 DEF LastOf, CountOf
    <3>7. dropped[c] \/ Cardinality(Mine(held, c)) = CountOf(c)
      BY DEF KeptFor
    <3> HIDE DEF all, held
    <3> QED
      BY <3>4, <3>6, <3>7
  <2>2. CASE u # c
    <3>1. buf = OutsideLine \/ \E d \in Conn \ {c} : \E x \in ClientChunk : x.from = d /\ buf = Bytes(x)
      BY <1>1, <2>2, WhatIsStored
    <3>2. \A k \in 1 .. Len(buf) : buf[k] = NL \/ buf[k].from # c
      <4>1. CASE buf = OutsideLine
        BY <4>1, DeviceUsers DEF OutsideLine
      <4>2. ASSUME NEW x \in ClientChunk, x.from # c, buf = Bytes(x)
            PROVE  \A k \in 1 .. Len(buf) : buf[k] = NL \/ buf[k].from # c
        BY <4>2 DEF Bytes
      <4> QED
        BY <3>1, <4>1, <4>2
    <3>3. /\ Mine(all, c) = Mine(held, c)
          /\ \A last : InOrder(held, c, last) => InOrder(all, c, last)
      <4> HIDE DEF held, buf
      <4> QED
        BY <1>4, <3>2, OthersAppend
    <3>4. Rests(c)
      BY <1>1, <2>2, DeviceUsers, StepInside
    <3>5. LastOf(c)' = LastOf(c) /\ CountOf(c)' = CountOf(c)
      BY <1>2, <1>5, <3>4 DEF Rests, vars, LastOf, CountOf, StoredIt
    <3> HIDE DEF all
    <3> QED
      BY <3>3, <3>5 DEF KeptFor
  <2> QED
    BY <2>1, <2>2
<1>7. InOrder(Char!Held', c, LastOf(c)')
  <2> HIDE DEF all
  <2> QED
    BY <1>3, <1>6, TailInOrder
<1>8. dropped'[c] \/ Cardinality(Mine(Char!Held', c)) = CountOf(c)'
  <2>1. CASE dropped' = [d \in Conn |-> TRUE]
    BY <2>1
  <2>2. CASE dropped' = dropped /\ (Char!CachePartial(u) \/ ~dev.circular_buffer.full)
    <3>1. all = Char!Held'
      <4> DEFINE after == Char!Held'
      <4>1. head = <<>> /\ all = head \o after /\ after \in Seq(Char!Byte)
        BY <1>3, <2>2
      <4> HIDE DEF all, after
      <4>2. all = after
        BY <4>1
      <4> QED
        BY <4>2 DEF after
    <3> QED
      BY <1>6, <2>2, <3>1
  <2> QED
    BY <1>1, <2>1, <2>2
<1>9. Mine(Char!Held, c)' = Mine(Char!Held', c)
  BY DEF Mine
<1>10. InOrder(Char!Held, c, LastOf(c))' <=> InOrder(Char!Held', c, LastOf(c)')
  BY <1>9 DEF InOrder
<1> QED
  BY <1>7, <1>8, <1>9, <1>10 DEF KeptFor

\* In a write the driver has stored the chunk when it leaves the store and not before.
LEMMA StoredStays ==
  ASSUME ServerSide, Char!StreamInv, NEW c \in Conn, Works(c), Still(c),
         ~(dpc[c] = "store" /\ dpc'[c] # "store")
  PROVE  StoredIt(c)' <=> StoredIt(c)
<1>1. c \in User /\ DriverStep(c) /\ pc' = pc /\ req' = req
  BY DeviceUsers DEF Works, vars
<1>2. CASE pc[c] # "write"
  BY <1>1, <1>2 DEF StoredIt
<1>3. CASE pc[c] = "write"
  <2>1. req[c].op = "write" /\ dpc[c] # "user" /\ dpc[c] # "store"
    <3>1. CallFor(c) /\ dpc[c] # "user"
      BY DEF ServerSide, Works
    <3>2. req[c] = [op |-> "write", file |-> c, buf |-> Bytes(buffer[c])]
      BY <1>3, <3>1 DEF CallFor
    <3>3. dpc[c] # "store"
      <4> SUFFICES ASSUME dpc[c] = "store" PROVE FALSE
        OBVIOUS
      <4>1. dpc'[c] = "store"
        OBVIOUS
      <4>2. Driver!CachePartial(c) \/ Driver!AddCommand(c)
        BY <1>1, <3>2 DEF DriverStep, InDriver, Driver!Lock, Driver!CopyOut, Driver!Alloc, Driver!AllocFails,
           Driver!CopyIn, Driver!AdjustOffset, Driver!AdjustRefused, Driver!Unlock, Driver!At
      <4>3. dpc' = [dpc EXCEPT ![c] = "unlock"]
        BY <4>2 DEF Driver!CachePartial, Driver!AddCommand, Driver!Goto
      <4> QED
        BY <1>1, <4>1, <4>3, DriverTypes
    <3> QED
      BY <3>1, <3>2, <3>3
  <2>2. \/ Driver!Lock(c) \/ Driver!Alloc(c) \/ Driver!AllocFails(c) \/ Driver!CopyIn(c)
        \/ Driver!Unlock(c)
    BY <1>1, <2>1 DEF DriverStep, InDriver, Driver!CopyOut, Driver!CachePartial, Driver!AddCommand,
       Driver!AdjustOffset, Driver!AdjustRefused, Driver!At
  <2>3. dpc \in [User -> Char!Places] /\ frame \in [User -> Char!Frame]
    BY DriverTypes
  <2>4. CASE Driver!Lock(c)
    <3>1. dpc[c] = "lock" /\ dpc' = [dpc EXCEPT ![c] = "alloc"]
      BY <2>1, <2>4 DEF Driver!Lock, Driver!Goto, Driver!FirstPlace
    <3> QED
      BY <1>1, <2>3, <3>1 DEF StoredIt
  <2>5. CASE Driver!Alloc(c)
    <3>1. dpc[c] = "alloc" /\ dpc' = [dpc EXCEPT ![c] = "copy_in"]
      BY <2>5 DEF Driver!Alloc, Driver!Goto, Driver!At
    <3> QED
      BY <1>1, <2>3, <3>1 DEF StoredIt
  <2>6. CASE Driver!AllocFails(c)
    <3>1. dpc[c] = "alloc" /\ frame' = [frame EXCEPT ![c].retval = -12]
      BY <2>6 DEF Driver!AllocFails, Driver!At, Driver!ExitWith, Driver!ENOMEM
    <3>2. frame'[c].retval = -12
      BY <1>1, <2>3, <3>1 DEF Char!Frame
    <3>3. ~(-12 >= 0)
      OBVIOUS
    <3> QED
      BY <3>1, <3>2, <3>3 DEF StoredIt
  <2>7. CASE Driver!CopyIn(c)
    <3>1. dpc[c] = "copy_in" /\ dpc' = [dpc EXCEPT ![c] = "store"]
      BY <2>7 DEF Driver!CopyIn, Driver!Goto, Driver!At
    <3> QED
      BY <1>1, <2>3, <3>1 DEF StoredIt
  <2>8. CASE Driver!Unlock(c)
    <3>1. dpc[c] = "unlock" /\ dpc' = [dpc EXCEPT ![c] = "return"] /\ frame' = frame
      BY <2>1, <2>8 DEF Driver!Unlock, Driver!Goto
    <3> QED
      BY <1>1, <2>3, <3>1 DEF StoredIt
  <2> QED
    BY <2>2, <2>4, <2>5, <2>6, <2>7, <2>8
<1> QED
  BY <1>2, <1>3

\* The other steps leave the bytes alone.
LEMMA OthersKeep ==
  ASSUME OneAtATime, ServerSide, Char!StreamInv, [NextOnDevice]_allvars, StreamSame,
         \A u \in User : ~(dpc[u] = "store" /\ dpc'[u] # "store"),
         NEW c \in Conn, KeptFor(c), dropped'[c] = dropped[c] \/ OpenDevice(c)
  PROVE  KeptFor(c)'
<1>1. /\ ChunkFor(c) /\ CallFor(c) /\ ChunkFor(c)' /\ DeviceTypes /\ c \in User
      /\ Received(c) \in Int /\ written[c] \in Nat /\ Char!Held' = Char!Held
  BY ReceivedCounts, ChunksKept, DeviceUsers DEF ServerSide, StreamSame
<1>2. sent[c] \in Nat /\ outbox[c] \in Seq(ClientChunk)
  BY <1>1, BoundAssumption DEF DeviceTypes
<1>3. \A i \in Mine(Char!Held, c) : Char!Held[i].n \in Nat
  BY SameAssumptions, Char!InvariantTyped, MineTyped
<1>4. Mine(Char!Held, c)' = Mine(Char!Held, c)
  BY <1>1 DEF Mine
<1>5. CASE OpenDevice(c)
  <2>1. /\ pc[c] = "open" /\ pc'[c] \in {"recv", "cleanup"}
        /\ UNCHANGED <<sent, outbox, written>>
    <3>1. pc[c] = "open" /\ (Goto(c, "recv") \/ Goto(c, "cleanup")) /\ UNCHANGED <<sent, outbox, written>>
      BY <1>5 DEF OpenDevice, At, clients
    <3> QED
      BY <3>1, WorkerMoved DEF ServerSide, ThreadInv
  <2>2. Received(c) = 0 /\ written[c] = 0 /\ Received(c)' = 0 /\ written'[c] = 0
    BY <1>1, <2>1 DEF ChunkFor, Received
  <2>3. InOrder(Char!Held, c, 0) /\ LastOf(c)' = 0 /\ CountOf(c)' = 0
    BY <2>1, <2>2 DEF KeptFor, LastOf, StoredIt, CountOf
  <2>4. InOrder(Char!Held, c, LastOf(c))'
    BY <1>1, <1>4, <2>3 DEF InOrder
  <2> QED
    BY <1>4, <2>3, <2>4, NothingYet DEF KeptFor
<1>6. CASE ~OpenDevice(c)
  <2> SUFFICES /\ LastOf(c) \in Int /\ LastOf(c)' \in Int /\ LastOf(c) <= LastOf(c)'
               /\ CountOf(c)' = CountOf(c)
    <3>1. InOrder(Char!Held, c, LastOf(c))'
      <4> DEFINE last == LastOf(c)
                 more == LastOf(c)'
      <4>1. \A i \in Mine(Char!Held, c) : Char!Held[i].n <= last /\ Char!Held[i].n \in Nat
        BY <1>3 DEF KeptFor, InOrder
      <4>2. last \in Int /\ more \in Int /\ last <= more
        OBVIOUS
      <4> HIDE DEF last, more
      <4>3. \A i \in Mine(Char!Held, c) : Char!Held[i].n <= more
        BY <4>1, <4>2
      <4> QED
        BY <1>1, <1>4, <4>3 DEF KeptFor, InOrder, more
    <3> QED
      BY <1>4, <1>6, <3>1 DEF KeptFor
  <2>1. CASE Rests(c) /\ (Still(c) \/ Puts(c))
    <3>1. Received(c)' = Received(c)
      <4>1. CASE Still(c)
        BY <4>1 DEF Still, Received
      <4>2. CASE Puts(c)
        <5>1. PICK x : outbox'[c] = Append(outbox[c], x) /\ sent'[c] = sent[c] + 1
          BY <4>2 DEF Puts
        <5> QED
          BY <1>2, <5>1 DEF Received
      <4> QED
        BY <2>1, <4>1, <4>2
    <3> QED
      BY <1>1, <2>1, <3>1 DEF Rests, Still, Puts, LastOf, CountOf, StoredIt
  <2>2. CASE Rests(c) /\ (MovesOn(c) \/ Replies(c))
    <3>1. Received(c)' = Received(c) /\ written'[c] = written[c] /\ pc[c] # "write" /\ pc'[c] # "write"
      BY <2>2 DEF MovesOn, Replies, Received
    <3> QED
      BY <1>1, <3>1 DEF LastOf, CountOf, StoredIt
  <2>3. CASE Rests(c) /\ Takes(c)
    <3>1. dpc[c] = "user" /\ dpc'[c] = "user" /\ pc[c] # "write"
      BY <1>1, <2>3 DEF Takes, CallFor, Rests
    <3>2. Received(c)' = Received(c) + 1 /\ written'[c] = written[c]
      <4>1. outbox[c] # <<>> /\ outbox'[c] = Tail(outbox[c]) /\ sent'[c] = sent[c] /\ written'[c] = written[c]
        BY <2>3 DEF Takes
      <4>2. Len(outbox'[c]) = Len(outbox[c]) - 1 /\ Len(outbox[c]) \in Nat
        BY <1>2, <4>1
      <4> QED
        BY <1>2, <4>1, <4>2 DEF Received
    <3>3. ~StoredIt(c) /\ ~StoredIt(c)'
      BY <3>1 DEF StoredIt
    <3> QED
      BY <1>1, <3>1, <3>2, <3>3 DEF LastOf, CountOf
  <2>4. CASE Works(c) /\ Still(c)
    <3>1. StoredIt(c)' <=> StoredIt(c)
      BY <1>1, <2>4, StoredStays
    <3>2. Received(c)' = Received(c) /\ written'[c] = written[c] /\ pc'[c] = pc[c]
      BY <2>4 DEF Still, Received
    <3> QED
      BY <1>1, <3>1, <3>2 DEF LastOf, CountOf
  <2>5. CASE Enters(c)
    <3>1. dpc[c] = "user" /\ dpc'[c] = "lock"
      BY <2>5, EntersCalls DEF Calls, Enters
    <3>2. ~StoredIt(c) /\ ~StoredIt(c)'
      BY <3>1 DEF StoredIt
    <3>3. Received(c)' = Received(c) /\ written'[c] = written[c] /\ pc'[c] = pc[c]
      BY <2>5 DEF Enters, Received
    <3> QED
      BY <1>1, <3>2, <3>3 DEF LastOf, CountOf
  <2>6. CASE Leaves(c) /\ Returns(c)
    <3>1. /\ dpc[c] = "return" /\ Received(c)' = Received(c) /\ pc'[c] # "write"
          /\ written'[c] = IF pc[c] = "write" /\ frame[c].retval >= 0 THEN written[c] + 1 ELSE written[c]
      BY <2>6 DEF Leaves, Received, Answer, OneAtATime
    <3>2. LastOf(c)' = Received(c) /\ CountOf(c)' = written'[c]
      BY <3>1 DEF LastOf, CountOf, StoredIt
    <3>3. CountOf(c) = written'[c]
      BY <3>1 DEF CountOf, StoredIt
    <3>4. LastOf(c) \in {Received(c), Received(c) - 1}
      BY DEF LastOf
    <3> QED
      BY <1>1, <3>2, <3>3, <3>4
  <2> QED
    BY <1>6, <2>1, <2>2, <2>3, <2>4, <2>5, <2>6, TwoKinds DEF Opens
<1> QED
  BY <1>5, <1>6

\* What handle_connection has written is in the device, in the order it was
\* received, and all of it as long as no command is dropped.
THEOREM DeviceHasReceived ==
  ASSUME OneAtATime PROVE SpecOnDevice => []DeviceKeepsReceived
<1> DEFINE Kept == \A c \in Conn : KeptFor(c)
           Sides == ServerSide /\ Char!StreamInv
<1>1. ASSUME InitOnDevice PROVE Kept
  <2>1. Sides
    BY <1>1, InitHasSides
  <2>2. Char!Held = <<>>
    <3>1. ~loaded
      BY <1>1, SameOthers DEF InitOnDevice, Char!Init
    <3>2. Char!Stored = <<>> /\ Char!Partial = <<>>
      BY <2>1, <3>1, SameAssumptions, Char!InvariantTyped
    <3> QED
      BY <3>2 DEF Char!Held
  <2> SUFFICES ASSUME NEW c \in Conn PROVE KeptFor(c)
    OBVIOUS
  <2>3. Mine(Char!Held, c) = {}
    BY <2>2 DEF Mine
  <2>4. Cardinality(Mine(Char!Held, c)) = 0 /\ InOrder(Char!Held, c, LastOf(c))
    BY <2>3, FS_EmptySet DEF InOrder
  <2>5. CountOf(c) = 0
    <3>1. pc[c] = "unborn" /\ written[c] = 0
      BY <1>1, ThreadKinds DEF InitOnDevice, Init
    <3> QED
      BY <3>1 DEF CountOf, StoredIt
  <2> QED
    BY <2>4, <2>5 DEF KeptFor
<1>2. ASSUME Kept, Sides, [NextOnDevice]_allvars PROVE Kept'
  BY <1>2, StepOnStream, StoreKeeps, OthersKeep
<1>3. ASSUME Kept, Sides PROVE DeviceKeepsReceived
  <2> SUFFICES ASSUME NEW c \in Conn, pc[c] # "write"
               PROVE  /\ dropped[c] \/ Cardinality(Mine(Char!Held, c)) = written[c]
                      /\ \A i, j \in Mine(Char!Held, c) : i < j => Char!Held[i].n < Char!Held[j].n
    BY SameText DEF DeviceKeepsReceived, Mine
  <2>1. KeptFor(c) /\ CountOf(c) = written[c]
    BY <1>3 DEF CountOf, StoredIt
  <2> QED
    BY <2>1 DEF KeptFor, InOrder
<1> HIDE DEF Kept, Sides
<1>4. SpecOnDevice => []Sides
  BY SidesKept DEF Sides
<1> QED
  BY <1>1, <1>2, <1>3, <1>4, PTL DEF SpecOnDevice

----------------------------------------------------------------------------
(* Pieces of the stream.                                                   *)

\* What has been taken of a text are the bytes before a position, and starts
\* inside it.
TakenOf(text, taken, here) ==
  /\ here \in Nat /\ here <= Len(text)
  /\ Len(taken) <= here /\ here - Len(taken) < Len(text)
  /\ taken = SubSeq(text, here - Len(taken) + 1, here)

\* Nothing is taken at first.
LEMMA TakingBegins ==
  ASSUME NEW E, NEW text \in Seq(E), NEW here \in Nat, here < Len(text)
  PROVE  TakenOf(text, <<>>, here)
<1>1. Len(<<>>) = 0 /\ Len(text) \in Nat
  OBVIOUS
<1>2. SubSeq(text, here + 1, here) = <<>>
  BY SubSeqEmpty
<1> QED
  BY <1>1, <1>2 DEF TakenOf

\* The text may grow.
LEMMA TakenStays ==
  ASSUME NEW E, NEW text \in Seq(E), NEW more \in Seq(E), NEW taken \in Seq(E), NEW here,
         TakenOf(text, taken, here)
  PROVE  TakenOf(text \o more, taken, here)
<1> DEFINE all == text \o more
           start == here - Len(taken)
<1>1. all \in Seq(E) /\ Len(all) = Len(text) + Len(more) /\ Len(text) \in Nat /\ Len(more) \in Nat
      /\ Len(taken) \in Nat /\ here \in Nat /\ start \in Nat /\ here <= Len(text) /\ start < Len(text)
      /\ taken = SubSeq(text, start + 1, here)
  BY DEF TakenOf
<1>2. SubSeq(all, start + 1, here) = SubSeq(text, start + 1, here)
  <2>1. CASE start < here
    <3>1. start + 1 \in 1 .. Len(text) /\ here \in 1 .. Len(text)
      <4> HIDE DEF start
      <4> QED
        BY <1>1, <2>1
    <3> HIDE DEF start
    <3> QED
      BY <3>1, SubSeqOfConcat1
  <2>2. CASE ~(start < here)
    <3> HIDE DEF start, all
    <3>1. here < start + 1 /\ start + 1 \in Int /\ here \in Int
      BY <1>1, <2>2
    <3> QED
      BY <3>1, SubSeqEmpty
  <2> QED
    BY <2>1, <2>2
<1>3. here <= Len(all) /\ start < Len(all)
  <2> HIDE DEF all, start
  <2> QED
    BY <1>1
<1>4. taken = SubSeq(all, start + 1, here) /\ Len(taken) <= here
  <2>1. taken = SubSeq(all, start + 1, here)
    <3> HIDE DEF all, start
    <3> QED
      BY <1>1, <1>2
  <2> QED
    BY <2>1 DEF TakenOf
<1> QED
  BY <1>1, <1>3, <1>4 DEF TakenOf

\* The piece that follows.
NextOf(text, piece, here) ==
  /\ here + Len(piece) <= Len(text)
  /\ piece = SubSeq(text, here + 1, here + Len(piece))

\* The next bytes may be taken.
LEMMA TakingGoesOn ==
  ASSUME NEW E, NEW text \in Seq(E), NEW taken \in Seq(E), NEW piece \in Seq(E), NEW here,
         TakenOf(text, taken, here), NextOf(text, piece, here)
  PROVE  /\ TakenOf(text, taken \o piece, here + Len(piece))
         /\ (here + Len(piece)) - Len(taken \o piece) = here - Len(taken)
<1> DEFINE start == here - Len(taken)
           there == here + Len(piece)
<1>1. /\ Len(text) \in Nat /\ Len(taken) \in Nat /\ Len(piece) \in Nat
      /\ Len(taken \o piece) = Len(taken) + Len(piece)
      /\ here \in Nat /\ start \in Nat /\ start <= here /\ start < Len(text) /\ here <= Len(text)
      /\ taken = SubSeq(text, start + 1, here)
      /\ there <= Len(text) /\ piece = SubSeq(text, here + 1, there)
  BY DEF TakenOf, NextOf
<1>2. there - Len(taken \o piece) = start /\ there \in Nat /\ Len(taken \o piece) <= there
      /\ here <= there /\ there <= Len(text)
  BY <1>1
<1>3. SubSeq(text, start + 1, here) \o SubSeq(text, here + 1, there) = SubSeq(text, start + 1, there)
  <2>1. /\ start + 1 \in 1 .. Len(text) + 1 /\ here \in (start + 1) - 1 .. Len(text)
        /\ there \in here .. Len(text)
    <3> HIDE DEF start, there
    <3> QED
      BY <1>1, <1>2
  <2> HIDE DEF start, there
  <2> QED
    BY <2>1, ConcatAdjacentSubSeq
<1>4. taken \o piece = SubSeq(text, start + 1, there)
  BY <1>1, <1>3
<1> QED
  BY <1>1, <1>2, <1>4 DEF TakenOf

\* At the end of the text everything from where it started is taken.
LEMMA TakenToTheEnd ==
  ASSUME NEW E, NEW text \in Seq(E), NEW taken \in Seq(E), NEW here,
         TakenOf(text, taken, here), here >= Len(text)
  PROVE  /\ here = Len(text) /\ taken # <<>> /\ IsSuffix(taken, text)
         /\ taken = SubSeq(text, here - Len(taken) + 1, Len(text))
<1>1. /\ Len(text) \in Nat /\ Len(taken) \in Nat /\ here \in Nat /\ here = Len(text)
      /\ here - Len(taken) < Len(text) /\ Len(taken) <= here
      /\ taken = SubSeq(text, here - Len(taken) + 1, here)
  BY DEF TakenOf
<1>2. Len(taken) > 0
  BY <1>1
<1>3. taken # <<>>
  BY <1>2
<1> DEFINE n == Len(text)
           k == Len(taken)
           back == [i \in 1 .. k |-> taken[k - i + 1]]
           whole == [i \in 1 .. n |-> text[n - i + 1]]
<1>4. n \in Nat /\ k \in Nat /\ k <= n /\ taken = SubSeq(text, n - k + 1, n)
  BY <1>1
<1>5. \A i \in 1 .. k : taken[i] = text[n - k + i] /\ taken[i] \in E
  <2> HIDE DEF n, k
  <2>1. \A i \in n - k + 1 .. n : text[i] \in E
    <3>1. \A i \in 1 .. n : text[i] \in E
      BY DEF n
    <3> QED
      BY <1>4, <3>1
  <2>2. \A i \in 1 .. n - (n - k + 1) + 1 : SubSeq(text, n - k + 1, n)[i] = text[(n - k + 1) + i - 1]
    BY <1>4, <2>1, SubSeqProperties, n - k + 1 \in Int, n \in Int
  <2>3. \A i \in 1 .. k : i \in 1 .. n - (n - k + 1) + 1 /\ (n - k + 1) + i - 1 = n - k + i
                           /\ n - k + i \in n - k + 1 .. n
    BY <1>4
  <2> QED
    BY <1>4, <2>1, <2>2, <2>3
<1>6. \A i \in 1 .. k : back[i] = whole[i]
  <2> HIDE DEF n, k
  <2> TAKE i \in 1 .. k
  <2>1. k - i + 1 \in 1 .. k /\ i \in 1 .. n /\ n - k + (k - i + 1) = n - i + 1
    BY <1>4
  <2> QED
    BY <1>5, <2>1
<1>7. back \in Seq(E) /\ whole \in Seq(E) /\ Len(back) = k /\ Len(whole) = n
  <2> HIDE DEF n, k
  <2>1. \A i \in 1 .. k : taken[k - i + 1] \in E
    BY <1>4, <1>5
  <2>2. \A i \in 1 .. n : text[n - i + 1] \in E
    <3>1. \A i \in 1 .. n : text[i] \in E
      BY DEF n
    <3> QED
      BY <1>4, <3>1
  <2> QED
    BY <1>4, <2>1, <2>2
<1>8. SubSeq(back, 1, k) = SubSeq(whole, 1, k)
  <2> HIDE DEF n, k, back, whole
  <2> DEFINE a == SubSeq(back, 1, k)
             b == SubSeq(whole, 1, k)
  <2>1. a \in Seq(E) /\ Len(a) = k /\ \A i \in 1 .. k : a[i] = back[i]
    BY <1>4, <1>7
  <2>2. b \in Seq(E) /\ Len(b) = k /\ \A i \in 1 .. k : b[i] = whole[i]
    BY <1>4, <1>7
  <2> HIDE DEF a, b
  <2>3. a = b
    BY <1>6, <2>1, <2>2, SeqEqual
  <2> QED
    BY <2>3 DEF a, b
<1>9. Reverse(taken) = back /\ Reverse(text) = whole
  BY DEF Reverse
<1>10. IsSuffix(taken, text)
  <2> HIDE DEF n, k, back, whole
  <2> QED
    BY <1>4, <1>7, <1>8, <1>9 DEF IsSuffix, IsPrefix
<1> QED
  BY <1>1, <1>3, <1>10

----------------------------------------------------------------------------
(* The positions of the open files.                                        *)

\* A call works on its caller's own file.
LEMMA OwnFile ==
  ASSUME ServerSide, NEW u \in User, dpc[u] # "user"
  PROVE  req[u].file = u
<1>1. CASE u = Outsider
  BY <1>1 DEF ServerSide, DriverCalls
<1>2. CASE u \in Conn
  <2>1. CallFor(u)
    BY <1>2 DEF ServerSide
  <2> QED
    BY <2>1 DEF CallFor
<1> QED
  BY <1>1, <1>2, DeviceUsers

\* So nobody else moves the position of a connection.
LEMMA PositionStays ==
  ASSUME OneAtATime, ServerSide, Char!StreamInv, [NextOnDevice]_allvars,
         NEW c \in Conn, Rests(c), ~OpenDevice(c), ~CloseDevice(c)
  PROVE  f_pos'[c] = f_pos[c]
<1>1. f_pos \in [User -> Nat] /\ c \in User /\ dpc \in [User -> Char!Places] /\ dpc'[c] = dpc[c]
  BY DriverTypes, DeviceUsers DEF Rests
<1>2. ASSUME NEW u \in User, u # c, NEW p, f_pos' = [f_pos EXCEPT ![u] = p]
      PROVE  f_pos'[c] = f_pos[c]
  BY <1>1, <1>2
<1>3. ASSUME NEW u \in User, Driver!Return(u) PROVE f_pos'[c] = f_pos[c]
  <2>1. dpc[u] = "return" /\ dpc' = [dpc EXCEPT ![u] = "user"]
        /\ (f_pos' = [f_pos EXCEPT ![req[u].file] = frame[u].pos] \/ f_pos' = f_pos)
    BY <1>3 DEF Driver!Return, Driver!Goto
  <2>2. u # c /\ req[u].file = u
    BY <1>1, <2>1, OwnFile
  <2> QED
    BY <1>2, <2>1, <2>2
<1>4. CASE ServerStep \/ UNCHANGED allvars \/ Driver!Load
  BY <1>4 DEF ServerStep, allvars, device, Driver!Load
<1>5. ASSUME NEW d \in Conn, OnDevice(d) PROVE f_pos'[c] = f_pos[c]
  <2>1. d \in User
    BY DeviceUsers
  <2>2. CASE OpenDevice(d)
    BY <1>2, <2>1, <2>2 DEF OpenDevice, Driver!Open
  <2>3. CASE EnterDriver(d)
    BY <2>3 DEF EnterDriver, Driver!Call
  <2>4. CASE LeaveDriver(d)
    BY <1>3, <2>1, <2>4 DEF LeaveDriver
  <2>5. CASE CloseDevice(d)
    <3>1. pc[d] = "close_data" /\ HasDevice(d)
      BY <2>5 DEF CloseDevice, At, HasDevice, ServedPlaces
    <3>2. fds[datafd] = Device(d)
      BY <3>1, Standing DEF ServerSide
    <3>3. Driver!Release(d)
      BY <2>5, <3>2 DEF CloseDevice, Device
    <3> QED
      BY <1>2, <2>1, <2>5, <3>3 DEF Driver!Release
  <2> QED
    BY <1>5, <2>2, <2>3, <2>4, <2>5 DEF OnDevice
<1>6. ASSUME NEW u \in User, DriverStep(u) PROVE f_pos'[c] = f_pos[c]
  <2>1. CASE Driver!AdjustOffset(u)
    <3>1. /\ dpc[u] = "adjust" /\ dpc' = [dpc EXCEPT ![u] = "unlock"]
          /\ \E p : f_pos' = [f_pos EXCEPT ![req[u].file] = p]
      BY <2>1 DEF Driver!AdjustOffset, Driver!At, Driver!ExitWith, Driver!Goto
    <3>2. u # c /\ req[u].file = u
      BY <1>1, <3>1, OwnFile
    <3> QED
      BY <1>2, <3>1, <3>2
  <2>2. CASE ~Driver!AdjustOffset(u)
    <3>1. f_pos' = f_pos
      BY <1>6, <2>2 DEF DriverStep, InDriver, Driver!Lock, Driver!CopyOut, Driver!Alloc, Driver!AllocFails,
         Driver!CopyIn, Driver!CachePartial, Driver!AddCommand, Driver!AdjustRefused, Driver!Unlock
    <3> QED
      BY <3>1
  <2> QED
    BY <2>1, <2>2
<1>7. CASE OutsiderStep
  <2>1. Outsider \in User /\ Outsider # c
    BY DeviceUsers
  <2>2. CASE Driver!Open(Outsider) \/ Driver!Release(Outsider)
    BY <1>2, <2>1, <2>2 DEF Driver!Open, Driver!Release
  <2>3. ASSUME NEW r, Driver!Call(Outsider, r) PROVE f_pos' = f_pos
    BY <2>3 DEF Driver!Call
  <2> QED
    BY <1>3, <1>7, <2>1, <2>2, <2>3 DEF OutsiderStep
<1> QED
  BY <1>4, <1>5, <1>6, <1>7 DEF NextOnDevice

\* As long as nothing is dropped the stream, its commands and where they end
\* only grow.
Grows ==
  /\ \E more \in Seq(Char!Byte) : Char!Stored' = Char!Stored \o more
  /\ Char!Stored \in Seq(Char!Byte) /\ Char!Stored' \in Seq(Char!Byte)
  /\ Len(Char!Stored) \in Nat /\ Len(Char!Stored') \in Nat /\ Len(Char!Stored) <= Len(Char!Stored')
  /\ Len(Char!Commands) \in Nat /\ Len(Char!Commands') \in Nat
  /\ Len(Char!Commands) <= Len(Char!Commands')
  /\ \A k \in 0 .. Len(Char!Commands) :
       SubSeq(Char!Commands', 1, k) = SubSeq(Char!Commands, 1, k)
  /\ dev'.circular_buffer.out_offs = dev.circular_buffer.out_offs

\* Types of the stream.
LEMMA TextTyped ==
  Char!StreamInv => /\ Char!Stored \in Seq(Char!Byte) /\ Len(Char!Stored) \in Nat
                    /\ Char!Commands \in Seq(Seq(Char!Byte)) /\ Len(Char!Commands) \in Nat
BY SameAssumptions, Char!InvariantTyped

\* It grows, unless a connection is told that a command was dropped.
LEMMA DropsOrGrows ==
  ASSUME OneAtATime, ServerSide, Char!StreamInv, Char!StreamInv', [NextOnDevice]_allvars,
         NEW c \in Conn, HasDevice(c), ~dropped'[c]
  PROVE  ~dropped[c] /\ Grows
<1>1. Arrived(c) /\ pc[c] # "open"
  <2>1. pc[c] \notin {"unborn", "exited", "open"}
    BY DEF HasDevice, ServedPlaces, CleanupPlaces
  <2> QED
    BY <2>1, Standing DEF ServerSide
<1>2. /\ Char!Stored \in Seq(Char!Byte) /\ Len(Char!Stored) \in Nat /\ Len(Char!Commands) \in Nat
      /\ Char!Commands \in Seq(Seq(Char!Byte))
  BY TextTyped
<1>3. Char!Commands' \in Seq(Seq(Char!Byte)) /\ Char!Stored' \in Seq(Char!Byte)
  <2>1. (Char!Commands \in Seq(Seq(Char!Byte)) /\ Char!Stored \in Seq(Char!Byte))'
    BY TextTyped, PTL
  <2>2. Char!Byte' = Char!Byte
    OBVIOUS
  <2> QED
    BY <2>1, <2>2
<1>4. CASE StreamSame /\ (dropped'[c] = dropped[c] \/ OpenDevice(c))
  <2>1. ~OpenDevice(c)
    BY <1>1 DEF OpenDevice, At
  <2>2. <<>> \in Seq(Char!Byte)
    OBVIOUS
  <2>3. Char!Stored \o <<>> = Char!Stored
    BY <1>2, ConcatEmptySeq
  <2>4. \E more \in Seq(Char!Byte) : Char!Stored' = Char!Stored \o more
    BY <1>4, <2>2, <2>3 DEF StreamSame
  <2>5. dev' = dev
    BY <1>1, <1>4 DEF StreamSame
  <2> QED
    BY <1>2, <1>4, <2>1, <2>4, <2>5 DEF StreamSame, Grows
<1>5. ASSUME NEW u \in User, StoresBy(u) PROVE ~dropped[c] /\ Grows
  <2>1. /\ Char!AddCommand(u) \/ Char!CachePartial(u)
        /\ frame[u].retval = Len(req[u].buf)
        /\ dropped' = dropped /\ (Char!CachePartial(u) \/ ~dev.circular_buffer.full)
    BY <1>5 DEF StoresBy
  <2>2. /\ \E more \in Seq(Char!Byte) : Char!Stored' = Char!Stored \o more
        /\ Len(Char!Stored) <= Len(Char!Stored')
        /\ Len(Char!Commands) <= Len(Char!Commands')
        /\ \A k \in 0 .. Len(Char!Commands) : SubSeq(Char!Commands', 1, k) = SubSeq(Char!Commands, 1, k)
        /\ dev'.circular_buffer.out_offs = dev.circular_buffer.out_offs
    BY <2>1, SameAssumptions, Char!StoreExtends
  <2>3. Len(Char!Stored') \in Nat /\ Len(Char!Commands') \in Nat
    BY <1>3
  <2> QED
    BY <1>2, <1>3, <2>1, <2>2, <2>3 DEF Grows
<1> QED
  BY <1>4, <1>5, StepOnStream

----------------------------------------------------------------------------
(* What a client has got and is about to get.                              *)

\* A read that has its bytes and has not yet returned.
Done(c)    == dpc[c] \in {"unlock", "return"}
HasRead(c) == pc[c] = "read" /\ Done(c)

\* What the server has taken from the device for the client, up to where.
Piece(c)   == IF pc[c] = "send" THEN buffer[c].bytes
              ELSE IF HasRead(c) THEN frame[c].given ELSE <<>>
TakenBy(c) == Answered(c) \o Piece(c)
Here(c)    == IF HasRead(c) THEN frame[c].pos ELSE f_pos[c]

\* From the store of a line, or the seek, to the end of the reading.
Due(c) ==
  \/ pc[c] \in {"read", "send"}
  \/ /\ pc[c] = "ioctl" \/ (pc[c] = "write" /\ buffer[c].kind # "text")
     /\ Done(c) /\ frame[c].retval >= 0

\* An answer starts where the seek has asked for.
SoughtAt(commands, seek, start) ==
  /\ seek.write_cmd < Len(commands)
  /\ start = Len(FlattenSeq(SubSeq(commands, 1, seek.write_cmd))) + seek.write_cmd_offset

\* The position stays inside the stream, and calls work on copies of it.
PositionFor(c) ==
  HasDevice(c) /\ ~dropped[c] =>
    /\ f_pos[c] <= Len(Char!Stored)
    /\ dpc[c] # "user" /\ pc[c] \in {"write", "read"} /\ ~HasRead(c) => frame[c].pos = f_pos[c]
    /\ HasRead(c) => /\ frame[c].retval = Len(frame[c].given)
                     /\ frame[c].pos = f_pos[c] + Len(frame[c].given)

\* And what has been taken is the stream from where the answer starts up to here.
ReplyFor(c) ==
  Due(c) /\ ~dropped[c] =>
    /\ TakenOf(Char!Stored, TakenBy(c), Here(c))
    /\ asked[c] # NoRequest /\ dev.circular_buffer.out_offs = 0
         => SoughtAt(Char!Commands, asked[c], Here(c) - Len(TakenBy(c)))

\* Answers are bytes.
LEMMA AnsweredTyped ==
  DeviceTypes => \A c \in Conn : Answered(c) \in Seq(Char!Byte)
<1> SUFFICES ASSUME DeviceTypes, NEW c \in Conn PROVE Answered(c) \in Seq(Char!Byte)
  OBVIOUS
<1> DEFINE pieces == [i \in DOMAIN got[c] |-> got[c][i].bytes]
<1>1. got[c] \in Seq(Answers)
  BY DEF DeviceTypes
<1>2. \A i \in DOMAIN got[c] : got[c][i].bytes \in Seq(Char!Byte)
  <2>1. \A i \in DOMAIN got[c] : got[c][i] \in Answers
    BY <1>1
  <2> QED
    BY <2>1 DEF Answers
<1>3. pieces \in Seq(Seq(Char!Byte))
  <2>1. DOMAIN got[c] = 1 .. Len(got[c]) /\ Len(got[c]) \in Nat
    BY <1>1
  <2> QED
    BY <1>2, <2>1
<1> HIDE DEF pieces
<1>4. FlattenSeq(pieces) \in Seq(Char!Byte)
  BY <1>3, FlattenTyped
<1> QED
  BY <1>4 DEF Answered, pieces

\* What has been sent is the next of the answer.
LEMMA AnsweredGrows ==
  ASSUME DeviceTypes, NEW c \in Conn, NEW b \in Answers, got'[c] = Append(got[c], b)
  PROVE  Answered(c)' = Answered(c) \o b.bytes
<1> DEFINE pieces == [i \in DOMAIN got[c] |-> got[c][i].bytes]
           next == [i \in DOMAIN got'[c] |-> got'[c][i].bytes]
           x == b.bytes
           n == Len(got[c])
<1>1. got[c] \in Seq(Answers) /\ n \in Nat /\ x \in Seq(Char!Byte)
  <2>1. got[c] \in Seq(Answers)
    BY DEF DeviceTypes
  <2>2. b.bytes \in Seq(Char!Byte)
    BY DEF Answers
  <2> QED
    BY <2>1, <2>2
<1>2. /\ DOMAIN got[c] = 1 .. n /\ DOMAIN got'[c] = 1 .. n + 1
      /\ got'[c][n + 1] = b /\ \A i \in 1 .. n : got'[c][i] = got[c][i] /\ got[c][i] \in Answers
  BY <1>1
<1>3. pieces \in Seq(Seq(Char!Byte)) /\ Len(pieces) = n /\ \A i \in 1 .. n : pieces[i] = got[c][i].bytes
  <2>1. \A i \in 1 .. n : got[c][i].bytes \in Seq(Char!Byte)
    BY <1>2 DEF Answers
  <2>2. pieces = [i \in 1 .. n |-> got[c][i].bytes]
    BY <1>2
  <2>3. [i \in 1 .. n |-> got[c][i].bytes] \in Seq(Seq(Char!Byte))
    <3> HIDE DEF n
    <3> QED
      BY <1>1, <2>1
  <2> HIDE DEF n, pieces
  <2>4. Len(pieces) = n
    BY <1>1, <2>2, <2>3
  <2> QED
    BY <2>2, <2>3, <2>4
<1>4. next = Append(pieces, x)
  <2>1. next = [i \in 1 .. n + 1 |-> got'[c][i].bytes]
    BY <1>2
  <2>2. \A i \in 1 .. n + 1 : got'[c][i].bytes = IF i = n + 1 THEN x ELSE pieces[i]
    <3> HIDE DEF pieces, n
    <3>1. \A i \in 1 .. n + 1 : i = n + 1 \/ i \in 1 .. n
      BY <1>1
    <3> QED
      BY <1>2, <1>3, <3>1
  <2>3. Append(pieces, x) = [i \in 1 .. n + 1 |-> IF i = n + 1 THEN x ELSE pieces[i]]
    <3> DEFINE more == Append(pieces, x)
    <3> HIDE DEF pieces, n, x
    <3>1. more \in Seq(Seq(Char!Byte)) /\ Len(more) = n + 1 /\ more[n + 1] = x
          /\ \A i \in 1 .. n : more[i] = pieces[i]
      BY <1>1, <1>3
    <3>2. more = [i \in 1 .. n + 1 |-> more[i]]
      <4> HIDE DEF more
      <4> QED
        BY <3>1
    <3>3. \A i \in 1 .. n + 1 : more[i] = IF i = n + 1 THEN x ELSE pieces[i]
      <4> HIDE DEF more
      <4>1. \A i \in 1 .. n + 1 : i = n + 1 \/ i \in 1 .. n
        BY <1>1
      <4> QED
        BY <3>1, <4>1
    <3> HIDE DEF more
    <3>4. more = [i \in 1 .. n + 1 |-> IF i = n + 1 THEN x ELSE pieces[i]]
      BY <3>2, <3>3
    <3> QED
      BY <3>4 DEF more
  <2> HIDE DEF pieces, next, n, x
  <2> QED
    BY <2>1, <2>2, <2>3
<1> HIDE DEF pieces, next, x
<1>5. FlattenSeq(next) = FlattenSeq(pieces) \o x
  BY <1>1, <1>3, <1>4, FlattenAppend
<1>6. Answered(c) = FlattenSeq(pieces) /\ Answered(c)' = FlattenSeq(next)
  BY DEF Answered, pieces, next
<1> QED
  BY <1>5, <1>6 DEF x

\* What is taken is bytes.
LEMMA TakenTyped ==
  ASSUME ServerSide, Char!StreamInv, NEW c \in Conn
  PROVE  /\ Answered(c) \in Seq(Char!Byte) /\ Piece(c) \in Seq(Char!Byte)
         /\ TakenBy(c) \in Seq(Char!Byte) /\ Here(c) \in Nat /\ f_pos[c] \in Nat
         /\ Piece(c) = <<>> => TakenBy(c) = Answered(c)
<1>1. Answered(c) \in Seq(Char!Byte)
  BY AnsweredTyped DEF ServerSide
<1>2. c \in User /\ frame[c].given \in Seq(Char!Byte) /\ frame[c].pos \in Nat /\ f_pos[c] \in Nat
  BY DriverTypes, DeviceUsers
<1>3. Piece(c) \in Seq(Char!Byte)
  <2>1. pc[c] = "send" => buffer[c].bytes \in Seq(Char!Byte)
    <3>1. ChunkFor(c)
      BY DEF ServerSide
    <3> QED
      BY <3>1 DEF ChunkFor, Answers
  <2>2. <<>> \in Seq(Char!Byte)
    OBVIOUS
  <2> QED
    BY <1>2, <2>1, <2>2 DEF Piece
<1>4. TakenBy(c) \in Seq(Char!Byte) /\ (Piece(c) = <<>> => TakenBy(c) = Answered(c))
  BY <1>1, <1>3, ConcatProperties, ConcatEmptySeq DEF TakenBy
<1> QED
  BY <1>1, <1>2, <1>3, <1>4 DEF Here

\* Where a seek ends up stays.
LEMMA SoughtStays ==
  ASSUME Grows, NEW seek \in SeekTo, NEW start, SoughtAt(Char!Commands, seek, start)
  PROVE  SoughtAt(Char!Commands', seek, start)
<1>1. seek.write_cmd \in Nat
  BY SameAssumptions DEF Char!CallAssumption
<1>2. seek.write_cmd \in 0 .. Len(Char!Commands) /\ seek.write_cmd < Len(Char!Commands')
  BY <1>1 DEF Grows, SoughtAt
<1> QED
  BY <1>2 DEF Grows, SoughtAt

\* An answer under way is not disturbed.
LEMMA ReplyStays ==
  ASSUME ServerSide, Char!StreamInv, NEW c \in Conn, ReplyFor(c), Grows, Due(c), ~dropped[c],
         TakenBy(c)' = TakenBy(c), Here(c)' = Here(c), asked'[c] = asked[c]
  PROVE  ReplyFor(c)'
<1>1. TakenOf(Char!Stored, TakenBy(c), Here(c))
  BY DEF ReplyFor
<1>2. PICK more \in Seq(Char!Byte) : Char!Stored' = Char!Stored \o more
  BY DEF Grows
<1>3. TakenOf(Char!Stored', TakenBy(c), Here(c))
  <2>1. TakenBy(c) \in Seq(Char!Byte) /\ Char!Stored \in Seq(Char!Byte)
    BY TakenTyped DEF Grows
  <2>2. TakenOf(Char!Stored \o more, TakenBy(c), Here(c))
    BY <1>1, <2>1, TakenStays
  <2> QED
    BY <1>2, <2>2
<1>4. TakenOf(Char!Stored, TakenBy(c), Here(c))'
  <2>1. TakenOf(Char!Stored', TakenBy(c)', Here(c)')
    BY <1>3
  <2> QED
    BY <2>1 DEF TakenOf
<1>5. asked[c] # NoRequest /\ dev.circular_buffer.out_offs = 0
        => SoughtAt(Char!Commands', asked[c], Here(c) - Len(TakenBy(c)))
  <2>1. asked[c] # NoRequest => asked[c] \in SeekTo
    BY DEF ServerSide, DeviceTypes
  <2> QED
    BY <2>1, SoughtStays DEF ReplyFor
<1>6. (asked[c] # NoRequest /\ dev.circular_buffer.out_offs = 0
         => SoughtAt(Char!Commands, asked[c], Here(c) - Len(TakenBy(c))))'
  BY <1>5 DEF Grows, SoughtAt
<1> QED
  BY <1>4, <1>6 DEF ReplyFor

\* Both are as they were when the connection has not moved.
LEMMA BothStay ==
  ASSUME ServerSide, Char!StreamInv, NEW c \in Conn, PositionFor(c), ReplyFor(c), Grows, ~dropped[c],
         UNCHANGED <<pc[c], buffer[c], got[c], asked[c], f_pos[c]>>,
         dpc'[c] # "user" => dpc[c] # "user", frame'[c].pos = frame[c].pos,
         Done(c)' <=> Done(c), Done(c) => frame'[c] = frame[c]
  PROVE  PositionFor(c)' /\ ReplyFor(c)'
<1>1. HasRead(c)' <=> HasRead(c)
  BY DEF HasRead, Done
<1>2. Answered(c)' = Answered(c)
  BY DEF Answered
<1>3. Piece(c)' = Piece(c) /\ Here(c)' = Here(c)
  BY <1>1 DEF Piece, Here, HasRead
<1>4. TakenBy(c)' = TakenBy(c)
  BY <1>2, <1>3 DEF TakenBy
<1>5. Due(c)' <=> Due(c)
  BY DEF Due, Done
<1>6. PositionFor(c)'
  <2>1. f_pos[c] <= Len(Char!Stored) => f_pos'[c] <= Len(Char!Stored')
    BY TakenTyped DEF Grows
  <2>2. HasDevice(c)' <=> HasDevice(c)
    BY DEF HasDevice
  <2> QED
    BY <1>1, <2>1, <2>2 DEF PositionFor, HasRead
<1>7. ReplyFor(c)'
  <2>1. CASE Due(c)
    BY <1>3, <1>4, <2>1, ReplyStays
  <2>2. CASE ~Due(c)
    BY <1>5, <2>2 DEF ReplyFor
  <2> QED
    BY <2>1, <2>2
<1> QED
  BY <1>6, <1>7

\* The position of a connection that does not read stays, and nothing is due.
LEMMA NothingDue ==
  ASSUME ServerSide, Char!StreamInv, NEW c \in Conn, PositionFor(c), Grows, ~dropped[c], HasDevice(c),
         f_pos'[c] = f_pos[c], ~HasRead(c)', ~Due(c)',
         dpc'[c] # "user" /\ pc'[c] \in {"write", "read"} => frame'[c].pos = f_pos[c]
  PROVE  PositionFor(c)' /\ ReplyFor(c)'
<1>1. f_pos'[c] <= Len(Char!Stored')
  BY TakenTyped DEF PositionFor, Grows
<1> QED
  BY <1>1 DEF PositionFor, ReplyFor

\* aesd_read hands over the next bytes.
LEMMA CopyTakes ==
  ASSUME ServerSide, Char!StreamInv, NEW c \in Conn, PositionFor(c), ReplyFor(c), Grows, ~dropped[c],
         UNCHANGED <<pc[c], buffer[c], got[c], asked[c]>>, Driver!CopyOut(c)
  PROVE  /\ PositionFor(c)' /\ ReplyFor(c)'
         /\ frame'[c].given = <<>> => f_pos[c] >= Len(Char!Stored)
         /\ TakenOf(Char!Stored, Answered(c), f_pos[c]) /\ HasDevice(c) /\ Due(c)
         /\ Here(c) = f_pos[c] /\ TakenBy(c) = Answered(c)
<1> DEFINE given == frame'[c].given
           pos == f_pos[c]
           text == Char!Stored
<1>1. Char!CopyOut(c) /\ dpc[c] = "copy_out" /\ req[c].op = "read" /\ dpc' = [dpc EXCEPT ![c] = "unlock"]
      /\ UNCHANGED f_pos /\ c \in User
  BY SameSteps, DeviceUsers DEF Driver!CopyOut, Driver!At, Driver!Goto
<1>2. pc[c] = "read" /\ req[c].count > 0
  <2>1. CallFor(c)
    BY DEF ServerSide
  <2>2. pc[c] = "read" /\ req[c] = [op |-> "read", file |-> c, count |-> BufferSize]
    <3>1. [op |-> "write", file |-> c, buf |-> Bytes(buffer[c])].op # "read"
      OBVIOUS
    <3>2. [op |-> "ioctl", file |-> c, seekto |-> asked[c]].op # "read"
      OBVIOUS
    <3> QED
      BY <1>1, <2>1, <3>1, <3>2 DEF CallFor
  <2> QED
    BY <2>2, ByteAssumption
<1>3. dpc'[c] = "unlock"
  BY <1>1, DriverTypes
<1>4. HasDevice(c) /\ Due(c) /\ ~HasRead(c) /\ HasRead(c)' /\ Due(c)' /\ pc'[c] = "read"
  BY <1>1, <1>2, <1>3 DEF HasDevice, ServedPlaces, Due, HasRead, Done
<1>5. frame[c].pos = pos /\ pos <= Len(text)
  BY <1>1, <1>2, <1>4 DEF PositionFor
<1>6. /\ pos \in Nat /\ given \in Seq(Char!Byte) /\ Len(given) \in Nat
      /\ frame'[c].retval = Len(given) /\ frame'[c].pos = pos + Len(given)
      /\ pos >= Len(text) => given = <<>>
      /\ pos < Len(text) => /\ given # <<>> /\ pos + Len(given) <= Len(text)
                            /\ given = SubSeq(text, pos + 1, pos + Len(given))
  BY <1>1, <1>2, <1>5, SameAssumptions, Char!CopiesNext
<1>7. pos + Len(given) <= Len(text) /\ given = SubSeq(text, pos + 1, pos + Len(given))
  <2>1. CASE pos < Len(text)
    BY <1>6, <2>1
  <2>2. CASE pos >= Len(text)
    <3>1. given = <<>> /\ Len(given) = 0
      BY <1>6, <2>2
    <3>2. SubSeq(text, pos + 1, pos) = <<>>
      BY <1>6, SubSeqEmpty
    <3> HIDE DEF given, pos, text
    <3> QED
      BY <1>5, <1>6, <3>1, <3>2
  <2> QED
    BY <1>6, <2>1, <2>2, TextTyped
<1>8. Here(c) = pos /\ TakenBy(c) = Answered(c) /\ Answered(c) \in Seq(Char!Byte)
  <2>1. Piece(c) = <<>> /\ Here(c) = pos
    BY <1>2, <1>4 DEF Piece, Here
  <2> QED
    BY <2>1, TakenTyped
<1>9. TakenOf(text, Answered(c), pos)
  BY <1>4, <1>8 DEF ReplyFor
<1>10. text \in Seq(Char!Byte)
  BY TextTyped
<1>11. /\ TakenOf(text, Answered(c) \o given, pos + Len(given))
       /\ (pos + Len(given)) - Len(Answered(c) \o given) = pos - Len(Answered(c))
  <2> DEFINE taken == Answered(c)
  <2>1. TakenOf(text, taken, pos) /\ taken \in Seq(Char!Byte)
    BY <1>8, <1>9
  <2>2. given \in Seq(Char!Byte) /\ NextOf(text, given, pos)
    BY <1>6, <1>7 DEF NextOf
  <2> HIDE DEF given, text, pos, taken
  <2>3. /\ TakenOf(text, taken \o given, pos + Len(given))
        /\ (pos + Len(given)) - Len(taken \o given) = pos - Len(taken)
    BY <1>10, <2>1, <2>2, TakingGoesOn
  <2> QED
    BY <2>3 DEF taken
<1>12. TakenBy(c)' = Answered(c) \o given /\ Here(c)' = pos + Len(given)
  <2>1. Answered(c)' = Answered(c)
    BY DEF Answered
  <2>2. Piece(c)' = given /\ Here(c)' = pos + Len(given)
    BY <1>4, <1>6 DEF Piece, Here
  <2> QED
    BY <2>1, <2>2 DEF TakenBy
<1>13. PICK more \in Seq(Char!Byte) : Char!Stored' = text \o more
  BY DEF Grows
<1>14. TakenOf(Char!Stored', Answered(c) \o given, pos + Len(given))
  <2> DEFINE taken == Answered(c) \o given
             here == pos + Len(given)
  <2>1. TakenOf(text, taken, here) /\ taken \in Seq(Char!Byte)
    BY <1>6, <1>8, <1>11, ConcatProperties
  <2> HIDE DEF text, taken, here
  <2>2. TakenOf(text \o more, taken, here)
    BY <1>10, <2>1, TakenStays
  <2> QED
    BY <1>13, <2>2 DEF taken, here
<1>15. ReplyFor(c)'
  <2>1. TakenOf(Char!Stored, TakenBy(c), Here(c))'
    BY <1>12, <1>14 DEF TakenOf
  <2>2. asked[c] # NoRequest /\ dev.circular_buffer.out_offs = 0
          => SoughtAt(Char!Commands', asked[c], pos - Len(Answered(c)))
    <3>1. asked[c] # NoRequest => asked[c] \in SeekTo
      BY DEF ServerSide, DeviceTypes
    <3>2. asked[c] # NoRequest /\ dev.circular_buffer.out_offs = 0
            => SoughtAt(Char!Commands, asked[c], pos - Len(Answered(c)))
      BY <1>4, <1>8 DEF ReplyFor
    <3> HIDE DEF pos
    <3> QED
      BY <3>1, <3>2, SoughtStays
  <2>3. Here(c)' - Len(TakenBy(c)') = pos - Len(Answered(c))
    <3> DEFINE taken == Answered(c) \o given
               here == pos + Len(given)
               start == pos - Len(Answered(c))
    <3>1. here - Len(taken) = start
      BY <1>11
    <3>2. TakenBy(c)' = taken /\ Here(c)' = here
      BY <1>12
    <3> HIDE DEF taken, here, start
    <3>3. Here(c)' - Len(TakenBy(c)') = start
      BY <3>1, <3>2, Zenon
    <3> QED
      BY <3>3 DEF start
  <2>4. (asked[c] # NoRequest /\ dev.circular_buffer.out_offs = 0
           => SoughtAt(Char!Commands, asked[c], Here(c) - Len(TakenBy(c))))'
    <3> HIDE DEF pos
    <3> QED
      BY <2>2, <2>3 DEF Grows, SoughtAt
  <2> QED
    BY <2>1, <2>4 DEF ReplyFor
<1>16. PositionFor(c)'
  <2>1. f_pos'[c] <= Len(Char!Stored')
    BY <1>1, <1>5, <1>6, TextTyped DEF Grows
  <2>2. frame'[c].retval = Len(given) /\ frame'[c].pos = f_pos'[c] + Len(given)
    BY <1>1, <1>6
  <2> QED
    BY <1>4, <2>1, <2>2 DEF PositionFor
<1> QED
  BY <1>4, <1>6, <1>7, <1>8, <1>9, <1>15, <1>16, TextTyped

\* Positions are numbers.
LEMMA PositionTyped == Char!StreamInv => f_pos \in [User -> Nat]
BY DriverTypes

\* A call of a thread is at its write.
LEMMA AtWrite ==
  ASSUME ServerSide, NEW c \in Conn, dpc[c] # "user", req[c].op = "write"
  PROVE  pc[c] = "write" /\ asked[c] = NoRequest /\ req[c].buf = Bytes(buffer[c])
<1>1. CallFor(c)
  BY DEF ServerSide
<1>2. [op |-> "read", file |-> c, count |-> BufferSize].op # "write"
  OBVIOUS
<1>3. [op |-> "ioctl", file |-> c, seekto |-> asked[c]].op # "write"
  OBVIOUS
<1>4. pc[c] = "write" /\ asked[c] = NoRequest
      /\ req[c] = [op |-> "write", file |-> c, buf |-> Bytes(buffer[c])]
  BY <1>1, <1>2, <1>3 DEF CallFor
<1> QED
  BY <1>4

\* Or at its ioctl.
LEMMA AtIoctl ==
  ASSUME ServerSide, NEW c \in Conn, dpc[c] # "user", req[c].op = "ioctl"
  PROVE  pc[c] = "ioctl" /\ asked[c] \in SeekTo /\ req[c].seekto = asked[c]
<1>1. CallFor(c)
  BY DEF ServerSide
<1>2. [op |-> "read", file |-> c, count |-> BufferSize].op # "ioctl"
  OBVIOUS
<1>3. [op |-> "write", file |-> c, buf |-> Bytes(buffer[c])].op # "ioctl"
  OBVIOUS
<1>4. pc[c] = "ioctl" /\ asked[c] \in SeekTo
      /\ req[c] = [op |-> "ioctl", file |-> c, seekto |-> asked[c]]
  BY <1>1, <1>2, <1>3 DEF CallFor
<1> QED
  BY <1>4

\* There nothing has been taken yet.
LEMMA NothingTaken ==
  ASSUME ServerSide, NEW c \in Conn, pc[c] \in {"write", "ioctl"},
         UNCHANGED <<pc[c], got[c]>>
  PROVE  TakenBy(c)' = <<>> /\ Len(TakenBy(c)') = 0 /\ Here(c)' = f_pos'[c]
<1>1. got[c] = <<>>
  BY DEF ServerSide, ChunkFor
<1>2. Answered(c)' = <<>>
  <2>1. [i \in DOMAIN got'[c] |-> got'[c][i].bytes] = <<>>
    BY <1>1
  <2> QED
    BY <2>1, NothingFlat DEF Answered
<1>3. Piece(c)' = <<>> /\ Here(c)' = f_pos'[c]
  BY DEF Piece, HasRead, Here
<1>4. <<>> \o <<>> = <<>>
  OBVIOUS
<1>5. TakenBy(c)' = <<>>
  BY <1>2, <1>3, <1>4 DEF TakenBy
<1> QED
  BY <1>3, <1>5

\* A line that is stored is the first thing its answer has to say.
LEMMA LineStarts ==
  ASSUME ServerSide, Char!StreamInv, Char!StreamInv', NEW c \in Conn, PositionFor(c), Grows, ~dropped[c],
         UNCHANGED <<pc[c], buffer[c], got[c], asked[c]>>,
         Driver!AddCommand(c), ~dev.circular_buffer.full
  PROVE  PositionFor(c)' /\ ReplyFor(c)'
<1>1. /\ Char!AddCommand(c) /\ c \in User /\ dpc[c] = "store" /\ req[c].op = "write"
      /\ dpc' = [dpc EXCEPT ![c] = "unlock"] /\ UNCHANGED <<f_pos, frame>>
  BY SameSteps, DeviceUsers DEF Driver!AddCommand, Driver!At, Driver!Goto
<1>2. pc[c] = "write" /\ asked[c] = NoRequest /\ req[c].buf = Bytes(buffer[c])
  BY <1>1, AtWrite
<1>3. frame[c].retval = Len(req[c].buf)
  BY <1>1 DEF ServerSide, DriverCalls
<1>4. Len(Char!Stored) + Len(req[c].buf) <= Len(Char!Stored')
  BY <1>1, <1>3, SameAssumptions, Char!StoreExtends
<1>5. Len(req[c].buf) \in {1, 2}
  BY <1>2 DEF Bytes
<1>6. HasDevice(c) /\ f_pos[c] <= Len(Char!Stored) /\ f_pos[c] \in Nat /\ frame[c].pos = f_pos[c]
  <2>1. HasDevice(c) /\ ~HasRead(c)
    BY <1>2 DEF HasDevice, ServedPlaces, HasRead
  <2> QED
    BY <1>1, <1>2, <2>1, TakenTyped DEF PositionFor
<1>7. f_pos'[c] = f_pos[c] /\ f_pos'[c] < Len(Char!Stored') /\ f_pos'[c] \in Nat
  <2> DEFINE m == Len(Char!Stored)
             n == Len(Char!Stored')
             k == Len(req[c].buf)
  <2>1. m \in Nat /\ n \in Nat
    BY DEF Grows
  <2>2. k \in {1, 2} /\ m + k <= n /\ f_pos[c] <= m
    BY <1>4, <1>5, <1>6
  <2> HIDE DEF m, n, k
  <2>3. f_pos[c] < n
    BY <1>6, <2>1, <2>2
  <2> QED
    BY <1>1, <1>6, <2>3 DEF n
<1>8. PositionFor(c)'
  <2>1. ~HasRead(c)' /\ frame'[c].pos = f_pos'[c]
    BY <1>1, <1>2, <1>6, <1>7 DEF HasRead
  <2>2. f_pos'[c] <= Len(Char!Stored')
    BY <1>7 DEF Grows
  <2> QED
    BY <2>1, <2>2 DEF PositionFor
<1>9. ReplyFor(c)'
  <2>1. TakenBy(c)' = <<>> /\ Here(c)' = f_pos'[c]
    BY <1>2, NothingTaken
  <2>2. TakenOf(Char!Stored', <<>>, f_pos'[c])
    <3>1. Char!Stored' \in Seq(Char!Byte)
      BY DEF Grows
    <3> QED
      BY <1>7, <3>1, TakingBegins
  <2>3. TakenOf(Char!Stored, TakenBy(c), Here(c))'
    BY <2>1, <2>2 DEF TakenOf
  <2> QED
    BY <1>2, <2>3 DEF ReplyFor
<1> QED
  BY <1>8, <1>9

\* After a seek the answer starts there.
LEMMA SeekStarts ==
  ASSUME ServerSide, Char!StreamInv, Char!StreamInv', NEW c \in Conn, PositionFor(c), Grows, ~dropped[c],
         UNCHANGED <<pc[c], buffer[c], got[c], asked[c]>>, Driver!AdjustOffset(c)
  PROVE  PositionFor(c)' /\ ReplyFor(c)'
<1>1. /\ Char!AdjustOffset(c) /\ c \in User /\ dpc[c] = "adjust" /\ req[c].op = "ioctl"
      /\ f_pos' = [f_pos EXCEPT ![req[c].file] = Driver!SeekToOffset(req[c].seekto)]
  BY SameSteps, DeviceUsers DEF Driver!AdjustOffset, Driver!At
<1>2. pc[c] = "ioctl" /\ asked[c] \in SeekTo /\ req[c].seekto = asked[c] /\ req[c].file = c
  BY <1>1, AtIoctl, OwnFile
<1>3. loaded /\ Char!HeapInv
  BY <1>1, <1>2, SameAssumptions, Char!InsideIsLoaded DEF Char!StreamInv, Char!HeapInv
<1>4. f_pos'[c] < Len(Char!Stored)
  BY <1>1, <1>2, <1>3, SameAssumptions, Char!AdjustsInside DEF Char!Stored
<1>5. f_pos'[c] \in Nat
  <2>1. (f_pos \in [User -> Nat])'
    BY PositionTyped, PTL
  <2> QED
    BY <1>1, <2>1
<1>6. f_pos'[c] < Len(Char!Stored')
  BY <1>4, <1>5 DEF Grows
<1>7. HasDevice(c) /\ ~HasRead(c)'
  BY <1>2 DEF HasDevice, ServedPlaces, HasRead
<1>8. PositionFor(c)'
  BY <1>2, <1>5, <1>6, <1>7 DEF PositionFor, Grows
<1>9. TakenBy(c)' = <<>> /\ Len(TakenBy(c)') = 0 /\ Here(c)' = f_pos'[c]
  BY <1>2, NothingTaken
<1>10. TakenOf(Char!Stored, TakenBy(c), Here(c))'
  <2>1. TakenOf(Char!Stored', <<>>, f_pos'[c])
    <3>1. Char!Stored' \in Seq(Char!Byte)
      BY DEF Grows
    <3> QED
      BY <1>5, <1>6, <3>1, TakingBegins
  <2> QED
    BY <1>9, <2>1 DEF TakenOf
<1>11. ASSUME dev.circular_buffer.out_offs = 0
       PROVE  SoughtAt(Char!Commands', asked[c], f_pos'[c])
  <2>1. Char!FindsCommand(c)
    BY <1>1, <1>3, <1>11, SameAssumptions, Char!AdjustFinds
  <2>2. SoughtAt(Char!Commands, asked[c], f_pos'[c])
    BY <1>2, <2>1, SameText DEF Char!FindsCommand, SoughtAt
  <2> QED
    BY <1>2, <2>2, SoughtStays
<1>12. Here(c)' - Len(TakenBy(c)') = f_pos'[c]
  BY <1>5, <1>9
<1>13. (asked[c] # NoRequest /\ dev.circular_buffer.out_offs = 0
          => SoughtAt(Char!Commands, asked[c], Here(c) - Len(TakenBy(c))))'
  BY <1>11, <1>12 DEF Grows, SoughtAt
<1> QED
  BY <1>8, <1>10, <1>13 DEF ReplyFor

\* What a thread does inside the driver keeps both.
LEMMA WorksKeepReply ==
  ASSUME ServerSide, Char!StreamInv, Char!StreamInv', NEW c \in Conn, PositionFor(c), ReplyFor(c),
         Grows, ~dropped[c], ~dropped'[c], Works(c), Still(c)
  PROVE  PositionFor(c)' /\ ReplyFor(c)'
<1>1. /\ UNCHANGED <<pc[c], buffer[c], got[c], asked[c]>> /\ c \in User /\ CallFor(c)
      /\ dpc[c] \notin {"user", "return"} /\ dpc'[c] # "user" /\ DriverStep(c)
  BY DeviceUsers DEF Works, Still, ServerSide
<1>2. dpc \in [User -> Char!Places] /\ frame \in [User -> Char!Frame]
  BY DriverTypes
<1>3. HasDevice(c)
  BY <1>1 DEF CallFor, HasDevice, ServedPlaces
<1>4. ASSUME NEW place, dpc' = [dpc EXCEPT ![c] = place] PROVE dpc'[c] = place
  BY <1>1, <1>2, <1>4
<1>5. CASE Driver!Lock(c)
  <2>1. /\ dpc[c] = "lock" /\ UNCHANGED <<f_pos, frame>>
        /\ dpc' = [dpc EXCEPT ![c] = Char!FirstPlace(req[c].op)]
    BY <1>5 DEF Driver!Lock, Driver!Goto, Driver!FirstPlace, Char!FirstPlace
  <2>2. req[c] \in Char!Request
    BY <2>1 DEF Char!StreamInv, Char!HeapInv, Char!HolderInv, Char!InCall
  <2>3. Char!FirstPlace(req[c].op) \in {"copy_out", "alloc", "size", "adjust"}
    BY <2>2 DEF Char!Request, Char!FirstPlace
  <2>4. ~Done(c) /\ ~Done(c)'
    BY <1>4, <2>1, <2>3 DEF Done
  <2> QED
    BY <1>1, <2>1, <2>4, BothStay
<1>6. CASE Driver!Alloc(c)
  <2>1. /\ dpc[c] = "alloc" /\ UNCHANGED f_pos /\ dpc' = [dpc EXCEPT ![c] = "copy_in"]
        /\ \E new : frame' = [frame EXCEPT ![c].temp_buf = new]
    BY <1>6 DEF Driver!Alloc, Driver!At, Driver!Goto
  <2>2. frame'[c].pos = frame[c].pos
    BY <1>1, <1>2, <2>1 DEF Char!Frame
  <2>3. ~Done(c) /\ ~Done(c)'
    BY <1>4, <2>1 DEF Done
  <2> QED
    BY <1>1, <2>1, <2>2, <2>3, BothStay
<1>7. CASE Driver!CopyIn(c)
  <2>1. /\ dpc[c] = "copy_in" /\ UNCHANGED f_pos /\ dpc' = [dpc EXCEPT ![c] = "store"]
        /\ \E n : frame' = [frame EXCEPT ![c].retval = n]
    BY <1>7 DEF Driver!CopyIn, Driver!At, Driver!Goto
  <2>2. frame'[c].pos = frame[c].pos
    BY <1>1, <1>2, <2>1 DEF Char!Frame
  <2>3. ~Done(c) /\ ~Done(c)'
    BY <1>4, <2>1 DEF Done
  <2> QED
    BY <1>1, <2>1, <2>2, <2>3, BothStay
<1>8. CASE Driver!Unlock(c)
  <2>1. /\ dpc[c] = "unlock" /\ UNCHANGED <<f_pos, frame>>
        /\ \E place \in {"seek", "return"} : dpc' = [dpc EXCEPT ![c] = place]
        /\ req[c].op # "llseek" => dpc' = [dpc EXCEPT ![c] = "return"]
    BY <1>8 DEF Driver!Unlock, Driver!Goto
  <2>2. req[c].op # "llseek"
    <3>1. [op |-> "write", file |-> c, buf |-> Bytes(buffer[c])].op # "llseek"
      OBVIOUS
    <3>2. [op |-> "read", file |-> c, count |-> BufferSize].op # "llseek"
      OBVIOUS
    <3>3. [op |-> "ioctl", file |-> c, seekto |-> asked[c]].op # "llseek"
      OBVIOUS
    <3> QED
      BY <1>1, <3>1, <3>2, <3>3 DEF CallFor
  <2>3. Done(c) /\ Done(c)'
    BY <1>4, <2>1, <2>2 DEF Done
  <2> QED
    BY <1>1, <2>1, <2>3, BothStay
<1>9. CASE Driver!AllocFails(c) \/ Driver!AdjustRefused(c)
  <2>1. /\ UNCHANGED f_pos /\ dpc' = [dpc EXCEPT ![c] = "unlock"] /\ req[c].op \in {"write", "ioctl"}
        /\ \E error \in {Driver!ENOMEM, Driver!EINVAL} : frame' = [frame EXCEPT ![c].retval = -error]
    BY <1>9 DEF Driver!AllocFails, Driver!AdjustRefused, Driver!At, Driver!Goto, Driver!ExitWith
  <2>2. pc[c] \in {"write", "ioctl"}
    BY <1>1, <2>1, AtWrite, AtIoctl
  <2>3. ~(frame'[c].retval >= 0) /\ frame'[c].pos = frame[c].pos
    <3>1. PICK error \in {Driver!ENOMEM, Driver!EINVAL} : frame' = [frame EXCEPT ![c].retval = -error]
      BY <2>1
    <3>2. ~(-error >= 0)
      BY <3>1 DEF Driver!ENOMEM, Driver!EINVAL
    <3>3. frame'[c].retval = -error /\ frame'[c].pos = frame[c].pos
      BY <1>1, <1>2, <3>1 DEF Char!Frame
    <3> QED
      BY <3>2, <3>3
  <2>4. ~HasRead(c)' /\ ~Due(c)' /\ ~HasRead(c)
    BY <1>1, <2>2, <2>3 DEF HasRead, Due
  <2>5. pc'[c] \in {"write", "read"} => frame'[c].pos = f_pos[c]
    BY <1>1, <1>3, <2>2, <2>3, <2>4 DEF PositionFor
  <2> QED
    BY <1>3, <2>1, <2>4, <2>5, NothingDue
<1>10. CASE Driver!CachePartial(c)
  <2>1. /\ Char!CachePartial(c) /\ UNCHANGED <<f_pos, frame>> /\ req[c].op = "write"
        /\ dpc[c] = "store"
    BY <1>1, <1>10, SameSteps DEF Driver!CachePartial, Driver!At
  <2>2. pc[c] = "write" /\ req[c].buf = Bytes(buffer[c])
    BY <1>1, <2>1, AtWrite
  <2>3. frame[c].retval = Len(req[c].buf)
    BY <1>1, <2>1 DEF ServerSide, DriverCalls
  <2>4. buffer[c].kind = "text"
    <3>1. ~Char!Contains(Char!Partial \o req[c].buf, NL) /\ req[c].buf \in Seq(Char!Byte)
      BY <1>1, <2>1, <2>3, SameAssumptions, Char!WholeStore
    <3>2. Char!Partial \in Seq(Char!Byte)
      BY SameAssumptions, Char!InvariantTyped
    <3>3. CASE buffer[c].kind # "text"
      <4>1. req[c].buf = <<buffer[c], NL>>
        BY <2>2, <3>3 DEF Bytes
      <4> DEFINE p == Char!Partial
                 b == req[c].buf
      <4>2. Len(b) = 2 /\ b[2] = NL /\ b \in Seq(Char!Byte) /\ p \in Seq(Char!Byte)
        BY <3>1, <3>2, <4>1
      <4> HIDE DEF p, b
      <4>3. (p \o b)[Len(p) + 2] = NL /\ Len(p) + 2 \in 1 .. Len(p \o b)
        BY <4>2
      <4>4. Char!Contains(p \o b, NL)
        BY <4>3 DEF Char!Contains
      <4> QED
        BY <3>1, <4>4 DEF p, b
    <3> QED
      BY <3>3
  <2>5. ~HasRead(c)' /\ ~Due(c)' /\ ~HasRead(c)
    BY <1>1, <2>2, <2>4 DEF HasRead, Due
  <2>6. pc'[c] \in {"write", "read"} => frame'[c].pos = f_pos[c]
    BY <1>1, <1>3, <2>1, <2>2, <2>5 DEF PositionFor
  <2> QED
    BY <1>3, <2>1, <2>5, <2>6, NothingDue
<1>11. CASE Driver!AddCommand(c)
  <2>1. dpc[c] = "store" /\ Driver!At(c, "write", "store")
    BY <1>11 DEF Driver!AddCommand, Driver!At
  <2>2. ~dev.circular_buffer.full
    <3>1. ~InDriver(c)
      BY <1>11, <2>1 DEF InDriver, Driver!Lock, Driver!CopyOut, Driver!Alloc, Driver!AllocFails,
         Driver!CopyIn, Driver!CachePartial, Driver!AddCommand,
         Driver!AdjustOffset, Driver!AdjustRefused, Driver!Unlock, Driver!At
    <3>2. dropped' = IF dev.circular_buffer.full THEN [d \in Conn |-> TRUE] ELSE dropped
      BY <1>1, <3>1 DEF DriverStep
    <3> QED
      BY <3>2
  <2> QED
    BY <1>1, <1>11, <2>2, LineStarts
<1>12. CASE Driver!CopyOut(c)
  BY <1>1, <1>12, CopyTakes
<1>13. CASE Driver!AdjustOffset(c)
  BY <1>1, <1>13, SeekStarts
<1> QED
  BY <1>1, <1>5, <1>6, <1>7, <1>8, <1>9, <1>10, <1>11, <1>12, <1>13 DEF DriverStep, InDriver

----------------------------------------------------------------------------
(* The steps of handle_connection between the system calls.                *)

\* The parts of a step that both need.
AnswerStep(c) ==
  /\ ServerSide /\ Char!StreamInv /\ Char!StreamInv' /\ [NextOnDevice]_allvars
  /\ PositionFor(c) /\ ReplyFor(c) /\ Grows /\ ~dropped[c] /\ HasDevice(c)

\* An answer that goes on, at the position of the file, outside a call.
LEMMA ReplyGoesOn ==
  ASSUME NEW c \in Conn, AnswerStep(c), Due(c), dpc'[c] = "user",
         TakenBy(c)' = TakenBy(c), f_pos'[c] = Here(c), asked'[c] = asked[c]
  PROVE  PositionFor(c)' /\ ReplyFor(c)'
<1>1. ~HasRead(c)' /\ Here(c)' = Here(c)
  BY DEF HasRead, Done, Here
<1>2. ReplyFor(c)'
  BY <1>1, ReplyStays DEF AnswerStep
<1>3. Here(c) <= Len(Char!Stored) /\ Here(c) \in Nat
  BY DEF AnswerStep, ReplyFor, TakenOf
<1>4. f_pos'[c] <= Len(Char!Stored')
  BY <1>3 DEF AnswerStep, Grows
<1> QED
  BY <1>1, <1>2, <1>4 DEF PositionFor

\* Outside a call nothing has been read that is not yet at hand.
LEMMA TakenOutside ==
  ASSUME ServerSide, Char!StreamInv, NEW c \in Conn, ~HasRead(c), pc[c] # "send"
  PROVE  TakenBy(c) = Answered(c) /\ Here(c) = f_pos[c] /\ Piece(c) = <<>>
<1>1. Piece(c) = <<>>
  BY DEF Piece
<1> QED
  BY <1>1, TakenTyped DEF Here

\* From one system call to the next, and at the send.
LEMMA MovesKeepReply ==
  ASSUME OneAtATime, NEW c \in Conn, AnswerStep(c), ~CloseDevice(c), Rests(c),
         MovesOn(c) \/ Takes(c) \/ Replies(c)
  PROVE  PositionFor(c)' /\ ReplyFor(c)'
<1>1. /\ ServerSide /\ Char!StreamInv /\ [NextOnDevice]_allvars /\ PositionFor(c) /\ Grows
      /\ ~dropped[c] /\ HasDevice(c)
  BY DEF AnswerStep
<1>2. CallFor(c) /\ ChunkFor(c)
  BY <1>1 DEF ServerSide
<1>3. dpc[c] = "user" /\ dpc'[c] = "user"
  BY <1>2, OutOfDriver DEF MovesOn, Takes, Replies, Rests
<1>4. f_pos'[c] = f_pos[c]
  <2>1. ~OpenDevice(c)
    BY <1>1 DEF OpenDevice, At, HasDevice, ServedPlaces, CleanupPlaces
  <2> QED
    BY <1>1, <2>1, PositionStays
<1>5. ~HasRead(c) /\ ~HasRead(c)' /\ ~Done(c)'
  BY <1>3 DEF HasRead, Done
<1>6. CASE MovesOn(c) \/ Takes(c)
  <2>1. ~Due(c)'
    BY <1>5, <1>6 DEF Due, MovesOn, Takes
  <2> QED
    BY <1>1, <1>3, <1>4, <1>5, <2>1, NothingDue
<1>7. CASE Replies(c)
  <2>1. /\ pc[c] = "send" /\ pc'[c] = "read" /\ got'[c] = Append(got[c], buffer[c])
        /\ buffer[c] \in Answers /\ asked'[c] = asked[c]
    BY <1>2, <1>7 DEF Replies, ChunkFor
  <2>2. Answered(c)' = Answered(c) \o buffer[c].bytes
    BY <1>1, <2>1, AnsweredGrows DEF ServerSide
  <2>3. TakenBy(c) = Answered(c) \o buffer[c].bytes /\ TakenBy(c) \in Seq(Char!Byte)
    BY <1>1, <2>1, TakenTyped DEF TakenBy, Piece
  <2>4. Piece(c)' = <<>>
    BY <1>5, <2>1 DEF Piece
  <2>5. TakenBy(c)' = TakenBy(c)
    <3> DEFINE taken == TakenBy(c)
    <3>1. TakenBy(c)' = taken \o <<>>
      BY <2>2, <2>3, <2>4 DEF TakenBy
    <3>2. taken \in Seq(Char!Byte)
      BY <2>3
    <3> HIDE DEF taken
    <3>3. taken \o <<>> = taken
      BY <3>2, ConcatEmptySeq
    <3> QED
      BY <3>1, <3>3 DEF taken
  <2>6. Due(c) /\ Here(c) = f_pos[c]
    BY <1>5, <2>1 DEF Due, Here
  <2> QED
    BY <1>3, <1>4, <2>1, <2>5, <2>6, ReplyGoesOn
<1> QED
  BY <1>6, <1>7

\* Into a system call.
LEMMA EntersKeepReply ==
  ASSUME NEW c \in Conn, AnswerStep(c), Enters(c)
  PROVE  PositionFor(c)' /\ ReplyFor(c)'
<1>1. /\ ServerSide /\ Char!StreamInv /\ [NextOnDevice]_allvars /\ PositionFor(c) /\ ReplyFor(c)
      /\ Grows /\ ~dropped[c] /\ HasDevice(c)
  BY DEF AnswerStep
<1>2. EnterDriver(c) /\ UNCHANGED <<pc[c], buffer[c], got[c]>> /\ c \in User
  BY DeviceUsers DEF Enters
<1>3. PICK r : /\ Calls(c, r) /\ r.file = c
               /\ \/ /\ pc[c] = "write" /\ asked'[c] = NoRequest
                     /\ r = [op |-> "write", file |-> c, buf |-> Bytes(buffer[c])]
                  \/ /\ pc[c] = "read" /\ asked'[c] = asked[c]
                     /\ r = [op |-> "read", file |-> c, count |-> BufferSize]
                  \/ /\ pc[c] = "ioctl" /\ asked'[c] \in SeekTo
                     /\ r = [op |-> "ioctl", file |-> c, seekto |-> asked'[c]]
  BY <1>1, <1>2, EntersCalls
<1>4. /\ dpc[c] = "user" /\ dpc'[c] = "lock" /\ f_pos' = f_pos
      /\ frame' = [frame EXCEPT ![c] =
                     Char!NewFrame(IF r.op \in {"read", "write"} THEN f_pos[r.file] ELSE 0)]
  BY <1>3 DEF Calls, Char!Call
<1>5. ~HasRead(c) /\ ~HasRead(c)' /\ ~Done(c)'
  BY <1>4 DEF HasRead, Done
<1>6. pc'[c] \in {"write", "read"} => frame'[c].pos = f_pos[c]
  <2>1. CASE r.op \in {"read", "write"}
    <3>1. frame'[c] = Char!NewFrame(f_pos[c])
      BY <1>1, <1>2, <1>3, <1>4, <2>1, DriverTypes
    <3> QED
      BY <3>1 DEF Char!NewFrame
  <2>2. CASE r.op \notin {"read", "write"}
    <3>1. [op |-> "write", file |-> c, buf |-> Bytes(buffer[c])].op \in {"read", "write"}
      OBVIOUS
    <3>2. [op |-> "read", file |-> c, count |-> BufferSize].op \in {"read", "write"}
      OBVIOUS
    <3> QED
      BY <1>2, <1>3, <2>2, <3>1, <3>2
  <2> QED
    BY <2>1, <2>2
<1>7. CASE pc[c] = "read"
  <2>1. asked'[c] = asked[c]
    BY <1>3, <1>7
  <2>2. Answered(c)' = Answered(c)
    BY <1>2 DEF Answered
  <2>3. Piece(c)' = Piece(c) /\ Here(c)' = Here(c)
    BY <1>2, <1>4, <1>5, <1>7 DEF Piece, Here
  <2>4. TakenBy(c)' = TakenBy(c)
    BY <2>2, <2>3 DEF TakenBy
  <2>5. ReplyFor(c)'
    BY <1>1, <1>7, <2>1, <2>3, <2>4, ReplyStays DEF Due
  <2>6. f_pos'[c] <= Len(Char!Stored')
    BY <1>1, <1>4, TakenTyped DEF PositionFor, Grows
  <2> QED
    BY <1>4, <1>5, <1>6, <2>5, <2>6 DEF PositionFor
<1>8. CASE pc[c] # "read"
  <2>1. ~Due(c)'
    BY <1>2, <1>3, <1>5, <1>8 DEF Due
  <2> QED
    BY <1>1, <1>4, <1>5, <1>6, <2>1, NothingDue
<1> QED
  BY <1>7, <1>8

\* Out of a system call.
LEMMA LeavesKeepReply ==
  ASSUME OneAtATime, NEW c \in Conn, AnswerStep(c), Leaves(c), Returns(c)
  PROVE  PositionFor(c)' /\ ReplyFor(c)'
<1> DEFINE ret == frame[c].retval
<1>1. /\ ServerSide /\ Char!StreamInv /\ [NextOnDevice]_allvars /\ PositionFor(c) /\ ReplyFor(c)
      /\ Grows /\ ~dropped[c] /\ HasDevice(c) /\ CallFor(c) /\ c \in User /\ UseCharDevice
  BY DeviceUsers DEF AnswerStep, ServerSide, OneAtATime
<1>2. /\ dpc[c] = "return" /\ dpc'[c] = "user" /\ Char!Return(c) /\ req[c].file = c
      /\ got'[c] = got[c] /\ asked'[c] = asked[c] /\ Done(c) /\ ~Done(c)' /\ ~HasRead(c)'
  BY <1>1, OwnFile DEF Leaves, Returns, Done, HasRead
<1>3. f_pos'[c] = IF req[c].op \in {"read", "write"} /\ ret >= 0 THEN frame[c].pos ELSE f_pos[c]
  <2>1. f_pos' = IF req[c].op \in {"read", "write"} /\ ret >= 0
                 THEN [f_pos EXCEPT ![c] = frame[c].pos] ELSE f_pos
    BY <1>2 DEF Char!Return
  <2> HIDE DEF ret
  <2> QED
    BY <1>1, <2>1, DriverTypes
<1>4. Answered(c)' = Answered(c)
  BY <1>2 DEF Answered
<1>5. ret \in Int
  BY <1>1, DriverTypes
<1>6. ASSUME pc[c] # "read", f_pos'[c] = f_pos[c], ~Due(c)' PROVE PositionFor(c)' /\ ReplyFor(c)'
  BY <1>1, <1>2, <1>6, NothingDue
<1>7. ASSUME pc[c] # "read", pc[c] # "send", Due(c), pc'[c] = "read", f_pos'[c] = f_pos[c]
      PROVE  PositionFor(c)' /\ ReplyFor(c)'
  <2>1. TakenBy(c) = Answered(c) /\ Here(c) = f_pos[c] /\ Piece(c) = <<>>
    BY <1>1, <1>7, TakenOutside DEF HasRead
  <2>2. Piece(c)' = <<>>
    BY <1>2, <1>7 DEF Piece
  <2>3. TakenBy(c)' = TakenBy(c)
    BY <1>4, <2>1, <2>2 DEF TakenBy
  <2> QED
    BY <1>2, <1>7, <2>1, <2>3, ReplyGoesOn
<1>8. CASE pc[c] = "read"
  <2>1. req[c].op = "read"
    <3>1. req[c] = [op |-> "read", file |-> c, count |-> BufferSize]
      BY <1>1, <1>2, <1>8 DEF CallFor
    <3> QED
      BY <3>1
  <2>2. HasRead(c) /\ Due(c) /\ Here(c) = frame[c].pos /\ ret = Len(frame[c].given)
    BY <1>1, <1>2, <1>8 DEF HasRead, Due, Here, PositionFor
  <2>3. frame[c].given \in Seq(Char!Byte) /\ Len(frame[c].given) \in Nat
    BY <1>1, DriverTypes
  <2>4. ret >= 0 /\ f_pos'[c] = Here(c) /\ (ret = 0 \/ ret > 0)
    BY <1>3, <2>1, <2>2, <2>3
  <2>5. pc'[c] = (IF ret = 0 THEN "recv" ELSE "send")
        /\ (ret > 0 => buffer'[c] = Excerpt(frame[c].given))
    <3> HIDE DEF ret
    <3>1. ~(ret < 0)
      BY <1>5, <2>4
    <3> QED
      BY <1>8, <3>1 DEF Leaves, ret
  <2>6. CASE ret = 0
    <3>1. ~Due(c)'
      BY <2>5, <2>6 DEF Due
    <3>2. Here(c) <= Len(Char!Stored) /\ Here(c) \in Nat
      BY <1>1, <2>2 DEF ReplyFor, TakenOf
    <3>3. f_pos'[c] <= Len(Char!Stored')
      BY <1>1, <2>4, <3>2 DEF Grows
    <3> QED
      BY <1>2, <3>1, <3>3 DEF PositionFor, ReplyFor
  <2>7. CASE ret > 0
    <3>1. pc'[c] = "send" /\ buffer'[c].bytes = frame[c].given
      BY <2>5, <2>7 DEF Excerpt
    <3>2. Piece(c)' = Piece(c)
      BY <1>8, <2>2, <3>1 DEF Piece
    <3>3. TakenBy(c)' = TakenBy(c)
      BY <1>4, <3>2 DEF TakenBy
    <3> QED
      BY <1>2, <2>2, <2>4, <3>3, ReplyGoesOn
  <2> QED
    BY <2>4, <2>6, <2>7
<1>9. CASE pc[c] = "write"
  <2>1. ~HasRead(c) /\ frame[c].pos = f_pos[c]
    BY <1>1, <1>2, <1>9 DEF HasRead, PositionFor
  <2>2. f_pos'[c] = f_pos[c]
    BY <1>3, <2>1
  <2>3. pc'[c] = IF ret < 0 THEN "cleanup" ELSE IF buffer[c].kind = "text" THEN "recv" ELSE "read"
    BY <1>1, <1>9 DEF Leaves, Answer
  <2>4. CASE ret < 0 \/ buffer[c].kind = "text"
    <3>1. ~Due(c)'
      BY <2>3, <2>4 DEF Due
    <3> QED
      BY <1>6, <1>9, <2>2, <3>1
  <2>5. CASE ret >= 0 /\ buffer[c].kind # "text"
    <3> HIDE DEF ret
    <3>1. ~(ret < 0)
      BY <1>5, <2>5
    <3>2. pc'[c] = "read" /\ Due(c)
      BY <1>2, <1>9, <2>3, <2>5, <3>1 DEF Due, ret
    <3> QED
      BY <1>7, <1>9, <2>2, <3>2
  <2> HIDE DEF ret
  <2> QED
    BY <1>5, <2>4, <2>5
<1>10. CASE pc[c] = "ioctl"
  <2>1. f_pos'[c] = f_pos[c]
    <3>1. [op |-> "ioctl", file |-> c, seekto |-> asked[c]].op \notin {"read", "write"}
      OBVIOUS
    <3>2. req[c].op \notin {"read", "write"}
      BY <1>1, <1>2, <1>10, <3>1 DEF CallFor
    <3> QED
      BY <1>3, <3>2
  <2>2. pc'[c] = IF ret < 0 THEN "cleanup" ELSE "read"
    BY <1>10 DEF Leaves
  <2>3. CASE ret < 0
    <3>1. ~Due(c)'
      BY <2>2, <2>3 DEF Due
    <3> QED
      BY <1>6, <1>10, <2>1, <3>1
  <2>4. CASE ret >= 0
    <3> HIDE DEF ret
    <3>1. ~(ret < 0)
      BY <1>5, <2>4
    <3>2. pc'[c] = "read" /\ Due(c)
      BY <1>2, <1>10, <2>2, <2>4, <3>1 DEF Due, ret
    <3> QED
      BY <1>7, <1>10, <2>1, <3>2
  <2> HIDE DEF ret
  <2> QED
    BY <1>5, <2>3, <2>4
<1> QED
  BY <1>8, <1>9, <1>10 DEF Leaves

\* Every step keeps both.
LEMMA StepKeepsReply ==
  ASSUME OneAtATime, ServerSide, Char!StreamInv, Char!StreamInv', [NextOnDevice]_allvars,
         NEW c \in Conn, PositionFor(c), ReplyFor(c)
  PROVE  PositionFor(c)' /\ ReplyFor(c)'
<1>1. Due(c)' => HasDevice(c)'
  BY DEF Due, HasDevice, ServedPlaces
<1>2. CASE dropped'[c] \/ ~HasDevice(c)'
  BY <1>1, <1>2 DEF PositionFor, ReplyFor
<1>3. CASE HasDevice(c)' /\ ~dropped'[c] /\ HasDevice(c)
  <2>1. ~dropped[c] /\ Grows
    BY <1>3, DropsOrGrows
  <2>2. AnswerStep(c)
    BY <1>3, <2>1 DEF AnswerStep
  <2>3. ~OpenDevice(c)
    BY <1>3 DEF OpenDevice, At, HasDevice, ServedPlaces, CleanupPlaces
  <2>4. ~CloseDevice(c)
    <3>1. CloseDevice(c) => pc'[c] = "close_socket"
      BY WorkerMoved DEF CloseDevice, ServerSide, ThreadInv
    <3> QED
      BY <1>3, <3>1 DEF HasDevice, ServedPlaces, CleanupPlaces
  <2>5. CASE Rests(c) /\ (Still(c) \/ Puts(c))
    <3>1. f_pos'[c] = f_pos[c]
      BY <2>3, <2>4, <2>5, PositionStays
    <3>2. Done(c)' <=> Done(c)
      BY <2>5 DEF Done, Rests
    <3> QED
      BY <2>1, <2>5, <3>1, <3>2, BothStay DEF Rests, Still, Puts
  <2>6. CASE Rests(c) /\ (MovesOn(c) \/ Takes(c) \/ Replies(c))
    BY <2>2, <2>4, <2>6, MovesKeepReply
  <2>7. CASE Works(c) /\ Still(c)
    BY <1>3, <2>1, <2>7, WorksKeepReply
  <2>8. CASE Enters(c)
    BY <2>2, <2>8, EntersKeepReply
  <2>9. CASE Leaves(c) /\ Returns(c)
    BY <2>2, <2>9, LeavesKeepReply
  <2> QED
    BY <2>3, <2>5, <2>6, <2>7, <2>8, <2>9, TwoKinds DEF Opens
<1>4. CASE HasDevice(c)' /\ ~dropped'[c] /\ ~HasDevice(c)
  <2>1. Opens(c) /\ Rests(c)
    <3>1. pc[c] \notin {"write", "read", "ioctl", "receiving", "send"} /\ ~(pc'[c] = pc[c])
      BY <1>4 DEF HasDevice, ServedPlaces
    <3> QED
      BY <1>4, <3>1, TwoKinds DEF Still, MovesOn, Takes, Replies, Puts, Enters, Leaves
  <2>2. CallFor(c) /\ c \in User
    BY DeviceUsers DEF ServerSide
  <2>3. dpc'[c] = "user" /\ pc'[c] \in {"recv", "cleanup"}
    BY <2>1, <2>2, OutOfDriver DEF Opens, Rests
  <2>4. f_pos'[c] = 0
    <3>1. f_pos' = [f_pos EXCEPT ![c] = 0]
      BY <2>1 DEF Opens, OpenDevice, Driver!Open
    <3> QED
      BY <2>2, <3>1, DriverTypes
  <2>5. Len(Char!Stored') \in Nat
    <3>1. (Len(Char!Stored) \in Nat)'
      BY TextTyped, PTL
    <3> QED
      BY <3>1
  <2>6. ~Due(c)' /\ ~HasRead(c)'
    BY <2>3 DEF Due, HasRead
  <2> QED
    BY <2>3, <2>4, <2>5, <2>6 DEF PositionFor, ReplyFor
<1> QED
  BY <1>2, <1>3, <1>4

----------------------------------------------------------------------------
\* The read at the end of the device finds the answer complete.
LEMMA AnswerIsComplete ==
  ASSUME OneAtATime, ServerSide, Char!StreamInv, Char!StreamInv', [NextOnDevice]_allvars,
         NEW c \in Conn, PositionFor(c), ReplyFor(c), AnswerEnds(c), ~dropped[c]
  PROVE  /\ Answered(c) # <<>> /\ IsSuffix(Answered(c), Stream)
         /\ Answered(c) = SubSeq(Stream, f_pos[c] - Len(Answered(c)) + 1, Len(Stream))
         /\ asked[c] # NoRequest /\ dev.circular_buffer.out_offs = 0
              => SoughtAt(Char!Commands, asked[c], f_pos[c] - Len(Answered(c)))
<1>1. Works(c) /\ Still(c) /\ CallFor(c)
  BY TwoKinds DEF AnswerEnds, Rests, Enters, EnterDriver, Driver!Call, Leaves, ServerSide
<1>2. Driver!CopyOut(c) /\ dropped' = dropped
  BY <1>1 DEF AnswerEnds, Works, DriverStep, InDriver, Driver!Lock, Driver!CopyOut, Driver!Alloc,
     Driver!AllocFails, Driver!CopyIn, Driver!CachePartial, Driver!AddCommand,
     Driver!AdjustOffset, Driver!AdjustRefused, Driver!Unlock, Driver!At
<1>3. HasDevice(c)
  BY <1>1 DEF AnswerEnds, CallFor, HasDevice, ServedPlaces
<1>4. Grows
  BY <1>2, <1>3, DropsOrGrows
<1>5. /\ f_pos[c] >= Len(Char!Stored) /\ TakenOf(Char!Stored, Answered(c), f_pos[c])
      /\ Due(c) /\ Here(c) = f_pos[c] /\ TakenBy(c) = Answered(c)
  BY <1>1, <1>2, <1>4, CopyTakes DEF AnswerEnds, Still
<1>6. Char!Stored \in Seq(Char!Byte) /\ Answered(c) \in Seq(Char!Byte)
  BY TextTyped, TakenTyped
<1>7. /\ Answered(c) # <<>> /\ IsSuffix(Answered(c), Char!Stored)
      /\ Answered(c) = SubSeq(Char!Stored, f_pos[c] - Len(Answered(c)) + 1, Len(Char!Stored))
  BY <1>5, <1>6, TakenToTheEnd
<1>8. asked[c] # NoRequest /\ dev.circular_buffer.out_offs = 0
        => SoughtAt(Char!Commands, asked[c], f_pos[c] - Len(Answered(c)))
  BY <1>5 DEF ReplyFor
<1> QED
  BY <1>7, <1>8, SameText

\* Positions and replies are so throughout.
LEMMA RepliesKept ==
  ASSUME OneAtATime
  PROVE  SpecOnDevice => []((ServerSide /\ Char!StreamInv)
                            /\ \A c \in Conn : PositionFor(c) /\ ReplyFor(c))
<1> DEFINE Sides == ServerSide /\ Char!StreamInv
           Replied == \A c \in Conn : PositionFor(c) /\ ReplyFor(c)
<1>1. ASSUME InitOnDevice PROVE Replied
  <2>1. \A c \in Conn : pc[c] = "unborn"
    BY <1>1, ThreadKinds DEF InitOnDevice, Init
  <2> QED
    BY <2>1 DEF PositionFor, ReplyFor, HasDevice, ServedPlaces, CleanupPlaces, Due
<1>2. ASSUME Sides, Sides', Replied, [NextOnDevice]_allvars PROVE Replied'
  BY <1>2, StepKeepsReply
<1> HIDE DEF Sides, Replied
<1>3. SpecOnDevice => []Sides
  BY SidesKept DEF Sides
<1>4. SpecOnDevice => [](Sides /\ Replied)
  BY <1>1, <1>2, <1>3, PTL DEF SpecOnDevice
<1> QED
  BY <1>4 DEF Sides, Replied

\* What send_file_data reads from the device to its end and sends back is never
\* empty, and is what the driver stores, from some byte on, as long as
\* aesd_circular_buffer_add_entry evicts nothing, whatever else is written to
\* the device while the answer is being read.
THEOREM AnswersComplete ==
  ASSUME OneAtATime PROVE SpecOnDevice => AnswersReachEnd
<1> DEFINE Inv == (ServerSide /\ Char!StreamInv) /\ \A c \in Conn : PositionFor(c) /\ ReplyFor(c)
           Whole == \A c \in Conn : AnswerEnds(c) /\ ~dropped[c] =>
                      Answered(c) # <<>> /\ IsSuffix(Answered(c), Stream)
<1>1. ASSUME Inv, Inv', [NextOnDevice]_allvars PROVE Whole
  BY <1>1, AnswerIsComplete
<1> HIDE DEF Inv, Whole
<1>2. SpecOnDevice => []Inv
  BY RepliesKept DEF Inv
<1>3. SpecOnDevice => [][Whole]_allvars
  BY <1>1, <1>2, PTL DEF SpecOnDevice
<1> QED
  BY <1>3 DEF Whole, AnswersReachEnd

\* After AESDCHAR_IOCSEEKTO:x,y the answer starts at byte y of command x, where
\* aesd_adjust_file_offset has moved the position of the connection's file: reads
\* and writes of others do not move it, and what they store goes behind it.
THEOREM AnswersStartWhereSought ==
  ASSUME OneAtATime PROVE SpecOnDevice => AnswersSeek
<1> DEFINE Inv == (ServerSide /\ Char!StreamInv) /\ \A c \in Conn : PositionFor(c) /\ ReplyFor(c)
           Sought == \A c \in Conn :
             AnswerEnds(c) /\ ~dropped[c] /\ asked[c] # NoRequest
               /\ dev.circular_buffer.out_offs = 0 =>
                 LET before == FlattenSeq(SubSeq(Driver!Commands, 1, asked[c].write_cmd))
                 IN  Answered(c) =
                       SubSeq(Stream, Len(before) + asked[c].write_cmd_offset + 1,
                              Len(Stream))
<1>1. ASSUME Inv, Inv', [NextOnDevice]_allvars PROVE Sought
  <2> SUFFICES ASSUME NEW c \in Conn, AnswerEnds(c), ~dropped[c], asked[c] # NoRequest,
                      dev.circular_buffer.out_offs = 0
               PROVE  LET before == FlattenSeq(SubSeq(Driver!Commands, 1, asked[c].write_cmd))
                      IN  Answered(c) =
                            SubSeq(Stream, Len(before) + asked[c].write_cmd_offset + 1,
                                   Len(Stream))
    OBVIOUS
  <2>1. /\ Answered(c) = SubSeq(Stream, f_pos[c] - Len(Answered(c)) + 1, Len(Stream))
        /\ SoughtAt(Char!Commands, asked[c], f_pos[c] - Len(Answered(c)))
    BY <1>1, AnswerIsComplete
  <2> QED
    BY <2>1, SameStream DEF SoughtAt
<1> HIDE DEF Inv, Sought
<1>2. SpecOnDevice => []Inv
  BY RepliesKept DEF Inv
<1>3. SpecOnDevice => [][Sought]_allvars
  BY <1>1, <1>2, PTL DEF SpecOnDevice
<1> QED
  BY <1>3 DEF Sought, AnswersSeek

\* The stream the driver implements is the same one too.
LEMMA SameStreamSpec == Char!ImplementsStream <=> Driver!ImplementsStream
<1>1. Char!NoReply = Driver!NoReply /\ \A s : Char!Prefixes(s) = Driver!Prefixes(s)
  BY DEF Char!NoReply, Driver!NoReply, Char!Prefixes, Driver!Prefixes
<1>2. Char!Reply = Driver!Reply /\ Char!Reply' = Driver!Reply'
  BY <1>1 DEF Char!Reply, Driver!Reply, Char!NoReply, Driver!NoReply
<1>3. Char!Stream!vars = Driver!Stream!vars /\ Char!Stream!vars' = Driver!Stream!vars'
  BY <1>2, SameStream DEF Char!Stream!vars, Driver!Stream!vars
<1>4. Char!Stream!Init <=> Driver!Stream!Init
  BY <1>1, <1>2, SameStream DEF Char!Stream!Init, Driver!Stream!Init
<1>5. Char!Stream!Next <=> Driver!Stream!Next
  <2>1. \A t, piece : /\ Char!Stream!Extend(t, piece) <=> Driver!Stream!Extend(t, piece)
                      /\ Char!Stream!Complete(t, piece) <=> Driver!Stream!Complete(t, piece)
    BY <1>2, SameStream
    DEF Char!Stream!Extend, Driver!Stream!Extend, Char!Stream!Complete, Driver!Stream!Complete,
        Char!Stream!Taken, Driver!Stream!Taken, Char!Stream!Contains, Driver!Stream!Contains
  <2>2. \A t, pos, n : Char!Stream!Read(t, pos, n) <=> Driver!Stream!Read(t, pos, n)
    BY <1>2, SameStream
    DEF Char!Stream!Read, Driver!Stream!Read, Char!Stream!Excerpt, Driver!Stream!Excerpt,
        Char!Stream!FlattenSeq, Driver!Stream!FlattenSeq, Char!Stream!Min, Driver!Stream!Min
  <2>3. (\A t : Char!Stream!Return(t) <=> Driver!Stream!Return(t))
        /\ (Char!Stream!Reset <=> Driver!Stream!Reset)
    BY <1>1, <1>2, SameStream
    DEF Char!Stream!Return, Driver!Stream!Return, Char!Stream!Reset, Driver!Stream!Reset
  <2>4. Char!Stream!FlattenSeq(Char!Commands) = Driver!Stream!FlattenSeq(Driver!Commands)
    BY SameStream DEF Char!Stream!FlattenSeq, Driver!Stream!FlattenSeq
  <2> QED
    BY <1>1, <2>1, <2>2, <2>3, <2>4 DEF Char!Stream!Next, Driver!Stream!Next
<1>6. Char!Stream!Spec <=> Driver!Stream!Spec
  <2>1. [Char!Stream!Next]_(Char!Stream!vars) <=> [Driver!Stream!Next]_(Driver!Stream!vars)
    BY <1>3, <1>5
  <2> QED
    BY <1>4, <2>1, PTL DEF Char!Stream!Spec, Driver!Stream!Spec
<1> QED
  BY <1>6 DEF Char!ImplementsStream, Driver!ImplementsStream

\* To the server's threads, and to the other process, the device is a stream of
\* the last commands, as it is to any user of aesd_read and aesd_write.
THEOREM ServerUsesStream == ASSUME OneAtATime PROVE SpecOnDevice => Driver!ImplementsStream
<1>1. SpecOnDevice => Char!Spec
  BY ServerUsesDriver, SameDriver, PTL
<1>2. Char!Spec => Char!ImplementsStream
  BY NothingInterrupts, SameAssumptions, Char!StreamImplemented
<1> QED
  BY <1>1, <1>2, SameStreamSpec, PTL
=============================================================================
