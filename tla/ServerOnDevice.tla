--------------------------- MODULE ServerOnDevice ---------------------------
(***************************************************************************)
(* The device build of the server over the driver: the threads of          *)
(* AesdSocket.tla make their reads, writes and ioctls on datafd through    *)
(* the file operations of AesdCharDriver.tla, and take whatever these      *)
(* return.  Another process appends lines to /dev/aesdchar at the same     *)
(* time.  A byte is a chunk, or the newline that ends a line.              *)
(***************************************************************************)
EXTENDS AesdSocketProperties

CONSTANTS
  MaxWriteOps, Ptr, NULL, NL, SeekTo, NoRequest,  \* see AesdCharDriver.tla
  Outsider,       \* the other process
  BufferSize,     \* how many bytes handle_connection reads at once
  MaxPartial,     \* bound: bytes written since the last newline
  MaxOutside      \* bound: lines the other process writes

VARIABLES
  loaded, dev, dmutex, heap, opened, f_pos, dpc, req, frame, lost,  \* the driver
  outside,        \* how many lines the other process has written
  dropped,        \* per connection: a command was dropped since it was opened
  asked,          \* per connection, the seek its last chunk has asked for
  written         \* per connection, how many chunks have been written

device == <<loaded, dev, dmutex, heap, opened, f_pos, dpc, req, frame, lost>>
aux == <<outside, dropped, asked, written>>
allvars == <<vars, device, aux>>

User == Conn \cup {Outsider}

\* The bytes of a chunk, and of what the other process writes.
Bytes(chunk) == IF chunk.kind = "text" THEN <<chunk>> ELSE <<chunk, NL>>
OutsideLine  == <<[from |-> Outsider], NL>>

\* What a client may send.
ClientChunk == [from : Conn, n : 1 .. MaxChunks, kind : Kind]

\* A user's open of the device has a struct file of its own.
Driver == INSTANCE AesdCharProperties
            WITH Thread <- User, File <- User, ReadSize <- {BufferSize},
                 Payload <- {Bytes(chunk) : chunk \in ClientChunk} \cup {OutsideLine},
                 Seek <- {}, Interruptible <- {},
                 mutex <- dmutex, pc <- dpc

ASSUME DriverAssumption ==
  /\ Driver!CapacityAssumption /\ Driver!NullAssumption
  /\ Driver!NoThreadAssumption /\ Driver!CallAssumption /\ Driver!NoRequestAssumption

\* handle_connection reads at least a byte at once, and the bytes, the two
\* processes and the values that stand for nothing can be told apart.
ASSUME ByteAssumption ==
  /\ BufferSize > 0
  /\ NL \notin ClientChunk \cup {[from |-> Outsider]}
  /\ Outsider \notin Conn
  /\ NoRequest \notin SeekTo

Device(file) == [kind |-> "device", file |-> file]

\* A buffer that holds what a read of the device has given.
Excerpt(bytes) == [kind |-> "excerpt", bytes |-> bytes]

InitOnDevice ==
  /\ Init
  /\ Driver!Init
  /\ outside = 0
  /\ dropped = [c \in Conn |-> FALSE]
  /\ asked = [c \in Conn |-> NoRequest]
  /\ written = [c \in Conn |-> 0]

----------------------------------------------------------------------------
(* handle_connection on the device                                         *)

OpenDevice(c) ==
  /\ At(c, "open")
  /\ Driver!Open(c)
  /\ fds' = [fds EXCEPT ![LowestFree] = Device(c)]
  /\ datafd' = LowestFree
  /\ \/ Goto(c, "recv")
     \/ "malloc" \in Failures /\ Goto(c, "cleanup")
  /\ dropped' = [dropped EXCEPT ![c] = FALSE]
  /\ UNCHANGED <<proc, sockfd, data, exists, flags, threads, locals, clients,
                 history, outside, asked, written>>

\* The system call the thread is at, on what datafd stands for.
SystemCall(c) ==
  LET file == fds[datafd].file
  IN  CASE pc[c] = "write" -> {[op |-> "write", file |-> file, buf |-> Bytes(buffer[c])]}
        [] pc[c] = "read"  -> {[op |-> "read", file |-> file, count |-> BufferSize]}
        [] pc[c] = "ioctl" -> {[op |-> "ioctl", file |-> file, seekto |-> s] : s \in SeekTo}

EnterDriver(c) ==
  /\ \E place \in {"write", "read", "ioctl"} : At(c, place)
  /\ fds[datafd].kind = "device"
  /\ \E r \in SystemCall(c) :
       /\ Driver!Call(c, r)
       /\ asked' = CASE r.op = "write" -> [asked EXCEPT ![c] = NoRequest]
                     [] r.op = "ioctl" -> [asked EXCEPT ![c] = r.seekto]
                     [] r.op = "read"  -> asked
  /\ UNCHANGED <<vars, outside, dropped, written>>

\* write, ioctl or read returns to handle_connection.
LeaveDriver(c) ==
  LET ret == frame[c].retval
  IN  /\ proc = "running" /\ Driver!Return(c)
      /\ Goto(c, IF ret < 0 THEN "cleanup"
                 ELSE CASE pc[c] = "write" -> Answer(c)
                        [] pc[c] = "ioctl" -> "read"
                        [] pc[c] = "read"  -> IF ret = 0 THEN "recv" ELSE "send")
      /\ buffer' = [buffer EXCEPT ![c] =
                      IF pc[c] = "read" /\ ret > 0 THEN Excerpt(frame[c].given) ELSE @]
      /\ written' = [written EXCEPT ![c] =
                       IF pc[c] = "write" /\ ret >= 0 THEN @ + 1 ELSE @]
      /\ UNCHANGED <<proc, files, flags, threads, client_sockfd, on, clients,
                     history, outside, dropped, asked>>

CloseDevice(c) ==
  /\ At(c, "close_data")
  /\ Driver!Release(fds[datafd].file)
  /\ fds' = Close(datafd)
  /\ Goto(c, "close_socket")
  /\ UNCHANGED <<proc, sockfd, datafd, data, exists, flags, threads, locals,
                 clients, history, aux>>

OnDevice(c) == OpenDevice(c) \/ EnterDriver(c) \/ LeaveDriver(c) \/ CloseDevice(c)

----------------------------------------------------------------------------
(* The driver, whose callers' buffers are in their memory: the copies from *)
(* and to them are complete.                                               *)

InDriver(u) ==
  \/ Driver!Lock(u) \/ Driver!CopyOut(u) \/ Driver!Alloc(u)
  \/ "write" \in Failures /\ Driver!AllocFails(u)
  \/ Driver!CopyIn(u) /\ frame'[u].retval = Len(req[u].buf)
  \/ Driver!CachePartial(u)
  \/ Driver!AdjustOffset(u) \/ Driver!AdjustRefused(u)
  \/ Driver!Unlock(u)

DriverStep(u) ==
  /\ proc = "running"
  /\ \/ InDriver(u) /\ UNCHANGED dropped
     \/ /\ Driver!AddCommand(u)
        /\ dropped' = IF dev.circular_buffer.full THEN [c \in Conn |-> TRUE]
                      ELSE dropped
  /\ UNCHANGED <<vars, outside, asked, written>>

\* The other process opens the device, writes a line and closes it.
OutsiderStep ==
  /\ proc = "running"
  /\ \/ /\ outside < MaxOutside /\ Driver!Open(Outsider)
        /\ UNCHANGED outside
     \/ /\ outside < MaxOutside
        /\ Driver!Call(Outsider, [op |-> "write", file |-> Outsider,
                                  buf |-> OutsideLine])
        /\ outside' = outside + 1
     \/ Driver!Return(Outsider) /\ UNCHANGED outside
     \/ /\ outside > 0 /\ Driver!Release(Outsider)
        /\ UNCHANGED outside
  /\ UNCHANGED <<vars, dropped, asked, written>>

----------------------------------------------------------------------------
ServerStep ==
  /\ \/ \E c \in Conn : Client(c) \/ Serve(c)
     \/ loaded /\ MainStep
     \/ Signal
     \/ \E t \in Conn \cup {Main} : Cleanup(t)
     \/ Rest
  /\ UNCHANGED <<device, aux>>

NextOnDevice ==
  \/ ServerStep
  \/ \E c \in Conn : OnDevice(c)
  \/ \E u \in User : DriverStep(u)
  \/ OutsiderStep
  \/ Driver!Load /\ UNCHANGED <<vars, aux>>

SpecOnDevice == InitOnDevice /\ [][NextOnDevice]_allvars

----------------------------------------------------------------------------
(* What clients see.                                                       *)

Stream == FlattenSeq(Driver!Commands)

\* What the client has got in answer.
Answered(c) == FlattenSeq([i \in DOMAIN got[c] |-> got[c][i].bytes])

\* The read that ends the answer: the device has no byte at the position.
AnswerEnds(c) ==
  dpc[c] = "copy_out" /\ dpc'[c] = "unlock" /\ frame'[c].given = <<>>

\* "Send data back to client if a complete packet is received" (aesdsocket.c:203):
\* as long as the device drops no command an answer is not empty, and it is what
\* the device holds, from some byte on to its end.
AnswersReachEnd ==
  [][\A c \in Conn : AnswerEnds(c) /\ ~dropped[c] =>
       Answered(c) # <<>> /\ IsSuffix(Answered(c), Stream)]_allvars

\* The answer to AESDCHAR_IOCSEEKTO:x,y starts at byte y of command x
\* (aesdsocket.c:179), while the oldest command is in the driver's first slot.
AnswersSeek ==
  [][\A c \in Conn :
       AnswerEnds(c) /\ ~dropped[c] /\ asked[c] # NoRequest
         /\ dev.circular_buffer.out_offs = 0 =>
           LET before == FlattenSeq(SubSeq(Driver!Commands, 1, asked[c].write_cmd))
           IN  Answered(c) =
                 SubSeq(Stream, Len(before) + asked[c].write_cmd_offset + 1,
                        Len(Stream))]_allvars

\* What handle_connection has written is in the device in the order it was
\* received, and all of it as long as no command is dropped: the pieces of a
\* line survive the driver's reallocations and other writers.
DeviceKeepsReceived ==
  LET bytes == Stream \o Driver!Partial
  IN  \A c \in Conn : pc[c] # "write" =>
        LET kept == {i \in DOMAIN bytes : bytes[i] # NL /\ bytes[i].from = c}
        IN  /\ dropped[c] \/ Cardinality(kept) = written[c]
            /\ \A i, j \in kept : i < j => bytes[i].n < bytes[j].n
=============================================================================
