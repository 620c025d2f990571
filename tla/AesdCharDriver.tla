--------------------------- MODULE AesdCharDriver ---------------------------
(***************************************************************************)
(* aesd-char-driver/main.c: threads call the file operations of            *)
(* /dev/aesdchar.  A call is split where another thread can come in:       *)
(* before and after mutex_lock_interruptible, at the allocation and the    *)
(* copies that may sleep, after mutex_unlock, and where the VFS copies the *)
(* file position in and out around read and write (it holds no lock for a  *)
(* character device).                                                      *)
(***************************************************************************)
EXTENDS CircularBufferOps, SequencesExt

CONSTANTS
  Thread,        \* the threads that make system calls
  File,          \* the open files (struct file) they may share
  NL,            \* '\n'
  Payload,       \* what a write may write
  ReadSize,      \* the counts a read may ask for
  Seek,          \* <<offset, whence>> of an lseek
  SeekTo,        \* struct aesd_seekto of an ioctl
  Interruptible, \* the operations a signal may interrupt at the mutex
  MaxPartial,    \* bound: bytes written since the last newline
  NoThread,      \* the owner of a free mutex
  NoRequest      \* a thread that is not in a system call

ASSUME NoThreadAssumption == NoThread \notin Thread

\* What the system calls hand over: bytes, counts, a whence of one of three
\* kinds, and two uint32_t.
ASSUME PayloadAssumption == \A s \in Payload : s \in Seq(ToSet(s))
ASSUME CallAssumption ==
  /\ ReadSize \subseteq Nat
  /\ Seek \subseteq Int \X {"SEEK_SET", "SEEK_CUR", "SEEK_END"}
  /\ SeekTo \subseteq [write_cmd : Nat, write_cmd_offset : Nat]

ERESTARTSYS == 512
ENOMEM      == 12
EFAULT      == 14
EINVAL      == 22
ENOTTY      == 25

VARIABLES
  loaded,   \* the module is loaded
  dev,      \* aesd_device: circular_buffer and cached_entry
  mutex,    \* the owner of its circular_buffer_mutex
  heap,     \* kmalloc'ed memory: the bytes at each live address
  opened,   \* the open files
  f_pos,    \* per open file, filp->f_pos
  pc,       \* per thread, where it is
  req,      \* per thread, the system call it is in and its arguments
  frame,    \* per thread, the local variables of that call
  lost      \* history: memory that was still live when the module went

vars == <<loaded, dev, mutex, heap, opened, f_pos, pc, req, frame, lost>>

Request ==
  [op : {"read"}, file : File, count : ReadSize]
    \cup [op : {"write"}, file : File, buf : Payload]
    \cup [op : {"llseek"}, file : File, seek : Seek]
    \cup [op : {"ioctl"}, file : File, seekto : SeekTo]

ASSUME NoRequestAssumption == NoRequest \notin Request

\* pos is the copy of the position the VFS passes in, given what the read
\* has copied to the user, written how many bytes the write took.
NewFrame(pos) ==
  [pos |-> pos, temp_buf |-> NULL, size |-> 0, retval |-> 0, given |-> <<>>]

Byte == UNION {ToSet(s) : s \in Payload}

Frame ==
  [pos : Nat, temp_buf : Ptr \cup {NULL}, size : Nat, retval : Int,
   given : Seq(Byte)]

Locals == {"alloc", "copy_in", "store", "copy_out", "size", "adjust", "unlock"}
Places == {"user", "lock", "seek", "return"} \cup Locals

TypeOK ==
  /\ loaded \in BOOLEAN
  /\ dev.circular_buffer \in Buffer
  /\ dev.cached_entry \in Entry
  /\ mutex \in Thread \cup {NoThread}
  /\ DOMAIN heap \subseteq Ptr
  /\ opened \subseteq File
  /\ f_pos \in [File -> Nat]
  /\ pc \in [Thread -> Places]
  /\ req \in [Thread -> Request \cup {NoRequest}]
  /\ frame \in [Thread -> Frame]
  /\ lost \subseteq Ptr

EmptyDevice == [circular_buffer |-> EmptyBuffer, cached_entry |-> EmptyEntry]

Init ==
  /\ loaded = FALSE
  /\ dev = EmptyDevice
  /\ mutex = NoThread
  /\ heap = <<>>
  /\ opened = {}
  /\ f_pos = [f \in File |-> 0]
  /\ pc = [t \in Thread |-> "user"]
  /\ req = [t \in Thread |-> NoRequest]
  /\ frame = [t \in Thread |-> NewFrame(0)]
  /\ lost = {}

----------------------------------------------------------------------------
(* The module and its open files.                                          *)

\* aesd_init_module: the memset wipes whatever the device held.
Load ==
  /\ ~loaded
  /\ loaded' = TRUE
  /\ dev' = EmptyDevice
  /\ mutex' = NoThread
  /\ UNCHANGED <<heap, opened, f_pos, pc, req, frame, lost>>

Free(ptrs) == Restrict(heap, DOMAIN heap \ ptrs)

\* Regression: cleanup_module forgets to free the slots.
UnloadFreesNothing ==
  /\ loaded
  /\ opened = {}
  /\ loaded' = FALSE
  /\ lost' = lost \cup DOMAIN heap
  /\ UNCHANGED <<dev, heap, mutex, opened, f_pos, pc, req, frame>>

\* aesd_cleanup_module, which the kernel runs when no file is open.
Unload ==
  /\ loaded
  /\ opened = {}
  /\ loaded' = FALSE
  /\ dev' = [dev EXCEPT !.circular_buffer.entry =
                          [i \in Index |-> [@[i] EXCEPT !.buffptr = NULL]]]
  /\ heap' = Free(SlotMemory(dev.circular_buffer))
  /\ lost' = lost \cup DOMAIN heap'
  /\ UNCHANGED <<mutex, opened, f_pos, pc, req, frame>>

Open(f) ==
  /\ loaded /\ f \in File \ opened
  /\ opened' = opened \cup {f}
  /\ f_pos' = [f_pos EXCEPT ![f] = 0]
  /\ UNCHANGED <<loaded, dev, mutex, heap, pc, req, frame, lost>>

\* The kernel releases a file when no call is using it any more.
Release(f) ==
  /\ f \in opened
  /\ \A t \in Thread : req[t] # NoRequest => req[t].file # f
  /\ opened' = opened \ {f}
  /\ f_pos' = [f_pos EXCEPT ![f] = 0]
  /\ UNCHANGED <<loaded, dev, mutex, heap, pc, req, frame, lost>>

----------------------------------------------------------------------------
(* Entering and leaving a call.                                            *)

At(t, op, place) == pc[t] = place /\ req[t] # NoRequest /\ req[t].op = op

Goto(t, place) == pc' = [pc EXCEPT ![t] = place]

\* goto exit with retval = r, while the mutex is held.
ExitWith(t, r) ==
  /\ Goto(t, "unlock")
  /\ frame' = [frame EXCEPT ![t].retval = r]

\* The bytes of writes under way, which may yet join the partial command.
InFlight ==
  MapThenSumSet(LAMBDA t : Len(req[t].buf),
                {t \in Thread : /\ req[t] # NoRequest /\ req[t].op = "write"
                                /\ pc[t] \in {"lock", "alloc", "copy_in", "store"}})

\* A system call: the VFS hands read and write a copy of the position.
Call(t, r) ==
  /\ pc[t] = "user"
  /\ r.file \in opened
  /\ r.op = "write" =>
       dev.cached_entry.size + InFlight + Len(r.buf) <= MaxPartial
  /\ Goto(t, "lock")
  /\ req' = [req EXCEPT ![t] = r]
  /\ frame' = [frame EXCEPT ![t] =
                 NewFrame(IF r.op \in {"read", "write"} THEN f_pos[r.file] ELSE 0)]
  /\ UNCHANGED <<loaded, dev, mutex, heap, opened, f_pos, lost>>

FirstPlace(op) ==
  CASE op = "read" -> "copy_out" [] op = "write" -> "alloc"
    [] op = "llseek" -> "size"   [] op = "ioctl" -> "adjust"

\* mutex_lock_interruptible gets the mutex.
Lock(t) ==
  /\ pc[t] = "lock" /\ mutex = NoThread
  /\ mutex' = t
  /\ Goto(t, FirstPlace(req[t].op))
  /\ UNCHANGED <<loaded, dev, heap, opened, f_pos, req, frame, lost>>

\* Regression: aesd_llseek unlocks on its way out like the others.
InterruptedUnlocks(t) ==
  /\ pc[t] = "lock" /\ mutex # NoThread
  /\ req[t].op \in Interruptible
  /\ ExitWith(t, -ERESTARTSYS)
  /\ UNCHANGED <<loaded, dev, mutex, heap, opened, f_pos, req, lost>>

\* A signal comes while it waits for another thread's mutex: the exit path of
\* aesd_llseek is past the mutex_unlock, that of the others is before it.
Interrupted(t) ==
  /\ pc[t] = "lock" /\ mutex # NoThread
  /\ req[t].op \in Interruptible
  /\ Goto(t, IF req[t].op = "llseek" THEN "return" ELSE "unlock")
  /\ frame' = [frame EXCEPT ![t].retval = -ERESTARTSYS]
  /\ UNCHANGED <<loaded, dev, mutex, heap, opened, f_pos, req, lost>>

\* mutex_unlock releases the mutex, whoever owns it.
Unlock(t) ==
  /\ pc[t] = "unlock"
  /\ mutex' = NoThread
  /\ Goto(t, IF req[t].op = "llseek" THEN "seek" ELSE "return")
  /\ UNCHANGED <<loaded, dev, heap, opened, f_pos, req, frame, lost>>

\* The call returns: after a read or write that did not fail the VFS stores its
\* copy of the position, whatever the position has become meanwhile.
Return(t) ==
  /\ pc[t] = "return"
  /\ Goto(t, "user")
  /\ f_pos' = IF req[t].op \in {"read", "write"} /\ frame[t].retval >= 0
              THEN [f_pos EXCEPT ![req[t].file] = frame[t].pos]
              ELSE f_pos
  /\ req' = [req EXCEPT ![t] = NoRequest]
  /\ frame' = [frame EXCEPT ![t] = NewFrame(0)]
  /\ UNCHANGED <<loaded, dev, mutex, heap, opened, lost>>

----------------------------------------------------------------------------
(* aesd_read                                                               *)

\* What a read of count bytes at pos copies to the user: bytes of one entry.
Excerpt(pos, count) ==
  LET found == FindEntry(dev.circular_buffer, pos)
      entry == dev.circular_buffer.entry[found.index]
  IN  IF found = NULL THEN <<>>
      ELSE SubSeq(heap[entry.buffptr], found.offset + 1,
                  Min({found.offset + count, entry.size}))

\* Regression: the exit at the end of the file forgets the unlock.
CopyOutKeepsMutex(t) ==
  /\ At(t, "read", "copy_out")
  /\ LET bytes == Excerpt(frame[t].pos, req[t].count)
     IN  /\ frame' = [frame EXCEPT ![t].given = bytes,
                                   ![t].retval = Len(bytes),
                                   ![t].pos = @ + Len(bytes)]
         /\ Goto(t, IF bytes = <<>> THEN "return" ELSE "unlock")
  /\ UNCHANGED <<loaded, dev, mutex, heap, opened, f_pos, req, lost>>

CopyOut(t) ==
  /\ At(t, "read", "copy_out")
  /\ LET bytes == Excerpt(frame[t].pos, req[t].count)
     IN  frame' = [frame EXCEPT ![t].given = bytes,
                                ![t].retval = Len(bytes),
                                ![t].pos = @ + Len(bytes)]
  /\ Goto(t, "unlock")
  /\ UNCHANGED <<loaded, dev, mutex, heap, opened, f_pos, req, lost>>

\* copy_to_user fails.
CopyOutFails(t) ==
  /\ At(t, "read", "copy_out")
  /\ FindEntry(dev.circular_buffer, frame[t].pos) # NULL
  /\ ExitWith(t, -EFAULT)
  /\ UNCHANGED <<loaded, dev, mutex, heap, opened, f_pos, req, lost>>

----------------------------------------------------------------------------
(* aesd_write                                                              *)

WriteNothing(t) ==
  /\ At(t, "write", "alloc") /\ req[t].buf = <<>>
  /\ ExitWith(t, 0)
  /\ UNCHANGED <<loaded, dev, mutex, heap, opened, f_pos, req, lost>>

\* kmalloc, or krealloc of the cached entry: that may move its bytes, and until
\* the write is through cached_entry still points to where they were.
Alloc(t) ==
  LET old == dev.cached_entry.buffptr
  IN  /\ At(t, "write", "alloc") /\ req[t].buf # <<>>
      /\ old \in DOMAIN heap \cup {NULL}
      /\ \E new \in (Ptr \ DOMAIN heap) \cup ({old} \ {NULL}) :
           /\ frame' = [frame EXCEPT ![t].temp_buf = new]
           /\ heap' = [p \in (DOMAIN heap \ {old}) \cup {new} |->
                         IF p # new THEN heap[p]
                         ELSE IF old = NULL THEN <<>> ELSE heap[old]]
      /\ Goto(t, "copy_in")
      /\ UNCHANGED <<loaded, dev, mutex, opened, f_pos, req, lost>>

\* There is no memory: what was cached stays where it is.
AllocFails(t) ==
  /\ At(t, "write", "alloc") /\ req[t].buf # <<>>
  /\ ExitWith(t, -ENOMEM)
  /\ UNCHANGED <<loaded, dev, mutex, heap, opened, f_pos, req, lost>>

\* Regression: copy_from_user writes over what was cached.
CopyInAtStart(t) ==
  /\ At(t, "write", "copy_in")
  /\ frame[t].temp_buf \in DOMAIN heap
  /\ \E n \in 0 .. Len(req[t].buf) :
       /\ heap' = [heap EXCEPT ![frame[t].temp_buf] = SubSeq(req[t].buf, 1, n)]
       /\ frame' = [frame EXCEPT ![t].retval = n]
  /\ Goto(t, "store")
  /\ UNCHANGED <<loaded, dev, mutex, opened, f_pos, req, lost>>

\* copy_from_user appends to the partial command as much as it can.
CopyIn(t) ==
  /\ At(t, "write", "copy_in")
  /\ frame[t].temp_buf \in DOMAIN heap
  /\ \E n \in 0 .. Len(req[t].buf) :
       /\ heap' = [heap EXCEPT ![frame[t].temp_buf] =
                     @ \o SubSeq(req[t].buf, 1, n)]
       /\ frame' = [frame EXCEPT ![t].retval = n]
  /\ Goto(t, "store")
  /\ UNCHANGED <<loaded, dev, mutex, opened, f_pos, req, lost>>

NewEntry(t) ==
  [buffptr |-> frame[t].temp_buf, size |-> Len(heap[frame[t].temp_buf])]

\* There is a newline: the command takes a slot, and the memory of the command
\* it replaces is freed.
AddCommand(t) ==
  /\ At(t, "write", "store")
  /\ Contains(heap[frame[t].temp_buf], NL)
  /\ dev' = [circular_buffer |-> AddEntry(dev.circular_buffer, NewEntry(t)),
             cached_entry    |-> EmptyEntry]
  /\ heap' = Free({ReplacedBuffer(dev.circular_buffer)})
  /\ Goto(t, "unlock")
  /\ UNCHANGED <<loaded, mutex, opened, f_pos, req, frame, lost>>

\* There is none yet: the bytes wait in the cached entry.
CachePartial(t) ==
  /\ At(t, "write", "store")
  /\ ~Contains(heap[frame[t].temp_buf], NL)
  /\ dev' = [dev EXCEPT !.cached_entry = NewEntry(t)]
  /\ Goto(t, "unlock")
  /\ UNCHANGED <<loaded, mutex, heap, opened, f_pos, req, frame, lost>>

----------------------------------------------------------------------------
(* aesd_llseek and aesd_unlocked_ioctl                                     *)

EntriesSize(t) ==
  /\ At(t, "llseek", "size")
  /\ frame' = [frame EXCEPT ![t].size = TotalSize(dev.circular_buffer)]
  /\ Goto(t, "unlock")
  /\ UNCHANGED <<loaded, dev, mutex, heap, opened, f_pos, req, lost>>

\* fixed_size_llseek moves the position, with the total it was given.
FixedSizeLlseek(t) ==
  /\ At(t, "llseek", "seek")
  /\ LET offset == req[t].seek[1]
         whence == req[t].seek[2]
         target == offset + CASE whence = "SEEK_SET" -> 0
                              [] whence = "SEEK_CUR" -> f_pos[req[t].file]
                              [] whence = "SEEK_END" -> frame[t].size
         valid  == \/ target \in 0 .. frame[t].size
                   \/ whence = "SEEK_CUR" /\ offset = 0
     IN  /\ frame' = [frame EXCEPT ![t].retval = IF valid THEN target ELSE -EINVAL]
         /\ f_pos' = IF valid THEN [f_pos EXCEPT ![req[t].file] = target]
                     ELSE f_pos
  /\ Goto(t, "return")
  /\ UNCHANGED <<loaded, dev, mutex, heap, opened, req, lost>>

\* Regression: an offset equal to the size of the command passes the check.
SeekToValidOffByOne(seekto) ==
  /\ seekto.write_cmd < MaxWriteOps
  /\ LET size == dev.circular_buffer.entry[seekto.write_cmd].size
     IN  size # 0 /\ seekto.write_cmd_offset <= size

\* The checks of aesd_adjust_file_offset: they index the slots.
SeekToValid(seekto) ==
  /\ seekto.write_cmd < MaxWriteOps
  /\ LET size == dev.circular_buffer.entry[seekto.write_cmd].size
     IN  size # 0 /\ seekto.write_cmd_offset < size

\* Regression: the size of the command itself is summed too.
SeekToOffsetOffByOne(seekto) ==
  RunningSum(SlotSizes(dev.circular_buffer))[seekto.write_cmd + 1]
    + seekto.write_cmd_offset

\* The position it computes: past the slots below write_cmd.
SeekToOffset(seekto) ==
  RunningSum(SlotSizes(dev.circular_buffer))[seekto.write_cmd]
    + seekto.write_cmd_offset

AdjustOffset(t) ==
  /\ At(t, "ioctl", "adjust")
  /\ SeekToValid(req[t].seekto)
  /\ f_pos' = [f_pos EXCEPT ![req[t].file] = SeekToOffset(req[t].seekto)]
  /\ ExitWith(t, 0)
  /\ UNCHANGED <<loaded, dev, mutex, heap, opened, req, lost>>

AdjustRefused(t) ==
  /\ At(t, "ioctl", "adjust")
  /\ ~SeekToValid(req[t].seekto)
  /\ ExitWith(t, -EINVAL)
  /\ UNCHANGED <<loaded, dev, mutex, heap, opened, f_pos, req, lost>>

----------------------------------------------------------------------------
(* The specification.  Calls rejected before the mutex (an ioctl with an   *)
(* unknown command or an unreadable argument) change nothing.              *)

\* What a thread does in a call once it has the mutex.
Body(t) ==
  \/ CopyOut(t) \/ CopyOutFails(t)
  \/ WriteNothing(t) \/ Alloc(t) \/ AllocFails(t) \/ CopyIn(t)
  \/ AddCommand(t) \/ CachePartial(t)
  \/ EntriesSize(t) \/ AdjustOffset(t) \/ AdjustRefused(t)

Proceed(t) == Body(t) \/ Unlock(t) \/ FixedSizeLlseek(t) \/ Return(t)

Next ==
  \/ Load \/ Unload
  \/ \E f \in File : Open(f) \/ Release(f)
  \/ \E t \in Thread :
       \/ \E r \in Request : Call(t, r)
       \/ Lock(t) \/ Interrupted(t)
       \/ Proceed(t)

Spec == Init /\ [][Next]_vars

\* The kernel keeps running a thread that can run, and hands the mutex to its
\* waiters in turn.
FairSpec ==
  /\ Spec
  /\ \A t \in Thread : WF_vars(Proceed(t)) /\ SF_vars(Lock(t))
=============================================================================
