------------------------- MODULE AesdCharProperties -------------------------
(***************************************************************************)
(* What has to hold of AesdCharDriver.tla: mutual exclusion, the ownership *)
(* of the allocated memory, the stream its callers see (AesdStream.tla),   *)
(* where a seek ends up, what an unload leaves behind, that calls return.  *)
(***************************************************************************)
EXTENDS AesdCharDriver

----------------------------------------------------------------------------
(* What the device holds.                                                  *)

\* The writes between their allocation and their store.
Writing == {t \in Thread : pc[t] \in {"copy_in", "store"}}

\* Where the partial command is: with the write under way, if there is one.
PartialMemory ==
  IF Writing = {} THEN {dev.cached_entry.buffptr} \ {NULL}
  ELSE {frame[t].temp_buf : t \in Writing}

Text(entry) == SubSeq(heap[entry.buffptr], 1, entry.size)

Commands ==
  IF loaded THEN [i \in 1 .. Len(LogOf(dev.circular_buffer)) |->
                    Text(LogOf(dev.circular_buffer)[i])]
  ELSE <<>>

Partial ==
  IF ~loaded \/ dev.cached_entry.buffptr = NULL THEN <<>>
  ELSE SubSeq(heap[CHOOSE p \in PartialMemory : TRUE], 1, dev.cached_entry.size)

NoReply == NoRequest

\* What the call has got for its caller once it has done its work.
Reply ==
  [t \in Thread |->
     IF pc[t] \notin {"unlock", "return"} \/ frame[t].retval < 0 THEN NoReply
     ELSE CASE req[t].op = "read"  -> [given |-> frame[t].given]
            [] req[t].op = "write" -> [taken |-> frame[t].retval]
            [] OTHER               -> NoReply]

Stream == INSTANCE AesdStream
            WITH Capacity <- MaxWriteOps, Piece <- UNION {Prefixes(s) : s \in Payload},
                 commands <- Commands, partial <- Partial, reply <- Reply

----------------------------------------------------------------------------
(* Properties.                                                             *)

\* One thread at a time is between its mutex_lock and its mutex_unlock, so the
\* functions of the circular buffer, which do not lock, have one caller.
MutualExclusion ==
  \A t, u \in Thread :
    pc[t] \in Locals \ {"unlock"} /\ pc[u] \in Locals \ {"unlock"} => t = u

\* The memory that is live is what the slots point to, the partial command and
\* what earlier unloads lost; no two of them share memory, and every entry's
\* size is what its memory holds.  So krealloc, kfree and the failing paths of
\* aesd_write leak nothing, free nothing twice and leave no dangling pointer.
HeapIsOwned ==
  LET b == dev.circular_buffer
  IN  /\ DOMAIN heap = lost \cup IF loaded THEN SlotMemory(b) \cup PartialMemory
                                 ELSE {}
      /\ loaded =>
           /\ SlotMemory(b) \cap PartialMemory = {}
           /\ (SlotMemory(b) \cup PartialMemory) \cap lost = {}
           /\ Cardinality(PartialMemory) <= 1
           /\ Cardinality(SlotMemory(b)) = Filled(b)
           /\ \A i \in Index : b.entry[i].buffptr # NULL =>
                b.entry[i].size = Len(heap[b.entry[i].buffptr])

\* Reads and writes take effect one at a time on a stream of the last commands:
\* a read gives bytes of one command, a write that fails half-way adds exactly
\* the bytes it reports, and one that runs out of memory adds none.
ImplementsStream == Stream!Spec

SeeksTo(t) == pc[t] = "adjust" /\ pc'[t] = "unlock" /\ frame'[t].retval = 0

\* An ioctl that succeeds leaves the position on a byte of the stream.
SeekStaysInside ==
  [][\A t \in Thread : SeeksTo(t) =>
       f_pos'[req[t].file] < Len(FlattenSeq(Commands))]_vars

\* Where AESDCHAR_IOCSEEKTO is to go: to that byte of the write_cmd-th of the
\* commands a read gives, counted from zero.
FindsCommand(t) ==
  LET seekto == req[t].seekto
  IN  /\ seekto.write_cmd < Len(Commands)
      /\ f_pos'[req[t].file] =
           Len(FlattenSeq(SubSeq(Commands, 1, seekto.write_cmd)))
             + seekto.write_cmd_offset

\* It goes there as long as the oldest command is in the first slot.
SeekFindsCommand ==
  [][\A t \in Thread :
       SeeksTo(t) /\ dev.circular_buffer.out_offs = 0 => FindsCommand(t)]_vars

\* "The zero referenced write command to seek into" (aesd_ioctl.h:27) is found
\* whatever has been written before.
SeekAlwaysFindsCommand ==
  [][\A t \in Thread : SeeksTo(t) => FindsCommand(t)]_vars

\* An unload leaves at most the cached entry of the device behind.
UnloadFreesSlots ==
  [][loaded /\ ~loaded' => lost' \subseteq lost \cup {dev.cached_entry.buffptr}]_vars

\* Every call returns: each path through the driver gives the mutex back.
CallsReturn == \A t \in Thread : pc[t] # "user" ~> pc[t] = "user"
=============================================================================
