--------------------------- MODULE CircularBuffer ---------------------------
(***************************************************************************)
(* The circular buffer with its caller: entries are added one after the    *)
(* other, each pointing to memory the caller holds for it until the buffer *)
(* hands the pointer back.                                                 *)
(***************************************************************************)
EXTENDS CircularBufferOps, SequencesExt

CONSTANT Sizes  \* how many bytes an added entry may have

ASSUME SizesAssumption == Sizes \subseteq Nat

VARIABLES
  buffer,       \* struct aesd_circular_buffer
  replaced,     \* what the last aesd_circular_buffer_add_entry returned
  held          \* the memory the caller has passed in and not got back

vars == <<buffer, replaced, held>>

TypeOK ==
  /\ buffer \in Buffer
  /\ replaced \in Ptr \cup {NULL}
  /\ held \subseteq Ptr

Init ==
  /\ buffer = EmptyBuffer
  /\ replaced = NULL
  /\ held = {}

\* The caller never passes memory it has already passed and not got back.
Add(p, n) ==
  /\ p \notin held
  /\ buffer' = AddEntry(buffer, [buffptr |-> p, size |-> n])
  /\ replaced' = ReplacedBuffer(buffer)
  /\ held' = (held \cup {p}) \ {ReplacedBuffer(buffer)}

Next == \E p \in Ptr, n \in Sizes : Add(p, n)

Spec == Init /\ [][Next]_vars

----------------------------------------------------------------------------
(* The buffer as a log.                                                    *)

Log == INSTANCE BoundedLog
         WITH Capacity <- MaxWriteOps, Element <- [buffptr : Ptr, size : Sizes],
              Nothing <- NULL, log <- LogOf(buffer), handed_back <- replaced

\* The bytes of the log end to end, each as the entry it belongs to and its
\* place in that entry, counted from 0.
Bytes(log) ==
  FlattenSeq([i \in DOMAIN log |->
                [j \in 1 .. log[i].size |-> [entry |-> log[i], at |-> j - 1]]])

----------------------------------------------------------------------------
(* Properties.                                                             *)

\* The memory the caller has passed in and not got back is exactly what the
\* slots point to, each slot to memory of its own: an add neither loses the
\* entry it overwrites nor hands the same memory back twice.
HeldIsStored ==
  /\ held = SlotMemory(buffer)
  /\ SlotsApart(buffer)

\* The two offsets and the full flag agree on which slots are in use: before
\* the buffer has filled up these are the slots below in_offs, afterwards all
\* of them, and then in_offs and out_offs meet.
OffsetsAgree == Agree(buffer)

\* Every offset up to one past the bytes kept is resolved to the entry that
\* holds the byte at that place of the log and to the byte's place in it, and
\* the offset past the last byte to none.
FindLocatesByte ==
  LET bytes == Bytes(LogOf(buffer))
  IN  \A off \in 0 .. Len(bytes) :
        LET found == FindEntry(buffer, off)
        IN  IF off = Len(bytes) THEN found = NULL
            ELSE /\ found # NULL
                 /\ buffer.entry[found.index] = bytes[off + 1].entry
                 /\ found.offset = bytes[off + 1].at

\* The total size is the number of bytes a reader can reach.
TotalSizeIsReadable == TotalSize(buffer) = Len(Bytes(LogOf(buffer)))

\* aesd_circular_buffer_add_entry implements the bounded log: it drops the
\* oldest entry, and only when there is no room, and returns its memory.
ImplementsLog == Log!Spec
=============================================================================
