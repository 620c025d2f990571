------------------------- MODULE CircularBufferOps -------------------------
(***************************************************************************)
(* aesd-char-driver/aesd-circular-buffer.{h,c} as operators on a record    *)
(* with the fields of struct aesd_circular_buffer.  "Any necessary locking *)
(* must be performed by caller": every function here is one atomic         *)
(* operator, and AesdCharDriver.tla says when the driver calls it.         *)
(***************************************************************************)
EXTENDS Integers, FiniteSetsExt

CONSTANTS
  MaxWriteOps,  \* AESDCHAR_MAX_WRITE_OPERATIONS_SUPPORTED, 10 in the code
  Ptr,          \* the addresses a buffptr may hold
  NULL          \* the null pointer

\* The FOREACH macro counts with a uint8_t that has to reach the capacity.
ASSUME CapacityAssumption == MaxWriteOps \in 1..255

Index == 0 .. MaxWriteOps - 1

\* The entry a search has found, as its slot, and the byte within it.
Found == [index : Index, offset : Nat]

ASSUME NullAssumption == NULL \notin Ptr /\ NULL \notin Found

\* struct aesd_buffer_entry and struct aesd_circular_buffer
Entry == [buffptr : Ptr \cup {NULL}, size : Nat]
Buffer == [entry : [Index -> Entry], in_offs : Index, out_offs : Index,
           full : BOOLEAN]

EmptyEntry == [buffptr |-> NULL, size |-> 0]

\* aesd_circular_buffer_init
EmptyBuffer ==
  [entry |-> [i \in Index |-> EmptyEntry], in_offs |-> 0, out_offs |-> 0,
   full |-> FALSE]

----------------------------------------------------------------------------
(* aesd_circular_buffer_add_entry                                          *)

\* Regression: an offset is advanced without wrapping.
NextOffsNoWrap(i) == i + 1

NextOffs(i) == (i + 1) % MaxWriteOps

\* Regression: the old out_offs is kept when a full buffer is overwritten.
AddEntryKeepsOut(b, e) ==
  [b EXCEPT !.entry[b.in_offs] = e,
            !.in_offs = NextOffs(b.in_offs),
            !.full = b.full \/ NextOffs(b.in_offs) = b.out_offs]

\* Regression: full is never set.
AddEntryNeverFull(b, e) ==
  [b EXCEPT !.entry[b.in_offs] = e, !.in_offs = NextOffs(b.in_offs)]

\* The buffer after entry e has been added.
AddEntry(b, e) ==
  LET in  == NextOffs(b.in_offs)
      out == IF b.full THEN NextOffs(b.out_offs) ELSE b.out_offs
  IN  [entry    |-> [b.entry EXCEPT ![b.in_offs] = e],
       in_offs  |-> in,
       out_offs |-> out,
       full     |-> b.full \/ in = out]

\* Regression: the buffer returned is the one at the advanced out_offs.
ReplacedAtNewOut(b) ==
  IF b.full THEN b.entry[NextOffs(b.out_offs)].buffptr ELSE NULL

\* The return value of that call, for the caller to free.
ReplacedBuffer(b) == IF b.full THEN b.entry[b.in_offs].buffptr ELSE NULL

----------------------------------------------------------------------------
(* aesd_circular_buffer_find_entry_offset_for_fpos                         *)

\* The slot visited after k others by the search, which starts at out_offs.
Visited(b, k) == (b.out_offs + k) % MaxWriteOps

\* What the first k of the lengths add up to, for every k: a loop that
\* accumulates them, as far as it has got.
RunningSum(len) ==
  LET sum[k \in 0 .. MaxWriteOps] ==
        IF k = 0 THEN 0 ELSE sum[k - 1] + len[k - 1]
  IN  sum

\* The bytes of the slot visited after k others: an empty one is passed over.
VisitedSizes(b) ==
  [k \in Index |-> LET e == b.entry[Visited(b, k)]
                   IN  IF e.buffptr = NULL THEN 0 ELSE e.size]

\* cumulative_length once k slots have been visited.
CumulativeLength(b) == RunningSum(VisitedSizes(b))

\* Regression: >= in place of > picks the entry that ends at the offset.
FindEntryOffByOne(b, char_offset) ==
  LET cum  == CumulativeLength(b)
      hits == {k \in Index : cum[k + 1] >= char_offset}
  IN  IF hits = {} THEN NULL
      ELSE [index  |-> Visited(b, Min(hits)),
            offset |-> char_offset - cum[Min(hits)]]

\* The entry found and the byte within it, or NULL past the last byte.
FindEntry(b, char_offset) ==
  LET cum  == CumulativeLength(b)
      hits == {k \in Index : cum[k + 1] > char_offset}
  IN  IF hits = {} THEN NULL
      ELSE [index  |-> Visited(b, Min(hits)),
            offset |-> char_offset - cum[Min(hits)]]

----------------------------------------------------------------------------
(* aesd_circular_buffer_entries_total_size                                 *)

SlotSizes(b) == [i \in Index |-> b.entry[i].size]

\* Regression: the loop stops at in_offs, which a full buffer has wrapped.
TotalSizeToIn(b) == RunningSum(SlotSizes(b))[b.in_offs]

TotalSize(b) == RunningSum(SlotSizes(b))[MaxWriteOps]

----------------------------------------------------------------------------
(* What the buffer holds, for the modules that use it.                     *)

\* The memory its slots point to.
SlotMemory(b) == {b.entry[i].buffptr : i \in Index} \ {NULL}

\* Each slot in use points to memory of its own.
SlotsApart(b) ==
  \A i, j \in Index :
    b.entry[i].buffptr = b.entry[j].buffptr => i = j \/ b.entry[i].buffptr = NULL

\* How many entries it holds.
Filled(b) ==
  IF b.full THEN MaxWriteOps ELSE (b.in_offs - b.out_offs) % MaxWriteOps

\* The entries it holds, oldest first.
LogOf(b) == [i \in 1 .. Filled(b) |-> b.entry[Visited(b, i - 1)]]

\* The slots in use are those below in_offs until the buffer has filled up and
\* all of them from then on, when in_offs and out_offs meet.
Agree(b) ==
  /\ b.full => b.in_offs = b.out_offs
  /\ ~b.full => b.out_offs = 0
  /\ \A i \in Index :
       b.entry[i].buffptr # NULL <=> b.full \/ i < b.in_offs
=============================================================================
