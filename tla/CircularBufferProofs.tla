------------------------ MODULE CircularBufferProofs ------------------------
(***************************************************************************)
(* What CircularBuffer.tla checks on three slots, proved for every         *)
(* capacity a uint8_t can count.                                           *)
(***************************************************************************)
EXTENDS CircularBuffer, CircularBufferLemmas

----------------------------------------------------------------------------
(* Type correctness.                                                       *)

\* buffer, replaced and held keep their types: in particular both uint8_t
\* offsets always index a slot.
THEOREM TypeCorrect == Spec => []TypeOK
<1>1. Init => TypeOK
  BY InitialBuffer DEF Init, TypeOK
<1>2. TypeOK /\ [Next]_vars => TypeOK'
  <2> SUFFICES ASSUME TypeOK, [Next]_vars PROVE TypeOK'
    OBVIOUS
  <2>1. ASSUME NEW p \in Ptr, NEW n \in Sizes, Add(p, n) PROVE TypeOK'
    <3> DEFINE e == [buffptr |-> p, size |-> n]
    <3>1. e \in Entry
      BY SizesAssumption DEF Entry
    <3>2. buffer' \in Buffer
      BY <2>1, <3>1, AddEntryFields DEF Add, TypeOK
    <3>3. ReplacedBuffer(buffer) \in Ptr \cup {NULL}
      BY DEF ReplacedBuffer, TypeOK, Buffer, Entry
    <3> QED
      BY <2>1, <3>2, <3>3 DEF Add, TypeOK
  <2>2. CASE UNCHANGED vars
    BY <2>2 DEF vars, TypeOK
  <2> QED
    BY <2>1, <2>2 DEF Next
<1> QED
  BY <1>1, <1>2, PTL DEF Spec

----------------------------------------------------------------------------
(* Consistency of the offsets, the slots and the caller's memory.          *)

\* The inductive invariant: each of its first three conjuncts needs the others,
\* and the totals need the last.
Consistent == TypeOK /\ OffsetsAgree /\ HeldIsStored /\ NoStaleSize(buffer)

\* An add keeps the offsets in agreement, the slots' memory apart and the
\* caller's account of it right.
LEMMA AddKeepsConsistent ==
  ASSUME Consistent, NEW p \in Ptr, NEW n \in Sizes, Add(p, n), TypeOK'
  PROVE  Consistent'
<1> DEFINE e == [buffptr |-> p, size |-> n]
<1>1. e \in Entry /\ e.buffptr = p /\ p # NULL
  BY SizesAssumption, NullAssumption DEF Entry
<1>2. buffer \in Buffer /\ buffer' = AddEntry(buffer, e)
  BY DEF Consistent, TypeOK, Add
<1>3. Agree(buffer) /\ SlotsApart(buffer) /\ NoStaleSize(buffer)
      /\ held = SlotMemory(buffer)
  BY DEF Consistent, OffsetsAgree, HeldIsStored
<1>4. p \notin held /\ held' = (held \cup {p}) \ {ReplacedBuffer(buffer)}
  BY DEF Add
<1> HIDE DEF e
<1>5. Agree(buffer')
  BY <1>1, <1>2, <1>3, AddKeepsAgreement
<1>6. /\ SlotMemory(buffer') = (SlotMemory(buffer) \cup {p}) \ {ReplacedBuffer(buffer)}
      /\ SlotsApart(buffer') /\ NoStaleSize(buffer')
  BY <1>1, <1>2, <1>3, <1>4, AddKeepsMemory
<1> QED
  BY <1>3, <1>4, <1>5, <1>6 DEF Consistent, OffsetsAgree, HeldIsStored

\* The inductive invariant holds throughout.
LEMMA AlwaysConsistent == Spec => []Consistent
<1>1. Init => Consistent
  <2> SUFFICES ASSUME Init PROVE Consistent
    OBVIOUS
  <2>1. TypeOK
    BY InitialBuffer DEF Init, TypeOK
  <2> QED
    BY <2>1, InitialBufferFree DEF Init, Consistent, OffsetsAgree, HeldIsStored
<1>2. TypeOK' /\ Consistent /\ [Next]_vars => Consistent'
  <2> SUFFICES ASSUME TypeOK', Consistent, [Next]_vars PROVE Consistent'
    OBVIOUS
  <2>1. ASSUME NEW p \in Ptr, NEW n \in Sizes, Add(p, n) PROVE Consistent'
    BY <2>1, AddKeepsConsistent
  <2>2. CASE UNCHANGED vars
    BY <2>2 DEF vars, Consistent, TypeOK, OffsetsAgree, HeldIsStored
  <2> QED
    BY <2>1, <2>2 DEF Next
<1> QED
  BY <1>1, <1>2, TypeCorrect, PTL DEF Spec

\* At every step the two offsets and the full flag agree with the slots in use
\* (aesd-circular-buffer.c:97-119).
THEOREM OffsetsConsistent == Spec => []OffsetsAgree
<1>1. Consistent => OffsetsAgree
  BY DEF Consistent
<1> QED
  BY <1>1, AlwaysConsistent, PTL

\* No memory of the caller is lost or handed back twice: what it has not got
\* back is what the slots point to (aesd-circular-buffer.c:102).
THEOREM MemoryConsistent == Spec => []HeldIsStored
<1>1. Consistent => HeldIsStored
  BY DEF Consistent
<1> QED
  BY <1>1, AlwaysConsistent, PTL

----------------------------------------------------------------------------
(* Searches and totals.                                                    *)

\* The bytes of a consistent buffer's log: each entry's begin where
\* cumulative_length stands when the search comes to it.
LEMMA BytesAt ==
  ASSUME TypeOK, OffsetsAgree
  PROVE  LET cum   == CumulativeLength(buffer)
             log   == LogOf(buffer)
             bytes == Bytes(log)
         IN  /\ Len(bytes) = cum[Filled(buffer)]
             /\ \A k \in 1 .. Filled(buffer) : \A j \in 1 .. log[k].size :
                  bytes[cum[k - 1] + j] = [entry |-> log[k], at |-> j - 1]
<1> DEFINE b == buffer
           cum == CumulativeLength(b)
           log == LogOf(b)
           n == Filled(b)
           E == [entry : Entry, at : Nat]
           seqs == [i \in DOMAIN log |->
                      [j \in 1 .. log[i].size |-> [entry |-> log[i], at |-> j - 1]]]
           ends == [i \in 0 .. n |-> cum[i]]
<1>1. b \in Buffer /\ Agree(b)
  BY DEF TypeOK, OffsetsAgree
<1>2. n \in 0 .. MaxWriteOps /\ log \in Seq(Entry) /\ Len(log) = n /\ DOMAIN log = 1 .. n
  BY <1>1, LogOfBuffer
<1>3. /\ cum \in [0 .. MaxWriteOps -> Nat] /\ cum[0] = 0
      /\ \A k \in 1 .. n : cum[k] = cum[k - 1] + log[k].size
  BY <1>1, LogEnds
<1>4. n \in Nat /\ \A i \in 0 .. n : i \in 0 .. MaxWriteOps
  BY <1>2, CapacityAssumption
<1>5. Bytes(log) = FlattenSeq(seqs)
  BY DEF Bytes
<1> HIDE DEF b, cum, n, log
<1>6. ASSUME NEW i \in 1 .. n
      PROVE  /\ log[i] \in Entry /\ log[i].size \in Nat
             /\ seqs[i] = [j \in 1 .. log[i].size |-> [entry |-> log[i], at |-> j - 1]]
             /\ seqs[i] \in Seq(E) /\ Len(seqs[i]) = log[i].size
  <2>1. log[i] \in Entry /\ log[i].size \in Nat
    <3>1. log[i] \in Entry
      BY <1>2, <1>4
    <3> QED
      BY <3>1 DEF Entry
  <2>2. seqs[i] = [j \in 1 .. log[i].size |-> [entry |-> log[i], at |-> j - 1]]
    BY <1>2
  <2>3. \A j \in 1 .. log[i].size : [entry |-> log[i], at |-> j - 1] \in E
    BY <2>1
  <2>4. seqs[i] \in [1 .. log[i].size -> E]
    BY <2>2, <2>3
  <2> HIDE DEF seqs, E
  <2>5. seqs[i] \in Seq(E) /\ Len(seqs[i]) = log[i].size
    BY <2>1, <2>4
  <2> QED
    BY <2>1, <2>2, <2>5
<1>7. seqs \in Seq(Seq(E)) /\ Len(seqs) = n
  <2>1. seqs \in [1 .. n -> Seq(E)]
    BY <1>2, <1>6
  <2> HIDE DEF seqs, E
  <2> QED
    BY <1>4, <2>1
<1>8. Ends(seqs, ends)
  <2>1. ends \in [0 .. n -> Nat] /\ ends[0] = 0 /\ \A k \in 0 .. n : ends[k] = cum[k]
    BY <1>3, <1>4
  <2>2. ASSUME NEW k \in 1 .. n PROVE ends[k] = ends[k - 1] + Len(seqs[k])
    <3>1. k \in 0 .. n /\ k - 1 \in 0 .. n
      BY <1>4
    <3> HIDE DEF ends, seqs
    <3> QED
      BY <1>3, <1>6, <2>1, <3>1
  <2> HIDE DEF ends, seqs
  <2> QED
    BY <1>7, <2>1, <2>2 DEF Ends
<1>9. \A k \in 0 .. n : ends[k] = cum[k]
  OBVIOUS
<1> HIDE DEF seqs, ends, E
<1>10. /\ Len(FlattenSeq(seqs)) = ends[n]
       /\ \A k \in 1 .. n : \A j \in 1 .. Len(seqs[k]) :
            FlattenSeq(seqs)[ends[k - 1] + j] = seqs[k][j]
  <2>1. /\ FlattenSeq(seqs) \in Seq(E) /\ Len(FlattenSeq(seqs)) = ends[Len(seqs)]
        /\ \A k \in 1 .. Len(seqs) : \A j \in 1 .. Len(seqs[k]) :
             /\ ends[k - 1] + j <= ends[k] /\ ends[k] <= ends[Len(seqs)]
             /\ FlattenSeq(seqs)[ends[k - 1] + j] = seqs[k][j]
    BY <1>7, <1>8, FlattenOffsets
  <2> QED
    BY <1>7, <2>1
<1>11. Len(Bytes(log)) = cum[n]
  BY <1>4, <1>5, <1>9, <1>10
<1>12. ASSUME NEW k \in 1 .. n, NEW j \in 1 .. log[k].size
       PROVE  Bytes(log)[cum[k - 1] + j] = [entry |-> log[k], at |-> j - 1]
  <2>1. k - 1 \in 0 .. n
    BY <1>4
  <2>2. seqs[k][j] = [entry |-> log[k], at |-> j - 1]
    BY <1>6
  <2>3. j \in 1 .. Len(seqs[k])
    BY <1>6
  <2> QED
    BY <1>5, <1>9, <1>10, <2>1, <2>2, <2>3
<1> QED
  BY <1>11, <1>12 DEF b, cum, n, log

\* Whatever has been added, every offset is resolved to the entry that holds
\* that byte of the log and to the byte's place in it (aesd-circular-buffer.c:50).
THEOREM SearchLocates == Spec => []FindLocatesByte
<1>1. ASSUME TypeOK, OffsetsAgree PROVE FindLocatesByte
  <2> DEFINE b == buffer
             cum == CumulativeLength(b)
             log == LogOf(b)
             n == Filled(b)
             bytes == Bytes(log)
  <2>1. b \in Buffer /\ Agree(b)
    BY <1>1 DEF TypeOK, OffsetsAgree
  <2>2. /\ Len(bytes) = cum[n]
        /\ \A k \in 1 .. n : \A j \in 1 .. log[k].size :
             bytes[cum[k - 1] + j] = [entry |-> log[k], at |-> j - 1]
    BY <1>1, BytesAt
  <2>3. /\ n \in 0 .. MaxWriteOps /\ log \in Seq(Entry) /\ Len(log) = n
        /\ \A k \in 1 .. n : log[k] = b.entry[Visited(b, k - 1)]
    BY <2>1, LogOfBuffer
  <2>4. /\ cum \in [0 .. MaxWriteOps -> Nat]
        /\ \A k \in 1 .. n : cum[k] = cum[k - 1] + log[k].size
    BY <2>1, LogEnds
  <2> SUFFICES ASSUME NEW off \in 0 .. Len(bytes)
               PROVE  LET found == FindEntry(b, off)
                      IN  IF off = Len(bytes) THEN found = NULL
                          ELSE /\ found # NULL
                               /\ b.entry[found.index] = bytes[off + 1].entry
                               /\ found.offset = bytes[off + 1].at
    BY DEF FindLocatesByte
  <2> HIDE DEF b, cum, log, n, bytes
  <2>5. cum[n] \in Nat /\ off \in Nat /\ off <= cum[n]
    BY <2>2, <2>3, <2>4
  <2>6. CASE off = cum[n]
    BY <2>1, <2>2, <2>5, <2>6, FindEntryResult DEF cum, n
  <2>7. CASE off # cum[n]
    <3>1. ~(off >= cum[n])
      BY <2>5, <2>7
    <3>2. PICK k \in 1 .. n :
            /\ cum[k - 1] <= off /\ off < cum[k]
            /\ FindEntry(b, off) = [index |-> Visited(b, k - 1), offset |-> off - cum[k - 1]]
            /\ FindEntry(b, off) \in Found
      BY <2>1, <2>5, <3>1, FindEntryResult DEF cum, n
    <3>3. k - 1 \in 0 .. MaxWriteOps /\ cum[k - 1] \in Nat /\ log[k].size \in Nat
      <4>1. log[k] \in Entry
        BY <2>3
      <4>2. log[k].size \in Nat
        BY <4>1 DEF Entry
      <4>3. k - 1 \in 0 .. MaxWriteOps
        BY <2>3, CapacityAssumption
      <4>4. cum[k - 1] \in Nat
        BY <2>4, <4>3
      <4> QED
        BY <4>2, <4>3, <4>4
    <3> DEFINE j == off - cum[k - 1] + 1
    <3>4. j \in 1 .. log[k].size /\ cum[k - 1] + j = off + 1 /\ j - 1 = off - cum[k - 1]
      BY <2>4, <2>5, <3>2, <3>3
    <3>5. bytes[off + 1] = [entry |-> log[k], at |-> off - cum[k - 1]]
      <4> HIDE DEF j
      <4>1. bytes[cum[k - 1] + j] = [entry |-> log[k], at |-> j - 1]
        BY <2>2, <3>4
      <4> QED
        BY <3>4, <4>1
    <3>6. b.entry[Visited(b, k - 1)] = log[k]
      BY <2>3
    <3>7. FindEntry(b, off) # NULL
      BY <3>2, NullAssumption
    <3> QED
      BY <2>2, <2>7, <3>2, <3>5, <3>6, <3>7
  <2> QED
    BY <2>6, <2>7
<1>2. Consistent => TypeOK /\ OffsetsAgree
  BY DEF Consistent
<1> QED
  BY <1>1, <1>2, AlwaysConsistent, PTL

\* The total size, which lseek uses, is the number of bytes a reader can reach
\* (aesd-circular-buffer.c:124).
THEOREM TotalReadable == Spec => []TotalSizeIsReadable
<1>1. ASSUME Consistent PROVE TotalSizeIsReadable
  <2>1. buffer \in Buffer /\ Agree(buffer) /\ NoStaleSize(buffer) /\ TypeOK /\ OffsetsAgree
    BY <1>1 DEF Consistent, TypeOK, OffsetsAgree
  <2>2. TotalSize(buffer) = CumulativeLength(buffer)[Filled(buffer)]
    BY <2>1, LogEnds
  <2>3. Len(Bytes(LogOf(buffer))) = CumulativeLength(buffer)[Filled(buffer)]
    BY <2>1, BytesAt
  <2> QED
    BY <2>2, <2>3 DEF TotalSizeIsReadable
<1> QED
  BY <1>1, AlwaysConsistent, PTL

----------------------------------------------------------------------------
(* The circular buffer implements the bounded log.                         *)

\* The circular buffer is a bounded log: the initial buffer is the empty log
\* and every add grows the log or slides it by one, returning what fell out.
THEOREM LogImplemented == Spec => ImplementsLog
<1>1. Init => Log!Init
  <2> SUFFICES ASSUME Init PROVE Log!Init
    OBVIOUS
  <2>1. Filled(EmptyBuffer) = 0
    <3>1. 0 % MaxWriteOps = 0
      BY WrapOnce, CapacityAssumption
    <3> QED
      BY <3>1 DEF Filled, EmptyBuffer
  <2> QED
    BY <2>1 DEF Init, Log!Init, LogOf
<1>2. /\ TypeOK /\ OffsetsAgree /\ OffsetsAgree' /\ [Next]_vars
      => [Log!Next]_(Log!vars)
  <2> SUFFICES ASSUME TypeOK, OffsetsAgree, OffsetsAgree', [Next]_vars
               PROVE  [Log!Next]_(Log!vars)
    OBVIOUS
  <2>1. ASSUME NEW p \in Ptr, NEW n \in Sizes, Add(p, n) PROVE Log!Next
    <3> DEFINE e == [buffptr |-> p, size |-> n]
    <3>1. e \in Entry /\ e \in [buffptr : Ptr, size : Sizes]
      BY SizesAssumption DEF Entry
    <3>2. buffer \in Buffer /\ buffer' = AddEntry(buffer, e)
          /\ replaced' = ReplacedBuffer(buffer)
      BY <2>1 DEF Add, TypeOK
    <3>3. Agree(buffer) /\ Agree(AddEntry(buffer, e))
      BY <3>2 DEF OffsetsAgree
    <3>4. CASE ~buffer.full
      <4>1. Log!Grow(e)
        BY <3>1, <3>2, <3>3, <3>4, AddGrows DEF Log!Grow, ReplacedBuffer
      <4> QED
        BY <3>1, <4>1 DEF Log!Next
    <3>5. CASE buffer.full
      <4>1. Log!Slide(e)
        BY <3>1, <3>2, <3>3, <3>5, AddSlides DEF Log!Slide, ReplacedBuffer
      <4> QED
        BY <3>1, <4>1 DEF Log!Next
    <3> QED
      BY <3>4, <3>5
  <2>2. CASE UNCHANGED vars
    BY <2>2 DEF vars, Log!vars
  <2> QED
    BY <2>1, <2>2 DEF Next
<1> QED
  BY <1>1, <1>2, TypeCorrect, OffsetsConsistent, PTL DEF Spec, ImplementsLog, Log!Spec
=============================================================================
