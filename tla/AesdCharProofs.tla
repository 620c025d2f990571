--------------------------- MODULE AesdCharProofs ---------------------------
(***************************************************************************)
(* What is proved of the driver, for any number of threads, files, slots   *)
(* and addresses and any payloads: that mutual exclusion breaks only by    *)
(* the unlock of a call that a signal interrupted while another thread     *)
(* owned the mutex; and, as long as signals interrupt nothing but an       *)
(* lseek, the owners of its memory, its types, where a seek ends up, and   *)
(* that its reads and writes take effect one at a time on the last         *)
(* commands (AesdStream.tla).                                              *)
(***************************************************************************)
EXTENDS AesdCharProperties, CircularBufferLemmas

\* Who is in the driver and who holds its mutex.  A call keeps its file open
\* and an open file keeps the module loaded, so no Load finds a thread inside.
InCall(t) == pc[t] # "user" => req[t] \in Request /\ req[t].file \in opened

\* A call on its way out may not have the mutex it is about to unlock.
OutUnlocked(t) ==
  pc[t] = "unlock" /\ req[t].op \in Interruptible \ {"llseek"}

InsideInv ==
  /\ pc \in [Thread -> Places]
  /\ DOMAIN req = Thread
  /\ \A t \in Thread : InCall(t)
  /\ opened # {} => loaded
  /\ \A t \in Thread : pc[t] \in Locals => mutex = t \/ OutUnlocked(t)

\* The same when signals interrupt at most an lseek: who is inside has it.
HolderInv ==
  /\ pc \in [Thread -> Places]
  /\ DOMAIN req = Thread
  /\ \A t \in Thread : InCall(t)
  /\ opened # {} => loaded
  /\ \A t \in Thread : pc[t] \in Locals => mutex = t

\* A read, write or ioctl unlocks the mutex of another thread, as it does after
\* a signal interrupted its mutex_lock_interruptible.
UnlocksAnothers ==
  \E t \in Thread : /\ Unlock(t) /\ mutex \notin {t, NoThread}
                    /\ req[t].op \in Interruptible \ {"llseek"}

\* Between lock and unlock a call moves on inside, and touches neither the
\* mutex nor the requests nor the open files.
LEMMA BodyStaysInside ==
  ASSUME NEW t \in Thread, Body(t)
  PROVE  /\ pc[t] \in Locals \ {"unlock"}
         /\ \E place \in Locals : pc' = [pc EXCEPT ![t] = place]
         /\ UNCHANGED <<mutex, req, opened, loaded>>
<1>1. CASE CopyOut(t) \/ CopyOutFails(t)
  BY <1>1 DEF CopyOut, CopyOutFails, At, Goto, ExitWith, Locals
<1>2. CASE WriteNothing(t) \/ AllocFails(t)
  BY <1>2 DEF WriteNothing, AllocFails, At, Goto, ExitWith, Locals
<1>3. CASE Alloc(t)
  BY <1>3 DEF Alloc, At, Goto, Locals
<1>4. CASE CopyIn(t)
  BY <1>4 DEF CopyIn, At, Goto, Locals
<1>5. CASE AddCommand(t) \/ CachePartial(t)
  BY <1>5 DEF AddCommand, CachePartial, At, Goto, Locals
<1>6. CASE EntriesSize(t)
  BY <1>6 DEF EntriesSize, At, Goto, Locals
<1>7. CASE AdjustOffset(t) \/ AdjustRefused(t)
  BY <1>7 DEF AdjustOffset, AdjustRefused, At, Goto, ExitWith, Locals
<1> QED
  BY <1>1, <1>2, <1>3, <1>4, <1>5, <1>6, <1>7 DEF Body

\* A thread that moves to a place outside, or inside with the mutex, disturbs
\* no one as long as the mutex and the files stay.
LEMMA MoveKeepsInside ==
  ASSUME InsideInv, NEW t \in Thread, NEW place \in Places,
         pc' = [pc EXCEPT ![t] = place],
         place \in Locals => mutex = t \/ OutUnlocked(t)',
         InCall(t)', DOMAIN req' = Thread,
         \A u \in Thread \ {t} : req'[u] = req[u],
         UNCHANGED <<mutex, opened, loaded>>
  PROVE  InsideInv'
<1>1. pc' \in [Thread -> Places]
  BY DEF InsideInv
<1>2. ASSUME NEW u \in Thread PROVE InCall(u)'
  <2>1. CASE u = t
    BY <2>1
  <2>2. CASE u # t
    BY <2>2 DEF InsideInv, InCall
  <2> QED
    BY <2>1, <2>2
<1>3. ASSUME NEW u \in Thread, pc'[u] \in Locals PROVE mutex' = u \/ OutUnlocked(u)'
  <2>1. CASE u = t
    BY <1>3, <2>1 DEF InsideInv
  <2>2. CASE u # t
    BY <1>3, <2>2 DEF InsideInv, OutUnlocked
  <2> QED
    BY <2>1, <2>2
<1> QED
  BY <1>1, <1>2, <1>3 DEF InsideInv

\* The places under the mutex are places.
LEMMA LocalsArePlaces == Locals \subseteq Places
BY DEF Places

\* Every other step keeps the invariant.
LEMMA StepKeepsInside ==
  ASSUME InsideInv, [Next]_vars, ~UnlocksAnothers
  PROVE  InsideInv'
<1>1. CASE Load
  <2>1. \A t \in Thread : pc[t] \notin Locals
    BY <1>1 DEF Load, InsideInv, InCall, Locals
  <2> QED
    BY <1>1, <2>1 DEF Load, InsideInv, InCall, OutUnlocked
<1>2. CASE Unload
  BY <1>2 DEF Unload, InsideInv, InCall, OutUnlocked
<1>3. ASSUME NEW f \in File, Open(f) PROVE InsideInv'
  BY <1>3 DEF Open, InsideInv, InCall, OutUnlocked
<1>4. ASSUME NEW f \in File, Release(f) PROVE InsideInv'
  <2>1. \A t \in Thread : pc[t] # "user" => req[t].file # f
    BY <1>4, NoRequestAssumption DEF Release, InsideInv, InCall
  <2> QED
    BY <1>4, <2>1 DEF Release, InsideInv, InCall, OutUnlocked
<1>5. ASSUME NEW t \in Thread, NEW r \in Request, Call(t, r) PROVE InsideInv'
  <2>1. "lock" \in Places /\ "lock" \notin Locals
    BY DEF Places, Locals
  <2>2. InCall(t)' /\ DOMAIN req' = Thread
    BY <1>5 DEF Call, InCall, InsideInv
  <2> QED
    BY <1>5, <2>1, <2>2, MoveKeepsInside DEF Call, Goto
<1>6. ASSUME NEW t \in Thread, Lock(t) PROVE InsideInv'
  <2>1. pc[t] = "lock" /\ mutex = NoThread /\ mutex' = t
        /\ UNCHANGED <<req, opened, loaded>>
    BY <1>6 DEF Lock
  <2>2. \A u \in Thread : pc[u] \in Locals => OutUnlocked(u)
    BY <2>1, NoThreadAssumption DEF InsideInv
  <2>3. PICK place : pc' = [pc EXCEPT ![t] = place] /\ place \in Locals
    <3>1. req[t] \in Request
      BY <2>1 DEF InsideInv, InCall
    <3>2. req[t].op \in {"read", "write", "llseek", "ioctl"}
      BY <3>1 DEF Request
    <3> QED
      BY <1>6, <3>2 DEF Lock, Goto, FirstPlace, Locals
  <2>4. pc' \in [Thread -> Places]
    BY <2>3, LocalsArePlaces DEF InsideInv
  <2>5. \A u \in Thread : pc'[u] \in Locals => u = t \/ OutUnlocked(u)'
    BY <2>1, <2>2, <2>3 DEF InsideInv, OutUnlocked
  <2>6. \A u \in Thread : InCall(u)'
    BY <2>1, <2>3 DEF InsideInv, InCall
  <2> QED
    BY <2>1, <2>4, <2>5, <2>6 DEF InsideInv
<1>7. ASSUME NEW t \in Thread, Interrupted(t) PROVE InsideInv'
  <2>1. PICK place \in {"return", "unlock"} :
          /\ pc' = [pc EXCEPT ![t] = place]
          /\ place = "unlock" => req[t].op \in Interruptible \ {"llseek"}
    BY <1>7 DEF Interrupted, Goto
  <2>2. pc[t] = "lock" /\ UNCHANGED <<mutex, req, opened, loaded>>
    BY <1>7 DEF Interrupted
  <2>3. place \in Places /\ (place \in Locals => place = "unlock")
    BY DEF Places, Locals
  <2>4. InCall(t)'
    BY <2>2 DEF InsideInv, InCall
  <2>5. place \in Locals => OutUnlocked(t)'
    BY <2>1, <2>2, <2>3 DEF InsideInv, OutUnlocked
  <2> QED
    BY <2>1, <2>2, <2>3, <2>4, <2>5, MoveKeepsInside DEF InsideInv
<1>8. ASSUME NEW t \in Thread, Body(t) PROVE InsideInv'
  <2>1. PICK place \in Locals : pc' = [pc EXCEPT ![t] = place]
    BY <1>8, BodyStaysInside
  <2>2. pc[t] \in Locals \ {"unlock"} /\ UNCHANGED <<mutex, req, opened, loaded>>
    BY <1>8, BodyStaysInside
  <2>3. mutex = t /\ pc[t] # "user"
    BY <2>2 DEF InsideInv, OutUnlocked, Locals
  <2>4. InCall(t)'
    BY <2>2, <2>3 DEF InsideInv, InCall
  <2> QED
    BY <2>1, <2>2, <2>3, <2>4, MoveKeepsInside, LocalsArePlaces DEF InsideInv
<1>9. ASSUME NEW t \in Thread, Unlock(t) PROVE InsideInv'
  <2>1. pc[t] = "unlock" /\ mutex' = NoThread /\ UNCHANGED <<req, opened, loaded>>
    BY <1>9 DEF Unlock
  <2>2. PICK place \in {"seek", "return"} : pc' = [pc EXCEPT ![t] = place]
    BY <1>9 DEF Unlock, Goto
  <2>3. place \in Places /\ place \notin Locals
    BY DEF Places, Locals
  <2>4. mutex = t \/ OutUnlocked(t)
    BY <2>1 DEF InsideInv, Locals
  <2>5. mutex \in {t, NoThread}
    BY <1>9, <2>4 DEF UnlocksAnothers, OutUnlocked
  <2>6. \A u \in Thread : pc'[u] \in Locals => OutUnlocked(u)'
    BY <2>1, <2>2, <2>3, <2>5, NoThreadAssumption DEF InsideInv, OutUnlocked
  <2>7. \A u \in Thread : InCall(u)'
    BY <2>1, <2>2 DEF InsideInv, InCall
  <2>8. pc' \in [Thread -> Places]
    BY <2>2, <2>3 DEF InsideInv
  <2> QED
    BY <2>1, <2>6, <2>7, <2>8 DEF InsideInv
<1>10. ASSUME NEW t \in Thread, FixedSizeLlseek(t) PROVE InsideInv'
  <2>1. pc' = [pc EXCEPT ![t] = "return"] /\ UNCHANGED <<mutex, req, opened, loaded>>
        /\ pc[t] = "seek"
    BY <1>10 DEF FixedSizeLlseek, At, Goto
  <2>2. "return" \in Places /\ "return" \notin Locals
    BY DEF Places, Locals
  <2>3. InCall(t)'
    BY <2>1 DEF InsideInv, InCall
  <2> QED
    BY <2>1, <2>2, <2>3, MoveKeepsInside DEF InsideInv
<1>11. ASSUME NEW t \in Thread, Return(t) PROVE InsideInv'
  <2>1. pc' = [pc EXCEPT ![t] = "user"] /\ UNCHANGED <<mutex, opened, loaded>>
        /\ req' = [req EXCEPT ![t] = NoRequest]
    BY <1>11 DEF Return, Goto
  <2>2. "user" \in Places /\ "user" \notin Locals
    BY DEF Places, Locals
  <2>3. InCall(t)' /\ DOMAIN req' = Thread
    BY <2>1 DEF InsideInv, InCall
  <2> QED
    BY <2>1, <2>2, <2>3, MoveKeepsInside DEF InsideInv
<1>12. CASE UNCHANGED vars
  BY <1>12 DEF vars, InsideInv, InCall, OutUnlocked
<1> QED
  BY <1>1, <1>2, <1>3, <1>4, <1>5, <1>6, <1>7, <1>8, <1>9, <1>10, <1>11, <1>12
  DEF Next, Proceed

\* One thread at a time is in the functions of the circular buffer, which rely
\* on their caller for the locking, whatever signals interrupt, until the exit
\* path of aesd_read, aesd_write or aesd_ioctl unlocks the mutex of another
\* thread after an interrupted mutex_lock_interruptible (main.c:75, 121, 206):
\* no other step of any operation breaks it.
THEOREM OneHolder ==
  Spec /\ [][~UnlocksAnothers]_vars => []MutualExclusion
<1>1. Init => InsideInv
  BY DEF Init, InsideInv, InCall, Locals, Places
<1>2. InsideInv /\ [Next]_vars /\ [~UnlocksAnothers]_vars => InsideInv'
  <2>1. CASE UNCHANGED vars
    BY <2>1 DEF vars, InsideInv, InCall, OutUnlocked
  <2>2. CASE ~UnlocksAnothers
    BY <2>2, StepKeepsInside
  <2> QED
    BY <2>1, <2>2
<1>3. InsideInv => MutualExclusion
  BY DEF InsideInv, MutualExclusion, OutUnlocked
<1> QED
  BY <1>1, <1>2, <1>3, PTL DEF Spec

\* When signals interrupt at most an lseek, whose exit path is past the unlock,
\* no call is without the mutex it unlocks.
LEMMA StepKeepsHolder ==
  ASSUME Interruptible \subseteq {"llseek"}, HolderInv, [Next]_vars
  PROVE  HolderInv'
<1>1. InsideInv
  BY DEF HolderInv, InsideInv
<1>2. ~UnlocksAnothers
  BY DEF UnlocksAnothers
<1>3. InsideInv'
  BY <1>1, <1>2, StepKeepsInside
<1> QED
  BY <1>3 DEF HolderInv, InsideInv, OutUnlocked

----------------------------------------------------------------------------
(* The types in full, and who owns what is in memory.                      *)

Device == [circular_buffer : Buffer, cached_entry : Entry]

\* The types in full: also of what the memory holds.
Typed ==
  /\ loaded \in BOOLEAN
  /\ dev \in Device
  /\ mutex \in Thread \cup {NoThread}
  /\ DOMAIN heap \subseteq Ptr
  /\ heap \in [DOMAIN heap -> Seq(Byte)]
  /\ opened \subseteq File
  /\ f_pos \in [File -> Nat]
  /\ req \in [Thread -> Request \cup {NoRequest}]
  /\ frame \in [Thread -> Frame]
  /\ lost \subseteq Ptr

\* The slots of a loaded module, their memory and the partial command's.
SlotsOwn(b) ==
  /\ Agree(b) /\ SlotsApart(b) /\ NoStaleSize(b)
  /\ SlotMemory(b) \cap PartialMemory = {}
  /\ (SlotMemory(b) \cup PartialMemory) \cap lost = {}
  /\ \A i \in Index : b.entry[i].buffptr # NULL =>
       b.entry[i].size = Len(heap[b.entry[i].buffptr])

Owned ==
  /\ DOMAIN heap = lost \cup IF loaded THEN SlotMemory(dev.circular_buffer) \cup PartialMemory
                             ELSE {}
  /\ loaded => SlotsOwn(dev.circular_buffer)

\* The inductive invariant: what a read copies is typed because the slots own
\* what they point to, and they do because one thread at a time is inside.
HeapInv == HolderInv /\ Typed /\ Owned

----------------------------------------------------------------------------
(* Who is inside.                                                          *)

\* A thread with the mutex is the only one that can be in the middle of a write.
LEMMA OneWriter ==
  ASSUME HolderInv, NEW t \in Thread, pc[t] \in Locals
  PROVE  Writing \subseteq {t} /\ (t \in Writing <=> pc[t] \in {"copy_in", "store"})
BY DEF HolderInv, Writing, Locals

\* A call that is under way has its request, and the module is loaded.
LEMMA InsideIsLoaded ==
  ASSUME HolderInv, NEW t \in Thread, pc[t] # "user"
  PROVE  req[t] \in Request /\ req[t] # NoRequest /\ req[t].file \in opened /\ loaded
BY NoRequestAssumption DEF HolderInv, InCall

\* A step that leaves the device and the memory alone, and no write in the
\* middle, leaves the memory to its owners.
LEMMA QuietStep ==
  ASSUME Owned, UNCHANGED <<loaded, dev, heap, lost>>, Writing' = Writing,
         \A u \in Writing : frame'[u].temp_buf = frame[u].temp_buf
  PROVE  Owned'
<1>1. PartialMemory' = PartialMemory
  BY DEF PartialMemory
<1> QED
  BY <1>1 DEF Owned, SlotsOwn

\* A thread that moves from one place to another outside the middle of a write.
LEMMA OutsideWrites ==
  ASSUME HolderInv, NEW t \in Thread, NEW place, pc' = [pc EXCEPT ![t] = place],
         pc[t] \notin {"copy_in", "store"}, place \notin {"copy_in", "store"}
  PROVE  Writing' = Writing /\ t \notin Writing
BY DEF HolderInv, Writing

----------------------------------------------------------------------------
(* What the operators yield.                                               *)

\* The smaller of two: what the min of aesd_read takes.
LEMMA MinOfTwo ==
  ASSUME NEW x \in Nat, NEW y \in Nat
  PROVE  Min({x, y}) = IF x <= y THEN x ELSE y
BY DEF Min

\* A read copies bytes of one entry.
LEMMA ExcerptTyped ==
  ASSUME Typed, Owned, loaded, NEW pos \in Nat, NEW count \in Nat
  PROVE  Excerpt(pos, count) \in Seq(Byte)
<1> DEFINE b == dev.circular_buffer
           found == FindEntry(b, pos)
           entry == b.entry[found.index]
<1>1. b \in Buffer /\ Agree(b) /\ b.entry \in [Index -> Entry]
  BY DEF Typed, Device, Owned, SlotsOwn, Buffer
<1>2. CASE found = NULL
  <2>1. <<>> \in Seq(Byte)
    OBVIOUS
  <2> QED
    BY <1>2, <2>1 DEF Excerpt
<1>3. CASE found # NULL
  <2>1. PICK k \in 1 .. Filled(b) :
          /\ CumulativeLength(b)[k - 1] <= pos /\ pos < CumulativeLength(b)[k]
          /\ found = [index  |-> Visited(b, k - 1),
                      offset |-> pos - CumulativeLength(b)[k - 1]]
          /\ found \in Found
    BY <1>1, <1>3, FindEntryResult
  <2>2. found.index \in Index /\ found.offset \in Nat /\ entry \in Entry
    BY <1>1, <2>1 DEF Found
  <2>3. entry.buffptr # NULL /\ found.offset < entry.size
    <3>1. LogOf(b)[k] = entry
      BY <1>1, <2>1, LogOfBuffer
    <3>2. CumulativeLength(b)[k] = CumulativeLength(b)[k - 1] + entry.size
      BY <1>1, <3>1, LogEnds
    <3>3. k - 1 \in 0 .. MaxWriteOps /\ CumulativeLength(b)[k - 1] \in Nat
      <4>1. Filled(b) \in 0 .. MaxWriteOps
        BY <1>1, LogOfBuffer
      <4>2. CumulativeLength(b) \in [0 .. MaxWriteOps -> Nat]
        BY <1>1, LogEnds
      <4>3. k - 1 \in 0 .. MaxWriteOps
        BY <4>1, CapacityAssumption
      <4> QED
        BY <4>2, <4>3
    <3>4. entry.size \in Nat
      BY <2>2 DEF Entry
    <3>5. found.offset < entry.size
      BY <2>1, <3>2, <3>3, <3>4
    <3>6. entry.size # 0
      BY <2>2, <3>4, <3>5
    <3>7. NoStaleSize(b)
      BY DEF Owned, SlotsOwn
    <3>8. entry.buffptr # NULL
      <4> HIDE DEF b, found
      <4> QED
        BY <2>2, <3>6, <3>7 DEF NoStaleSize, entry
    <3> QED
      BY <3>5, <3>8
  <2>4. heap[entry.buffptr] \in Seq(Byte) /\ entry.size = Len(heap[entry.buffptr])
    <3>1. /\ SlotMemory(b) \subseteq DOMAIN heap /\ heap \in [DOMAIN heap -> Seq(Byte)]
          /\ \A i \in Index : b.entry[i].buffptr # NULL =>
               b.entry[i].size = Len(heap[b.entry[i].buffptr])
      BY DEF Typed, Owned, SlotsOwn
    <3> HIDE DEF b, found
    <3>2. entry.buffptr \in SlotMemory(b)
      BY <2>2, <2>3 DEF SlotMemory, entry
    <3> QED
      BY <2>2, <2>3, <3>1, <3>2 DEF entry
  <2> DEFINE last == Min({found.offset + count, entry.size})
  <2>5. last \in Nat /\ last <= entry.size
    <3>1. found.offset + count \in Nat /\ entry.size \in Nat
      BY <2>2 DEF Entry
    <3> QED
      BY <3>1, MinOfTwo
  <2>6. Excerpt(pos, count) = SubSeq(heap[entry.buffptr], found.offset + 1, last)
    BY <1>3 DEF Excerpt
  <2> HIDE DEF entry, found, last, b
  <2>7. SubSeq(heap[entry.buffptr], found.offset + 1, last) \in Seq(Byte)
    BY <2>2, <2>4, <2>5, SubSeqProperties
  <2> QED
    BY <2>6, <2>7
<1> QED
  BY <1>2, <1>3

\* What a write takes of its payload is bytes.
LEMMA PieceTyped ==
  ASSUME NEW s \in Payload, NEW n \in 0 .. Len(s)
  PROVE  SubSeq(s, 1, n) \in Seq(Byte) /\ Len(SubSeq(s, 1, n)) = n
<1>1. s \in Seq(ToSet(s)) /\ ToSet(s) \subseteq Byte
  BY PayloadAssumption DEF Byte
<1>2. s \in Seq(Byte)
  BY <1>1
<1>3. n \in Nat /\ n <= Len(s)
  BY <1>2
<1> QED
  BY <1>2, <1>3, SubSeqProperties

----------------------------------------------------------------------------
(* The actions that change the device or its memory.                       *)

\* A loaded module starts with an empty device; nobody is inside a call.
LEMMA LoadOwns == HeapInv /\ Load => Owned'
<1> SUFFICES ASSUME HeapInv, Load PROVE Owned'
  OBVIOUS
<1>1. loaded' /\ dev' = EmptyDevice /\ UNCHANGED <<heap, pc, frame, lost>>
  BY DEF Load
<1>2. DOMAIN heap = lost
  BY DEF HeapInv, Owned, Load
<1>3. \A t \in Thread : pc[t] = "user"
  BY InsideIsLoaded DEF HeapInv, Load
<1>4. Writing' = {} /\ PartialMemory' = {}
  BY <1>1, <1>3 DEF Writing, PartialMemory, EmptyDevice, EmptyEntry
<1>5. /\ Agree(EmptyBuffer) /\ SlotsApart(EmptyBuffer) /\ NoStaleSize(EmptyBuffer)
      /\ SlotMemory(EmptyBuffer) = {}
      /\ \A i \in Index : EmptyBuffer.entry[i].buffptr = NULL
  BY InitialBufferFree DEF EmptyBuffer, EmptyEntry
<1> QED
  BY <1>1, <1>2, <1>4, <1>5 DEF Owned, SlotsOwn, EmptyDevice

\* An unload frees what the slots point to; what is left is lost.
LEMMA UnloadOwns ==
  ASSUME HeapInv, Unload
  PROVE  Owned' /\ lost' \subseteq lost \cup {dev.cached_entry.buffptr}
<1> DEFINE slots == SlotMemory(dev.circular_buffer)
<1>1. ~loaded' /\ loaded /\ opened = {} /\ heap' = Free(slots) /\ lost' = lost \cup DOMAIN heap'
  BY DEF Unload, HeapInv, Typed
<1>2. \A t \in Thread : pc[t] = "user"
  BY <1>1 DEF HeapInv, HolderInv, InCall
<1>3. PartialMemory \subseteq {dev.cached_entry.buffptr}
  BY <1>2 DEF Writing, PartialMemory
<1>4. /\ DOMAIN heap = lost \cup (slots \cup PartialMemory)
      /\ (slots \cup PartialMemory) \cap lost = {}
  BY <1>1 DEF HeapInv, Owned, SlotsOwn
<1> HIDE DEF slots
<1>5. DOMAIN heap' = DOMAIN heap \ slots
  BY <1>1 DEF Free, Restrict
<1>6. lost' \subseteq lost \cup {dev.cached_entry.buffptr} /\ DOMAIN heap' = lost'
  BY <1>1, <1>3, <1>4, <1>5
<1> QED
  BY <1>1, <1>6 DEF Owned

\* The new memory takes the place of the cached entry's as the partial command's.
LEMMA AllocOwns ==
  ASSUME HeapInv, NEW t \in Thread, Alloc(t)
  PROVE  /\ Owned'
         /\ heap' \in [DOMAIN heap' -> Seq(Byte)] /\ DOMAIN heap' \subseteq Ptr
         /\ loaded /\ Writing = {} /\ Writing' = {t}
         /\ PartialMemory' = {frame'[t].temp_buf}
         /\ heap'[frame'[t].temp_buf] =
              IF dev.cached_entry.buffptr = NULL THEN <<>> ELSE heap[dev.cached_entry.buffptr]
         /\ \A p \in SlotMemory(dev.circular_buffer) : heap'[p] = heap[p]
<1> DEFINE old == dev.cached_entry.buffptr
           b == dev.circular_buffer
<1>1. /\ pc[t] = "alloc" /\ pc' = [pc EXCEPT ![t] = "copy_in"]
      /\ UNCHANGED <<loaded, dev, lost>>
  BY DEF Alloc, At, Goto
<1>2. PICK new \in (Ptr \ DOMAIN heap) \cup ({old} \ {NULL}) :
        /\ frame' = [frame EXCEPT ![t].temp_buf = new]
        /\ heap' = [p \in (DOMAIN heap \ {old}) \cup {new} |->
                      IF p # new THEN heap[p]
                      ELSE IF old = NULL THEN <<>> ELSE heap[old]]
  BY DEF Alloc
<1>3. old \in DOMAIN heap \cup {NULL}
  BY DEF Alloc
<1>4. Writing = {} /\ PartialMemory = {old} \ {NULL} /\ loaded
  BY <1>1, OneWriter, InsideIsLoaded DEF HeapInv, PartialMemory, Locals
<1>5. frame'[t].temp_buf = new
  BY <1>2 DEF HeapInv, Typed, Frame
<1>6. Writing' = {t}
  <2>1. \A u \in Thread : u # t => pc[u] \notin {"copy_in", "store"}
    BY <1>4 DEF Writing
  <2> QED
    BY <1>1, <2>1 DEF Writing, HeapInv, HolderInv
<1>7. PartialMemory' = {new}
  BY <1>5, <1>6 DEF PartialMemory
<1>8. /\ DOMAIN heap = lost \cup SlotMemory(b) \cup PartialMemory
      /\ SlotsOwn(b) /\ NULL \notin DOMAIN heap
      /\ DOMAIN heap \subseteq Ptr /\ heap \in [DOMAIN heap -> Seq(Byte)]
  BY <1>4, NullAssumption DEF HeapInv, Owned, Typed
<1>9. /\ SlotMemory(b) \cap PartialMemory = {}
      /\ (SlotMemory(b) \cup PartialMemory) \cap lost = {}
  BY <1>8 DEF SlotsOwn
<1> HIDE DEF old, b
<1>10. DOMAIN heap' = (DOMAIN heap \ {old}) \cup {new}
  BY <1>2
<1>11. /\ DOMAIN heap' = lost \cup SlotMemory(b) \cup {new}
       /\ new \notin SlotMemory(b) /\ new \notin lost
  BY <1>2, <1>4, <1>8, <1>9, <1>10
<1>12. \A p \in SlotMemory(b) : heap'[p] = heap[p]
  BY <1>2, <1>8, <1>9, <1>4, <1>11
<1>13. SlotsOwn(b)'
  <2>1. ASSUME NEW i \in Index, b.entry[i].buffptr # NULL
        PROVE  b.entry[i].size = Len(heap'[b.entry[i].buffptr])
    <3>1. b.entry[i].buffptr \in SlotMemory(b)
      BY <2>1 DEF SlotMemory
    <3> QED
      BY <1>8, <1>12, <2>1, <3>1 DEF SlotsOwn
  <2>2. b' = b
    BY <1>1 DEF b
  <2>3. /\ SlotMemory(b) \cap PartialMemory' = {}
        /\ (SlotMemory(b) \cup PartialMemory') \cap lost = {}
    BY <1>7, <1>9, <1>11
  <2> QED
    BY <1>1, <1>8, <2>1, <2>2, <2>3 DEF SlotsOwn
<1>14. heap' \in [DOMAIN heap' -> Seq(Byte)] /\ DOMAIN heap' \subseteq Ptr
  <2>1. <<>> \in Seq(Byte)
    OBVIOUS
  <2>2. \A p \in DOMAIN heap' : heap'[p] \in Seq(Byte)
    BY <1>2, <1>3, <1>8, <1>10, <2>1
  <2>3. heap' = [p \in DOMAIN heap' |-> heap'[p]]
    BY <1>2
  <2>4. new \in Ptr
    BY <1>2, <1>3, <1>8
  <2> QED
    BY <1>8, <1>10, <2>2, <2>3, <2>4
<1>15. Owned'
  BY <1>1, <1>4, <1>7, <1>11, <1>13 DEF Owned, b
<1>16. heap'[new] = IF old = NULL THEN <<>> ELSE heap[old]
  BY <1>2
<1> QED
  BY <1>4, <1>5, <1>6, <1>7, <1>12, <1>14, <1>15, <1>16 DEF b, old

\* In the middle of a write the partial command is where temp_buf points.
LEMMA WriterHolds ==
  ASSUME HeapInv, NEW t \in Thread, pc[t] \in {"copy_in", "store"}
  PROVE  /\ Writing = {t} /\ PartialMemory = {frame[t].temp_buf} /\ loaded
         /\ frame[t].temp_buf \in DOMAIN heap /\ frame[t].temp_buf \in Ptr
         /\ frame[t].temp_buf \notin SlotMemory(dev.circular_buffer)
         /\ heap[frame[t].temp_buf] \in Seq(Byte)
<1>1. Writing = {t} /\ loaded
  BY OneWriter, InsideIsLoaded DEF HeapInv, Locals
<1>2. PartialMemory = {frame[t].temp_buf}
  BY <1>1 DEF PartialMemory
<1>3. frame[t].temp_buf \in DOMAIN heap /\ frame[t].temp_buf \notin SlotMemory(dev.circular_buffer)
  BY <1>1, <1>2 DEF HeapInv, Owned, SlotsOwn
<1> QED
  BY <1>1, <1>2, <1>3 DEF HeapInv, Typed

\* copy_from_user writes to the partial command only.
LEMMA CopyInOwns ==
  ASSUME HeapInv, NEW t \in Thread, CopyIn(t)
  PROVE  /\ Owned'
         /\ heap' \in [DOMAIN heap' -> Seq(Byte)] /\ DOMAIN heap' \subseteq Ptr
         /\ Writing' = {t} /\ frame'[t].temp_buf = frame[t].temp_buf
         /\ PartialMemory' = {frame[t].temp_buf}
         /\ \A p \in SlotMemory(dev.circular_buffer) : heap'[p] = heap[p]
<1> DEFINE temp == frame[t].temp_buf
           b == dev.circular_buffer
<1>1. /\ pc[t] = "copy_in" /\ pc' = [pc EXCEPT ![t] = "store"]
      /\ req[t].op = "write" /\ UNCHANGED <<loaded, dev, lost>>
  BY DEF CopyIn, At, Goto
<1>2. PICK n \in 0 .. Len(req[t].buf) :
        /\ heap' = [heap EXCEPT ![temp] = @ \o SubSeq(req[t].buf, 1, n)]
        /\ frame' = [frame EXCEPT ![t].retval = n]
  BY DEF CopyIn
<1>3. /\ Writing = {t} /\ PartialMemory = {temp} /\ loaded
      /\ temp \in DOMAIN heap /\ temp \notin SlotMemory(b) /\ heap[temp] \in Seq(Byte)
  BY <1>1, WriterHolds
<1>4. Writing' = {t} /\ frame'[t].temp_buf = temp
  <2>1. \A u \in Thread : u # t => pc[u] \notin {"copy_in", "store"}
    BY <1>3 DEF Writing
  <2>2. Writing' = {t}
    BY <1>1, <2>1 DEF Writing, HeapInv, HolderInv
  <2> QED
    BY <1>2, <2>2 DEF HeapInv, Typed, Frame
<1>5. PartialMemory' = PartialMemory
  BY <1>3, <1>4 DEF PartialMemory
<1>6. SubSeq(req[t].buf, 1, n) \in Seq(Byte)
  <2>1. req[t] \in Request
    BY <1>1, InsideIsLoaded DEF HeapInv
  <2>2. req[t].buf \in Payload
    BY <1>1, <2>1 DEF Request
  <2> QED
    BY <2>2, PieceTyped
<1>7. /\ DOMAIN heap \subseteq Ptr /\ heap \in [DOMAIN heap -> Seq(Byte)]
      /\ SlotsOwn(b) /\ DOMAIN heap = lost \cup SlotMemory(b) \cup PartialMemory
  BY <1>3 DEF HeapInv, Typed, Owned
<1> HIDE DEF temp, b
<1>8. heap[temp] \o SubSeq(req[t].buf, 1, n) \in Seq(Byte)
  BY <1>3, <1>6
<1>9. /\ DOMAIN heap' = DOMAIN heap /\ heap' \in [DOMAIN heap' -> Seq(Byte)]
      /\ \A p \in SlotMemory(b) : heap'[p] = heap[p]
  BY <1>2, <1>3, <1>7, <1>8
<1>10. SlotsOwn(b)'
  <2>1. ASSUME NEW i \in Index, b.entry[i].buffptr # NULL
        PROVE  b.entry[i].size = Len(heap'[b.entry[i].buffptr])
    <3>1. b.entry[i].buffptr \in SlotMemory(b)
      BY <2>1 DEF SlotMemory
    <3> QED
      BY <1>7, <1>9, <2>1, <3>1 DEF SlotsOwn
  <2>2. b' = b
    BY <1>1 DEF b
  <2> QED
    BY <1>1, <1>5, <1>7, <2>1, <2>2 DEF SlotsOwn
<1>11. Owned'
  BY <1>1, <1>3, <1>5, <1>7, <1>9, <1>10 DEF Owned, b
<1> QED
  BY <1>3, <1>4, <1>5, <1>7, <1>9, <1>11 DEF b, temp

\* The new entry points to memory that no slot has.
LEMMA NewEntryTyped ==
  ASSUME HeapInv, NEW t \in Thread, pc[t] \in {"copy_in", "store"}
  PROVE  /\ NewEntry(t) \in Entry
         /\ NewEntry(t).buffptr = frame[t].temp_buf /\ NewEntry(t).buffptr # NULL
         /\ NewEntry(t).size = Len(heap[frame[t].temp_buf])
<1>1. frame[t].temp_buf \in Ptr /\ heap[frame[t].temp_buf] \in Seq(Byte)
  BY WriterHolds
<1>2. Len(heap[frame[t].temp_buf]) \in Nat
  BY <1>1
<1> QED
  BY <1>1, <1>2, NullAssumption DEF NewEntry, Entry

\* The command takes a slot, and what the slot pointed to is freed.
LEMMA AddCommandOwns ==
  ASSUME HeapInv, NEW t \in Thread, AddCommand(t)
  PROVE  /\ Owned' /\ dev' \in Device
         /\ heap' \in [DOMAIN heap' -> Seq(Byte)] /\ DOMAIN heap' \subseteq Ptr
         /\ Writing' = {} /\ PartialMemory' = {}
         /\ \A p \in SlotMemory(AddEntry(dev.circular_buffer, NewEntry(t))) :
              heap'[p] = heap[p]
<1> DEFINE temp == frame[t].temp_buf
           b == dev.circular_buffer
           e == NewEntry(t)
           c == AddEntry(b, e)
           old == ReplacedBuffer(b)
<1>1. /\ pc[t] = "store" /\ pc' = [pc EXCEPT ![t] = "unlock"]
      /\ dev' = [circular_buffer |-> c, cached_entry |-> EmptyEntry]
      /\ heap' = Free({old}) /\ UNCHANGED <<loaded, lost, frame>>
  BY DEF AddCommand, At, Goto
<1>2. /\ Writing = {t} /\ PartialMemory = {temp} /\ loaded
      /\ temp \in DOMAIN heap /\ temp \notin SlotMemory(b)
  BY <1>1, WriterHolds
<1>3. Writing' = {}
  <2>1. \A u \in Thread : u # t => pc[u] \notin {"copy_in", "store"}
    BY <1>2 DEF Writing
  <2> QED
    BY <1>1, <2>1 DEF Writing, HeapInv, HolderInv
<1>4. PartialMemory' = {}
  BY <1>1, <1>3 DEF PartialMemory, EmptyEntry
<1>5. /\ b \in Buffer /\ b.entry \in [Index -> Entry] /\ b.in_offs \in Index
      /\ DOMAIN heap \subseteq Ptr /\ heap \in [DOMAIN heap -> Seq(Byte)]
      /\ SlotsOwn(b) /\ DOMAIN heap = lost \cup SlotMemory(b) \cup {temp}
  BY <1>2 DEF HeapInv, Typed, Owned, Device, Buffer
<1>6. /\ Agree(b) /\ SlotsApart(b) /\ NoStaleSize(b)
      /\ SlotMemory(b) \cap lost = {} /\ temp \notin lost
  BY <1>2, <1>5 DEF SlotsOwn
<1>7. e \in Entry /\ e.buffptr = temp /\ temp # NULL /\ e.size = Len(heap[temp])
  BY <1>1, NewEntryTyped
<1> HIDE DEF temp, e, b
<1>8. Agree(c)
  BY <1>5, <1>6, <1>7, AddKeepsAgreement
<1>9. /\ SlotMemory(c) = (SlotMemory(b) \cup {temp}) \ {old}
      /\ SlotsApart(c) /\ NoStaleSize(c)
  BY <1>2, <1>5, <1>6, <1>7, AddKeepsMemory
<1>10. /\ c \in Buffer
       /\ \A i \in Index : c.entry[i] = IF i = b.in_offs THEN e ELSE b.entry[i]
  BY <1>5, <1>7, AddEntryFields
<1>11. old \in SlotMemory(b) \cup {NULL}
  BY <1>5, <1>6, ReplacedIsOverwritten DEF SlotMemory
<1> HIDE DEF c, old
<1>12. /\ DOMAIN heap' = DOMAIN heap \ {old}
       /\ \A p \in DOMAIN heap' : heap'[p] = heap[p]
       /\ heap' \in [DOMAIN heap' -> Seq(Byte)]
  <2>1. heap' = [p \in DOMAIN heap \cap (DOMAIN heap \ {old}) |-> heap[p]]
    BY <1>1 DEF Free, Restrict
  <2> QED
    BY <1>5, <2>1
<1>13. DOMAIN heap' = lost \cup SlotMemory(c)
  BY <1>5, <1>6, <1>9, <1>11, <1>12, NullAssumption
<1>14. ASSUME NEW i \in Index, c.entry[i].buffptr # NULL
       PROVE  c.entry[i].size = Len(heap'[c.entry[i].buffptr])
  <2>1. c.entry[i].buffptr \in SlotMemory(c)
    BY <1>14 DEF SlotMemory
  <2>2. heap'[c.entry[i].buffptr] = heap[c.entry[i].buffptr]
    BY <1>12, <1>13, <2>1
  <2>3. CASE i = b.in_offs
    BY <1>7, <1>10, <2>2, <2>3
  <2>4. CASE i # b.in_offs
    BY <1>5, <1>10, <1>14, <2>2, <2>4 DEF SlotsOwn
  <2> QED
    BY <2>3, <2>4
<1>15. dev'.circular_buffer = c
  BY <1>1
<1>16. SlotMemory(c) \cap lost = {}
  BY <1>6, <1>9
<1>17. Owned'
  BY <1>1, <1>2, <1>4, <1>8, <1>9, <1>13, <1>14, <1>15, <1>16 DEF Owned, SlotsOwn
<1>18. dev' \in Device
  <2>1. EmptyEntry \in Entry
    BY DEF EmptyEntry, Entry
  <2> QED
    BY <1>1, <1>10, <2>1 DEF Device
<1>19. \A p \in SlotMemory(c) : heap'[p] = heap[p]
  BY <1>12, <1>13
<1> QED
  BY <1>3, <1>4, <1>5, <1>12, <1>17, <1>18, <1>19 DEF b, c, e

\* The partial command goes from temp_buf to the cached entry.
LEMMA CachePartialOwns ==
  ASSUME HeapInv, NEW t \in Thread, CachePartial(t)
  PROVE  /\ Owned' /\ dev' \in Device
         /\ Writing' = {} /\ PartialMemory' = {frame[t].temp_buf}
<1>1. /\ pc[t] = "store" /\ pc' = [pc EXCEPT ![t] = "unlock"]
      /\ dev' = [dev EXCEPT !.cached_entry = NewEntry(t)]
      /\ UNCHANGED <<loaded, heap, lost, frame>>
  BY DEF CachePartial, At, Goto
<1>2. Writing = {t} /\ PartialMemory = {frame[t].temp_buf}
  BY <1>1, WriterHolds
<1>3. NewEntry(t) \in Entry /\ NewEntry(t).buffptr = frame[t].temp_buf /\ NewEntry(t).buffptr # NULL
  BY <1>1, NewEntryTyped
<1>4. Writing' = {}
  <2>1. \A u \in Thread : u # t => pc[u] \notin {"copy_in", "store"}
    BY <1>2 DEF Writing
  <2> QED
    BY <1>1, <2>1 DEF Writing, HeapInv, HolderInv
<1>5. /\ dev' \in Device /\ dev'.circular_buffer = dev.circular_buffer
      /\ dev'.cached_entry = NewEntry(t)
  BY <1>1, <1>3 DEF HeapInv, Typed, Device
<1>6. PartialMemory' = PartialMemory
  BY <1>2, <1>3, <1>4, <1>5 DEF PartialMemory
<1>7. Owned'
  BY <1>1, <1>5, <1>6 DEF HeapInv, Owned, SlotsOwn
<1> QED
  BY <1>2, <1>4, <1>5, <1>6, <1>7

----------------------------------------------------------------------------
(* Types.                                                                  *)

\* An EXCEPT of a field of one frame.
LEMMA FrameStays ==
  ASSUME Typed, NEW t \in Thread
  PROVE  /\ \A n \in Int : [frame EXCEPT ![t].retval = n] \in [Thread -> Frame]
         /\ \A n \in Nat : [frame EXCEPT ![t].size = n] \in [Thread -> Frame]
         /\ \A p \in Ptr : [frame EXCEPT ![t].temp_buf = p] \in [Thread -> Frame]
         /\ \A n \in Nat : [frame EXCEPT ![t] = NewFrame(n)] \in [Thread -> Frame]
<1>1. \A n \in Nat : NewFrame(n) \in Frame
  <2>1. <<>> \in Seq(Byte)
    OBVIOUS
  <2> QED
    BY <2>1 DEF NewFrame, Frame
<1>2. frame \in [Thread -> Frame] /\ frame[t] \in Frame
  BY DEF Typed
<1>3. \A g \in Frame : [frame EXCEPT ![t] = g] \in [Thread -> Frame]
  BY <1>2
<1>4. ASSUME NEW n \in Int PROVE [frame EXCEPT ![t].retval = n] \in [Thread -> Frame]
  <2>1. [frame[t] EXCEPT !.retval = n] \in Frame
    BY <1>2 DEF Frame
  <2> QED
    BY <1>3, <2>1
<1>5. ASSUME NEW n \in Nat PROVE [frame EXCEPT ![t].size = n] \in [Thread -> Frame]
  <2>1. [frame[t] EXCEPT !.size = n] \in Frame
    BY <1>2 DEF Frame
  <2> QED
    BY <1>3, <2>1
<1>6. ASSUME NEW p \in Ptr PROVE [frame EXCEPT ![t].temp_buf = p] \in [Thread -> Frame]
  <2>1. [frame[t] EXCEPT !.temp_buf = p] \in Frame
    BY <1>2 DEF Frame
  <2> QED
    BY <1>3, <2>1
<1> QED
  BY <1>1, <1>3, <1>4, <1>5, <1>6

\* The module, its files, and the calls on their way in and out.
LEMMA OuterStepsTyped ==
  ASSUME HeapInv,
         \/ Load \/ Unload
         \/ \E f \in File : Open(f) \/ Release(f)
         \/ \E t \in Thread : \/ \E r \in Request : Call(t, r)
                              \/ Lock(t) \/ Interrupted(t) \/ Unlock(t)
                              \/ FixedSizeLlseek(t) \/ Return(t)
  PROVE  Typed'
<1>0. Typed
  BY DEF HeapInv
<1>1. CASE Load
  <2>1. EmptyDevice \in Device
    BY InitialBuffer DEF EmptyDevice, Device, EmptyEntry, Entry
  <2> QED
    BY <1>0, <1>1, <2>1 DEF Load, Typed
<1>2. CASE Unload
  <2>1. dev' \in Device
    BY <1>0, <1>2 DEF Unload, Typed, Device, Buffer, Entry
  <2>2. /\ DOMAIN heap' \subseteq Ptr /\ heap' \in [DOMAIN heap' -> Seq(Byte)]
        /\ lost' \subseteq Ptr
    BY <1>0, <1>2 DEF Unload, Typed, Free, Restrict
  <2> QED
    BY <1>0, <1>2, <2>1, <2>2 DEF Unload, Typed
<1>3. ASSUME NEW f \in File, Open(f) \/ Release(f) PROVE Typed'
  BY <1>0, <1>3 DEF Open, Release, Typed
<1>4. ASSUME NEW t \in Thread, NEW r \in Request, Call(t, r) PROVE Typed'
  <2>1. f_pos[r.file] \in Nat
    BY <1>0, <1>4 DEF Call, Typed
  <2>2. (IF r.op \in {"read", "write"} THEN f_pos[r.file] ELSE 0) \in Nat
    BY <2>1
  <2>3. frame' \in [Thread -> Frame]
    BY <1>0, <1>4, <2>2, FrameStays DEF Call
  <2> QED
    BY <1>0, <1>4, <2>3 DEF Call, Typed
<1>5. ASSUME NEW t \in Thread, Lock(t) \/ Unlock(t) PROVE Typed'
  BY <1>0, <1>5 DEF Lock, Unlock, Typed
<1>6. ASSUME NEW t \in Thread, Interrupted(t) PROVE Typed'
  <2>1. -ERESTARTSYS \in Int
    BY DEF ERESTARTSYS
  <2>2. frame' \in [Thread -> Frame]
    BY <1>0, <1>6, <2>1, FrameStays DEF Interrupted
  <2> QED
    BY <1>0, <1>6, <2>2 DEF Interrupted, Typed
<1>7. ASSUME NEW t \in Thread, FixedSizeLlseek(t) PROVE Typed'
  <2> DEFINE offset == req[t].seek[1]
             whence == req[t].seek[2]
             target == offset + CASE whence = "SEEK_SET" -> 0
                                  [] whence = "SEEK_CUR" -> f_pos[req[t].file]
                                  [] whence = "SEEK_END" -> frame[t].size
             valid  == \/ target \in 0 .. frame[t].size
                       \/ whence = "SEEK_CUR" /\ offset = 0
  <2>1. /\ frame' = [frame EXCEPT ![t].retval = IF valid THEN target ELSE -EINVAL]
        /\ f_pos' = IF valid THEN [f_pos EXCEPT ![req[t].file] = target] ELSE f_pos
        /\ pc[t] = "seek" /\ req[t].op = "llseek"
        /\ UNCHANGED <<loaded, dev, mutex, heap, opened, req, lost>>
    BY <1>7 DEF FixedSizeLlseek, At
  <2>2. req[t] \in Request /\ req[t].file \in File
    BY <1>0, <2>1, InsideIsLoaded DEF HeapInv, Typed
  <2>3. /\ f_pos[req[t].file] \in Nat /\ frame[t].size \in Nat
    BY <1>0, <2>2 DEF Typed, Frame
  <2>4. valid => target \in Nat
    <3> HIDE DEF target, whence, offset
    <3>1. CASE target \in 0 .. frame[t].size
      BY <2>3, <3>1
    <3>2. CASE whence = "SEEK_CUR" /\ offset = 0
      <4>1. target = 0 + f_pos[req[t].file]
        <5>1. target = offset + CASE whence = "SEEK_SET" -> 0
                                  [] whence = "SEEK_CUR" -> f_pos[req[t].file]
                                  [] whence = "SEEK_END" -> frame[t].size
          BY DEF target
        <5>2. target = offset + f_pos[req[t].file]
          BY <3>2, <5>1
        <5> QED
          BY <3>2, <5>2
      <4> QED
        BY <2>3, <4>1
    <3> QED
      BY <3>1, <3>2
  <2> HIDE DEF valid, target
  <2>5. (IF valid THEN target ELSE -EINVAL) \in Int
    BY <2>4 DEF EINVAL
  <2>6. frame' \in [Thread -> Frame]
    BY <1>0, <2>1, <2>5, FrameStays
  <2>7. f_pos' \in [File -> Nat]
    BY <1>0, <2>1, <2>4 DEF Typed
  <2> QED
    BY <1>0, <2>1, <2>6, <2>7 DEF Typed
<1>8. ASSUME NEW t \in Thread, Return(t) PROVE Typed'
  <2>1. frame[t].pos \in Nat
    BY <1>0 DEF Typed, Frame
  <2>2. f_pos' \in [File -> Nat]
    BY <1>0, <1>8, <2>1 DEF Return, Typed
  <2>3. frame' \in [Thread -> Frame]
    BY <1>0, <1>8, FrameStays DEF Return
  <2> QED
    BY <1>0, <1>8, <2>2, <2>3 DEF Return, Typed
<1> QED
  BY <1>1, <1>2, <1>3, <1>4, <1>5, <1>6, <1>7, <1>8

\* The steps inside.
LEMMA BodyTyped ==
  ASSUME HeapInv, NEW t \in Thread, Body(t)
  PROVE  Typed'
<1>0. /\ Typed /\ Owned /\ loaded /\ pc[t] # "user"
      /\ req[t] \in Request /\ req[t].file \in File
      /\ UNCHANGED <<mutex, req, opened, loaded>>
  <2>1. pc[t] \in Locals /\ UNCHANGED <<mutex, req, opened, loaded>>
    BY BodyStaysInside
  <2>2. pc[t] # "user"
    BY <2>1 DEF Locals
  <2> QED
    BY <2>1, <2>2, InsideIsLoaded DEF HeapInv, Typed
<1>1. -ENOMEM \in Int /\ -EFAULT \in Int /\ -EINVAL \in Int
  BY DEF ENOMEM, EFAULT, EINVAL
<1>2. CASE CopyOut(t)
  <2> DEFINE bytes == Excerpt(frame[t].pos, req[t].count)
  <2>1. frame[t].pos \in Nat /\ req[t].count \in Nat
    BY <1>0, <1>2, CallAssumption DEF Typed, Frame, CopyOut, At, Request
  <2>2. bytes \in Seq(Byte)
    BY <1>0, <2>1, ExcerptTyped
  <2> HIDE DEF bytes
  <2>3. frame' = [frame EXCEPT ![t].given = bytes, ![t].retval = Len(bytes),
                               ![t].pos = @ + Len(bytes)]
    BY <1>2 DEF CopyOut, bytes
  <2>4. Len(bytes) \in Nat
    BY <2>2
  <2> DEFINE g == [frame[t] EXCEPT !.given = bytes, !.retval = Len(bytes),
                                   !.pos = frame[t].pos + Len(bytes)]
  <2>5. g \in Frame /\ frame \in [Thread -> Frame]
    <3>1. frame[t] \in Frame /\ frame[t].pos + Len(bytes) \in Nat /\ Len(bytes) \in Int
      BY <1>0, <2>1, <2>4 DEF Typed
    <3> QED
      BY <1>0, <2>2, <3>1 DEF Typed, Frame
  <2>6. frame' = [frame EXCEPT ![t] = g]
    BY <2>3
  <2>7. frame' \in [Thread -> Frame]
    <3> HIDE DEF g
    <3> QED
      BY <2>5, <2>6
  <2> QED
    BY <1>0, <1>2, <2>7 DEF CopyOut, Typed
<1>3. CASE CopyOutFails(t) \/ WriteNothing(t) \/ AllocFails(t) \/ AdjustRefused(t)
  <2>1. frame' \in [Thread -> Frame]
    BY <1>0, <1>1, <1>3, FrameStays
    DEF CopyOutFails, WriteNothing, AllocFails, AdjustRefused, ExitWith
  <2> QED
    BY <1>0, <1>3, <2>1 DEF CopyOutFails, WriteNothing, AllocFails, AdjustRefused, Typed
<1>4. CASE Alloc(t)
  <2>1. frame' \in [Thread -> Frame]
    <3>1. PICK new \in (Ptr \ DOMAIN heap) \cup ({dev.cached_entry.buffptr} \ {NULL}) :
            frame' = [frame EXCEPT ![t].temp_buf = new]
      BY <1>4 DEF Alloc
    <3>2. new \in Ptr
      BY <1>0, <3>1 DEF Typed, Device, Entry
    <3> QED
      BY <1>0, <3>1, <3>2, FrameStays
  <2>2. heap' \in [DOMAIN heap' -> Seq(Byte)] /\ DOMAIN heap' \subseteq Ptr
    BY <1>4, AllocOwns
  <2> QED
    BY <1>0, <1>4, <2>1, <2>2 DEF Alloc, Typed
<1>5. CASE CopyIn(t)
  <2>1. frame' \in [Thread -> Frame]
    <3>1. PICK n \in 0 .. Len(req[t].buf) : frame' = [frame EXCEPT ![t].retval = n]
      BY <1>5 DEF CopyIn
    <3> QED
      BY <1>0, <3>1, FrameStays
  <2>2. heap' \in [DOMAIN heap' -> Seq(Byte)] /\ DOMAIN heap' \subseteq Ptr
    BY <1>5, CopyInOwns
  <2> QED
    BY <1>0, <1>5, <2>1, <2>2 DEF CopyIn, Typed
<1>6. CASE AddCommand(t)
  <2>1. /\ dev' \in Device
        /\ heap' \in [DOMAIN heap' -> Seq(Byte)] /\ DOMAIN heap' \subseteq Ptr
    BY <1>6, AddCommandOwns
  <2> QED
    BY <1>0, <1>6, <2>1 DEF AddCommand, Typed
<1>7. CASE CachePartial(t)
  <2>1. dev' \in Device
    BY <1>7, CachePartialOwns
  <2> QED
    BY <1>0, <1>7, <2>1 DEF CachePartial, Typed
<1>8. SlotSizes(dev.circular_buffer) \in [Index -> Nat]
  BY <1>0 DEF Typed, Device, Buffer, Entry, SlotSizes
<1>9. CASE EntriesSize(t)
  <2>1. TotalSize(dev.circular_buffer) \in Nat
    <3>1. MaxWriteOps \in 0 .. MaxWriteOps
      BY CapacityAssumption
    <3> QED
      BY <1>8, <3>1, RunningSumSteps DEF TotalSize
  <2>2. frame' \in [Thread -> Frame]
    BY <1>0, <1>9, <2>1, FrameStays DEF EntriesSize
  <2> QED
    BY <1>0, <1>9, <2>2 DEF EntriesSize, Typed
<1>10. CASE AdjustOffset(t)
  <2>1. req[t].seekto.write_cmd \in 0 .. MaxWriteOps /\ req[t].seekto.write_cmd_offset \in Nat
    <3>1. req[t].seekto \in [write_cmd : Nat, write_cmd_offset : Nat]
      BY <1>0, <1>10, CallAssumption DEF AdjustOffset, At, Request
    <3> QED
      BY <1>10, <3>1, CapacityAssumption DEF AdjustOffset, SeekToValid
  <2>2. SeekToOffset(req[t].seekto) \in Nat
    <3>1. RunningSum(SlotSizes(dev.circular_buffer)) \in [0 .. MaxWriteOps -> Nat]
      BY <1>8, RunningSumSteps
    <3> DEFINE seekto == req[t].seekto
    <3>2. RunningSum(SlotSizes(dev.circular_buffer))[seekto.write_cmd] \in Nat
      BY <2>1, <3>1
    <3>3. seekto.write_cmd_offset \in Nat
      BY <2>1
    <3>4. \A x, y \in Nat : x + y \in Nat
      OBVIOUS
    <3> QED
      BY <3>2, <3>3, <3>4 DEF SeekToOffset
  <2>3. f_pos' \in [File -> Nat]
    BY <1>0, <1>10, <2>2 DEF AdjustOffset, Typed
  <2>4. frame' \in [Thread -> Frame]
    BY <1>0, <1>10, FrameStays DEF AdjustOffset, ExitWith
  <2> QED
    BY <1>0, <1>10, <2>3, <2>4 DEF AdjustOffset, Typed
<1> QED
  BY <1>2, <1>3, <1>4, <1>5, <1>6, <1>7, <1>9, <1>10 DEF Body

----------------------------------------------------------------------------
(* The invariant.                                                          *)

\* A step that does not touch the device or its memory.
Quiet(t) ==
  \/ \E r \in Request : Call(t, r)
  \/ Lock(t) \/ Interrupted(t) \/ Unlock(t) \/ FixedSizeLlseek(t) \/ Return(t)
  \/ CopyOut(t) \/ CopyOutFails(t) \/ WriteNothing(t) \/ AllocFails(t)
  \/ EntriesSize(t) \/ AdjustOffset(t) \/ AdjustRefused(t)

\* It moves its own thread only, and not in the middle of a write.
LEMMA QuietMoves ==
  ASSUME HeapInv, NEW t \in Thread, Quiet(t)
  PROVE  /\ UNCHANGED <<loaded, dev, heap, lost>>
         /\ \E place : pc' = [pc EXCEPT ![t] = place]
         /\ \A u \in Thread : u # t => frame'[u] = frame[u] /\ req'[u] = req[u]
         /\ Writing' = Writing /\ t \notin Writing
<1> DEFINE quiet == {"user", "lock", "seek", "return", "alloc", "copy_out", "size",
                     "adjust", "unlock"}
<1>1. /\ UNCHANGED <<loaded, dev, heap, lost>> /\ pc[t] \in quiet
      /\ \E place \in quiet : pc' = [pc EXCEPT ![t] = place]
      /\ \A u \in Thread : u # t => frame'[u] = frame[u] /\ req'[u] = req[u]
  <2>1. DOMAIN frame = Thread /\ DOMAIN req = Thread
    BY DEF HeapInv, Typed
  <2>2. CASE \E r \in Request : Call(t, r)
    BY <2>1, <2>2 DEF Call, Goto
  <2>3. CASE Lock(t)
    <3>1. req[t].op \in {"read", "write", "llseek", "ioctl"}
      BY <2>3, InsideIsLoaded DEF HeapInv, Lock, Request
    <3> QED
      BY <2>3, <3>1 DEF Lock, Goto, FirstPlace
  <2>4. CASE Interrupted(t) \/ Unlock(t)
    BY <2>1, <2>4 DEF Interrupted, Unlock, Goto
  <2>5. CASE FixedSizeLlseek(t)
    BY <2>1, <2>5 DEF FixedSizeLlseek, Goto, At
  <2>6. CASE Return(t)
    BY <2>1, <2>6 DEF Return, Goto
  <2>7. CASE CopyOut(t) \/ CopyOutFails(t) \/ WriteNothing(t) \/ AllocFails(t)
    BY <2>1, <2>7 DEF CopyOut, CopyOutFails, WriteNothing, AllocFails, Goto, At, ExitWith
  <2>8. CASE EntriesSize(t) \/ AdjustOffset(t) \/ AdjustRefused(t)
    BY <2>1, <2>8 DEF EntriesSize, AdjustOffset, AdjustRefused, Goto, At, ExitWith
  <2> QED
    BY <2>2, <2>3, <2>4, <2>5, <2>6, <2>7, <2>8 DEF Quiet
<1>2. PICK place \in quiet : pc' = [pc EXCEPT ![t] = place]
  BY <1>1
<1>3. Writing' = Writing /\ t \notin Writing
  BY <1>1, <1>2, OutsideWrites DEF HeapInv
<1> QED
  BY <1>1, <1>2, <1>3

\* So the memory stays with its owners.
LEMMA QuietStepsOwn ==
  ASSUME HeapInv, NEW t \in Thread, Quiet(t)
  PROVE  Owned'
<1>1. /\ UNCHANGED <<loaded, dev, heap, lost>> /\ Writing' = Writing
      /\ \A u \in Writing : frame'[u].temp_buf = frame[u].temp_buf
  BY QuietMoves DEF Writing
<1> QED
  BY <1>1, QuietStep DEF HeapInv

\* It holds before the module is loaded.
LEMMA InitHeap == Init => HeapInv
<1> SUFFICES ASSUME Init PROVE HeapInv
  OBVIOUS
<1>1. HolderInv
  BY DEF Init, HolderInv, InCall, Locals, Places
<1>2. EmptyDevice \in Device
  BY InitialBuffer DEF EmptyDevice, Device, EmptyEntry, Entry
<1>3. NewFrame(0) \in Frame
  <2>1. <<>> \in Seq(Byte)
    OBVIOUS
  <2> QED
    BY <2>1 DEF NewFrame, Frame
<1>4. heap \in [DOMAIN heap -> Seq(Byte)] /\ DOMAIN heap = {}
  BY DEF Init
<1>5. Typed
  BY <1>2, <1>3, <1>4 DEF Init, Typed
<1>6. Owned
  BY <1>4 DEF Init, Owned
<1> QED
  BY <1>1, <1>5, <1>6 DEF HeapInv

\* Every step keeps the memory with its owners.
LEMMA StepKeepsHeap ==
  ASSUME Interruptible \subseteq {"llseek"}, HeapInv, [Next]_vars
  PROVE  HeapInv'
<1>1. HolderInv'
  BY StepKeepsHolder DEF HeapInv
<1>2. CASE UNCHANGED vars
  <2>1. Writing' = Writing
    BY <1>2 DEF vars, Writing
  <2> QED
    BY <1>1, <1>2, <2>1, QuietStep DEF vars, HeapInv, Typed, Writing
<1>3. CASE Load
  BY <1>1, <1>3, LoadOwns, OuterStepsTyped DEF HeapInv
<1>4. CASE Unload
  BY <1>1, <1>4, UnloadOwns, OuterStepsTyped DEF HeapInv
<1>5. ASSUME NEW f \in File, Open(f) \/ Release(f) PROVE HeapInv'
  <2>1. Writing' = Writing /\ UNCHANGED <<loaded, dev, heap, lost, frame>>
    BY <1>5 DEF Open, Release, Writing
  <2>2. Owned'
    BY <2>1, QuietStep DEF HeapInv, Writing
  <2> QED
    BY <1>1, <1>5, <2>2, OuterStepsTyped DEF HeapInv
<1>6. ASSUME NEW t \in Thread,
             \/ \E r \in Request : Call(t, r)
             \/ Lock(t) \/ Interrupted(t) \/ Unlock(t) \/ FixedSizeLlseek(t) \/ Return(t)
      PROVE  HeapInv'
  BY <1>1, <1>6, QuietStepsOwn, OuterStepsTyped DEF HeapInv, Quiet
<1>7. ASSUME NEW t \in Thread, Body(t) PROVE HeapInv'
  <2>1. Owned'
    BY <1>7, AllocOwns, CopyInOwns, AddCommandOwns, CachePartialOwns, QuietStepsOwn
    DEF Body, Quiet
  <2> QED
    BY <1>1, <1>7, <2>1, BodyTyped DEF HeapInv
<1> QED
  BY <1>2, <1>3, <1>4, <1>5, <1>6, <1>7 DEF Next, Proceed

----------------------------------------------------------------------------
(* The theorems.                                                           *)

\* The inductive invariant holds throughout.
THEOREM AlwaysOwned ==
  ASSUME Interruptible \subseteq {"llseek"}
  PROVE  Spec => []HeapInv
<1>1. HeapInv /\ [Next]_vars => HeapInv'
  BY StepKeepsHeap
<1> QED
  BY <1>1, InitHeap, PTL DEF Spec

\* Every variable of the driver keeps its type; what a read copies out is bytes
\* of one command (main.c:85).
THEOREM DriverTypes ==
  ASSUME Interruptible \subseteq {"llseek"}
  PROVE  Spec => []TypeOK
<1>1. HeapInv => TypeOK
  BY DEF HeapInv, HolderInv, Typed, Device, TypeOK
<1> QED
  BY <1>1, AlwaysOwned, PTL

\* The live memory is what the slots, the partial command and earlier unloads
\* account for, each piece once: krealloc, kfree and the failing paths of
\* aesd_write neither leak nor free twice (main.c:130-170).
THEOREM MemoryHasOneOwner ==
  ASSUME Interruptible \subseteq {"llseek"}
  PROVE  Spec => []HeapIsOwned
<1>1. ASSUME HeapInv PROVE HeapIsOwned
  <2> DEFINE b == dev.circular_buffer
  <2>1. DOMAIN heap = lost \cup IF loaded THEN SlotMemory(b) \cup PartialMemory ELSE {}
    BY <1>1 DEF HeapInv, Owned
  <2>2. ASSUME loaded PROVE SlotsOwn(b) /\ b \in Buffer
    BY <1>1, <2>2 DEF HeapInv, Owned, Typed, Device
  <2>3. Cardinality(PartialMemory) <= 1
    <3>1. \A x : Cardinality({x}) = 1
      BY FS_Singleton
    <3>2. PartialMemory = {} \/ \E x : PartialMemory = {x}
      <4>1. CASE Writing = {}
        BY <4>1 DEF PartialMemory
      <4>2. CASE Writing # {}
        <5>1. PICK t \in Writing : TRUE
          BY <4>2
        <5>2. Writing = {t} /\ t \in Thread
          BY <1>1, <5>1, WriterHolds DEF Writing
        <5> QED
          BY <5>2 DEF PartialMemory
      <4> QED
        BY <4>1, <4>2
    <3>3. Cardinality({}) = 0
      BY FS_EmptySet
    <3> HIDE DEF b
    <3>4. CASE PartialMemory = {}
      <4>1. Cardinality(PartialMemory) = 0
        BY <3>3, <3>4
      <4> QED
        BY <4>1
    <3>5. CASE \E x : PartialMemory = {x}
      <4>1. Cardinality(PartialMemory) = 1
        BY <3>1, <3>5
      <4> QED
        BY <4>1
    <3> QED
      BY <3>2, <3>4, <3>5
  <2>4. ASSUME loaded PROVE Cardinality(SlotMemory(b)) = Filled(b)
    BY <2>2, <2>4, SlotsCounted DEF SlotsOwn
  <2> QED
    BY <2>1, <2>2, <2>3, <2>4 DEF HeapIsOwned, SlotsOwn
<1> QED
  BY <1>1, AlwaysOwned, PTL

\* An unload frees the memory of every slot: at most the partial command that
\* was pending is left behind (main.c:320-327).
THEOREM UnloadLosesPartial ==
  ASSUME Interruptible \subseteq {"llseek"}
  PROVE  Spec => UnloadFreesSlots
<1>1. ASSUME HeapInv, [Next]_vars, loaded, ~loaded'
      PROVE  lost' \subseteq lost \cup {dev.cached_entry.buffptr}
  <2>1. CASE Unload
    BY <1>1, <2>1, UnloadOwns
  <2>2. CASE ~Unload
    <3>1. UNCHANGED loaded \/ Load
      BY <1>1, <2>2, BodyStaysInside
      DEF Next, vars, Open, Release, Call, Lock, Interrupted, Proceed, Unlock,
          FixedSizeLlseek, Return
    <3> QED
      BY <1>1, <3>1 DEF Load
  <2> QED
    BY <2>1, <2>2
<1>2. HeapInv /\ [Next]_vars
      => [loaded /\ ~loaded' => lost' \subseteq lost \cup {dev.cached_entry.buffptr}]_vars
  BY <1>1
<1> QED
  BY <1>2, AlwaysOwned, PTL DEF Spec, UnloadFreesSlots

----------------------------------------------------------------------------
(* The commands of a loaded module.                                        *)

\* An entry of the log is in a slot in use.
LEMMA LogSlot ==
  ASSUME NEW b \in Buffer, Agree(b), NEW i \in 1 .. Filled(b)
  PROVE  /\ Visited(b, i - 1) \in Index /\ LogOf(b)[i] = b.entry[Visited(b, i - 1)]
         /\ LogOf(b)[i] \in Entry /\ LogOf(b)[i].buffptr # NULL
<1> DEFINE k == i - 1
<1>1. /\ Filled(b) = IF b.full THEN MaxWriteOps ELSE b.in_offs
      /\ Filled(b) \in 0 .. MaxWriteOps
      /\ LogOf(b)[i] = b.entry[Visited(b, k)]
  BY LogOfBuffer
<1>2. k \in Index /\ k < Filled(b)
  BY <1>1, CapacityAssumption DEF Index
<1>3. /\ Visited(b, k) \in Index
      /\ Visited(b, k) = IF b.out_offs + k < MaxWriteOps THEN b.out_offs + k
                         ELSE b.out_offs + k - MaxWriteOps
  BY <1>2, VisitedValue
<1>4. b.full \/ Visited(b, k) < b.in_offs
  <2>1. CASE ~b.full
    <3>1. b.out_offs = 0
      BY <2>1 DEF Agree
    <3>2. k < b.in_offs /\ 0 + k < MaxWriteOps /\ 0 + k = k
      BY <1>1, <1>2, <2>1, CapacityAssumption DEF Index
    <3> QED
      BY <1>3, <3>1, <3>2
  <2> QED
    BY <2>1
<1>5. b.entry[Visited(b, k)].buffptr # NULL
  BY <1>3, <1>4 DEF Agree
<1>6. LogOf(b)[i] \in Entry
  BY <1>1, <1>3 DEF Buffer
<1> QED
  BY <1>1, <1>3, <1>5, <1>6

\* Its size is what it points to.
LEMMA LogEntry ==
  ASSUME HeapInv, loaded, NEW i \in 1 .. Filled(dev.circular_buffer)
  PROVE  LET b == dev.circular_buffer
             e == LogOf(b)[i]
         IN  /\ e.buffptr \in SlotMemory(b) /\ e.buffptr \in DOMAIN heap
             /\ heap[e.buffptr] \in Seq(Byte) /\ e.size = Len(heap[e.buffptr])
<1> DEFINE b == dev.circular_buffer
           e == LogOf(b)[i]
<1>1. b \in Buffer /\ Agree(b)
  BY DEF HeapInv, Typed, Device, Owned, SlotsOwn
<1>2. /\ SlotMemory(b) \subseteq DOMAIN heap /\ heap \in [DOMAIN heap -> Seq(Byte)]
      /\ \A j \in Index : b.entry[j].buffptr # NULL =>
           b.entry[j].size = Len(heap[b.entry[j].buffptr])
  BY DEF HeapInv, Typed, Owned, SlotsOwn
<1>3. i \in 1 .. Filled(b)
  OBVIOUS
<1> HIDE DEF b
<1>4. PICK j \in Index : e = b.entry[j] /\ b.entry[j].buffptr # NULL
  BY <1>1, <1>3, LogSlot
<1>5. e.buffptr \in SlotMemory(b) /\ e.size = Len(heap[e.buffptr])
  BY <1>2, <1>4 DEF SlotMemory
<1> QED
  BY <1>2, <1>5 DEF b

\* The commands are what the entries of the log point to.
LEMMA CommandBytes ==
  ASSUME HeapInv, loaded
  PROVE  LET b == dev.circular_buffer
         IN  /\ Commands \in Seq(Seq(Byte)) /\ Len(Commands) = Filled(b)
             /\ Filled(b) \in 0 .. MaxWriteOps
             /\ \A i \in 1 .. Filled(b) :
                  /\ Commands[i] = heap[LogOf(b)[i].buffptr]
                  /\ Len(Commands[i]) = LogOf(b)[i].size
<1> DEFINE b == dev.circular_buffer
           n == Filled(b)
<1>1. b \in Buffer /\ Agree(b)
  BY DEF HeapInv, Typed, Device, Owned, SlotsOwn
<1>2. n \in 0 .. MaxWriteOps /\ Len(LogOf(b)) = n
  BY <1>1, LogOfBuffer
<1>3. Commands = [i \in 1 .. n |-> Text(LogOf(b)[i])]
  BY <1>2 DEF Commands
<1>4. ASSUME NEW i \in 1 .. n
      PROVE  /\ Text(LogOf(b)[i]) = heap[LogOf(b)[i].buffptr]
             /\ heap[LogOf(b)[i].buffptr] \in Seq(Byte)
             /\ Len(heap[LogOf(b)[i].buffptr]) = LogOf(b)[i].size
  <2> DEFINE e == LogOf(b)[i]
  <2>1. heap[e.buffptr] \in Seq(Byte) /\ e.size = Len(heap[e.buffptr])
    BY <1>4, LogEntry
  <2> HIDE DEF e
  <2>2. SubSeq(heap[e.buffptr], 1, Len(heap[e.buffptr])) = heap[e.buffptr]
    BY <2>1, SubSeqFull
  <2>3. Text(e) = heap[e.buffptr]
    BY <2>1, <2>2 DEF Text
  <2> QED
    BY <2>1, <2>3 DEF e
<1> HIDE DEF b, n
<1>5. \A i \in 1 .. n : Commands[i] = heap[LogOf(b)[i].buffptr]
  BY <1>3, <1>4
<1>6. Commands \in [1 .. n -> Seq(Byte)] /\ n \in Nat
  BY <1>2, <1>3, <1>4, CapacityAssumption
<1>7. Commands \in Seq(Seq(Byte)) /\ Len(Commands) = n
  BY <1>6
<1> QED
  BY <1>2, <1>4, <1>5, <1>7 DEF b, n

\* Each command ends where the search has got to once it has visited it.
LEMMA CommandEnds ==
  ASSUME HeapInv, loaded
  PROVE  LET b == dev.circular_buffer
             ends == [k \in 0 .. Filled(b) |-> CumulativeLength(b)[k]]
         IN  /\ Ends(Commands, ends)
             /\ Len(FlattenSeq(Commands)) = CumulativeLength(b)[Filled(b)]
             /\ Len(FlattenSeq(Commands)) = TotalSize(b)
             /\ FlattenSeq(Commands) \in Seq(Byte)
<1> DEFINE b == dev.circular_buffer
           n == Filled(b)
           cum == CumulativeLength(b)
           ends == [k \in 0 .. n |-> cum[k]]
<1>1. b \in Buffer /\ Agree(b) /\ NoStaleSize(b)
  BY DEF HeapInv, Typed, Device, Owned, SlotsOwn
<1>2. /\ Commands \in Seq(Seq(Byte)) /\ Len(Commands) = n /\ n \in 0 .. MaxWriteOps
      /\ \A i \in 1 .. n : Len(Commands[i]) = LogOf(b)[i].size
  BY CommandBytes
<1>3. /\ cum \in [0 .. MaxWriteOps -> Nat] /\ cum[0] = 0
      /\ \A k \in 1 .. n : cum[k] = cum[k - 1] + LogOf(b)[k].size
      /\ TotalSize(b) = cum[n]
  BY <1>1, LogEnds
<1> HIDE DEF b, n, cum
<1>4. n \in Nat /\ n <= MaxWriteOps /\ MaxWriteOps \in Nat
  BY <1>2, CapacityAssumption
<1>5. Ends(Commands, ends)
  <2>1. \A k \in 0 .. n : k \in 0 .. MaxWriteOps
    BY <1>4
  <2>2. ends \in [0 .. n -> Nat] /\ ends[0] = 0
    BY <1>3, <1>4, <2>1
  <2>3. ASSUME NEW k \in 1 .. n PROVE ends[k] = ends[k - 1] + Len(Commands[k])
    <3>1. k \in 0 .. n /\ k - 1 \in 0 .. n
      BY <1>4
    <3> QED
      BY <1>2, <1>3, <3>1
  <2> QED
    BY <1>2, <2>2, <2>3 DEF Ends
<1> HIDE DEF ends
<1>6. Len(FlattenSeq(Commands)) = ends[n] /\ FlattenSeq(Commands) \in Seq(Byte)
  BY <1>2, <1>5, FlattenOffsets
<1>7. ends[n] = cum[n]
  BY <1>4 DEF ends
<1> QED
  BY <1>3, <1>5, <1>6, <1>7 DEF b, n, cum, ends

----------------------------------------------------------------------------
(* Seeks.                                                                  *)

\* Only an ioctl that is not refused leaves the adjustment with a zero.
LEMMA SeeksAdjust ==
  ASSUME HeapInv, [Next]_vars, NEW t \in Thread, SeeksTo(t)
  PROVE  AdjustOffset(t) /\ loaded
<1>1. pc[t] = "adjust" /\ pc'[t] = "unlock" /\ frame'[t].retval = 0
  BY DEF SeeksTo
<1>2. DOMAIN pc = Thread /\ frame \in [Thread -> Frame]
  BY DEF HeapInv, HolderInv, Typed
<1>3. loaded
  BY <1>1, InsideIsLoaded DEF HeapInv
<1>4. CASE UNCHANGED vars
  BY <1>1, <1>4 DEF vars
<1>5. CASE Load \/ Unload \/ \E f \in File : Open(f) \/ Release(f)
  BY <1>1, <1>5 DEF Load, Unload, Open, Release
<1>6. ASSUME NEW u \in Thread,
             \/ \E r \in Request : Call(u, r)
             \/ Lock(u) \/ Interrupted(u) \/ Unlock(u) \/ FixedSizeLlseek(u) \/ Return(u)
      PROVE  FALSE
  <2>1. pc[u] # "adjust" /\ \E place : pc' = [pc EXCEPT ![u] = place]
    BY <1>6 DEF Call, Lock, Interrupted, Unlock, FixedSizeLlseek, Return, At, Goto
  <2> QED
    BY <1>1, <2>1
<1>7. ASSUME NEW u \in Thread, Body(u) PROVE AdjustOffset(t)
  <2>1. \E place : pc' = [pc EXCEPT ![u] = place]
    BY <1>7, BodyStaysInside
  <2>2. u = t
    BY <1>1, <2>1
  <2>3. AdjustOffset(t) \/ AdjustRefused(t)
    BY <1>1, <1>7, <2>2
    DEF Body, CopyOut, CopyOutFails, WriteNothing, Alloc, AllocFails, CopyIn, AddCommand,
        CachePartial, EntriesSize, At
  <2>4. ~AdjustRefused(t)
    BY <1>1, <1>2 DEF AdjustRefused, ExitWith, EINVAL, Frame
  <2> QED
    BY <2>3, <2>4
<1> QED
  BY <1>3, <1>4, <1>5, <1>6, <1>7 DEF Next, Proceed

\* What an ioctl that is not refused has been given, and what it computes.
LEMMA AdjustValue ==
  ASSUME HeapInv, loaded, NEW t \in Thread, AdjustOffset(t)
  PROVE  LET b == dev.circular_buffer
             k == req[t].seekto.write_cmd
             sum == RunningSum(SlotSizes(b))
         IN  /\ k \in Index /\ k + 1 \in 0 .. MaxWriteOps /\ b.entry[k].size # 0
             /\ f_pos'[req[t].file] = sum[k] + req[t].seekto.write_cmd_offset
             /\ sum \in [0 .. MaxWriteOps -> Nat]
             /\ f_pos'[req[t].file] \in Nat /\ f_pos'[req[t].file] < sum[k + 1]
<1> DEFINE b == dev.circular_buffer
           seekto == req[t].seekto
           k == seekto.write_cmd
           off == seekto.write_cmd_offset
           sum == RunningSum(SlotSizes(b))
<1>1. At(t, "ioctl", "adjust") /\ SeekToValid(seekto)
      /\ f_pos' = [f_pos EXCEPT ![req[t].file] = SeekToOffset(seekto)]
  BY DEF AdjustOffset
<1>2. req[t] \in Request /\ req[t].file \in File /\ f_pos \in [File -> Nat]
  BY <1>1, InsideIsLoaded DEF At, HeapInv, Typed
<1>3. seekto \in [write_cmd : Nat, write_cmd_offset : Nat]
  BY <1>1, <1>2, CallAssumption DEF At, Request
<1>4. b \in Buffer
  BY DEF HeapInv, Typed, Device
<1>5. SlotSizes(b) \in [Index -> Nat] /\ \A i \in Index : SlotSizes(b)[i] = b.entry[i].size
  BY <1>4 DEF Buffer, Entry, SlotSizes
<1>6. k < MaxWriteOps /\ b.entry[k].size # 0 /\ off < b.entry[k].size
      /\ SeekToOffset(seekto) = sum[k] + off
  BY <1>1 DEF SeekToValid, SeekToOffset
<1>7. k \in Nat /\ off \in Nat
  BY <1>3
<1> HIDE DEF b, k, off, seekto
<1>8. sum \in [0 .. MaxWriteOps -> Nat]
      /\ \A i \in 1 .. MaxWriteOps : sum[i] = sum[i - 1] + SlotSizes(b)[i - 1]
  BY <1>5, RunningSumSteps
<1> HIDE DEF sum
<1>9. k \in Index /\ k \in 0 .. MaxWriteOps /\ k + 1 \in 1 .. MaxWriteOps
      /\ k + 1 \in 0 .. MaxWriteOps /\ (k + 1) - 1 = k
  BY <1>6, <1>7, CapacityAssumption DEF Index
<1>10. sum[k + 1] = sum[k] + b.entry[k].size
  BY <1>5, <1>8, <1>9
<1>11. sum[k] \in Nat /\ b.entry[k].size \in Nat
  BY <1>5, <1>8, <1>9
<1>12. f_pos'[req[t].file] = sum[k] + off
  BY <1>1, <1>2, <1>6
<1>13. f_pos'[req[t].file] \in Nat /\ f_pos'[req[t].file] < sum[k + 1]
  BY <1>6, <1>7, <1>10, <1>11, <1>12
<1> QED
  BY <1>6, <1>8, <1>9, <1>12, <1>13 DEF b, k, off, seekto, sum

\* It ends up on a byte of the stream.
LEMMA AdjustsInside ==
  ASSUME HeapInv, loaded, NEW t \in Thread, AdjustOffset(t)
  PROVE  f_pos'[req[t].file] < Len(FlattenSeq(Commands))
<1> DEFINE b == dev.circular_buffer
           k == req[t].seekto.write_cmd
           sum == RunningSum(SlotSizes(b))
           pos == f_pos'[req[t].file]
<1>1. /\ k + 1 \in 0 .. MaxWriteOps /\ sum \in [0 .. MaxWriteOps -> Nat]
      /\ pos \in Nat /\ pos < sum[k + 1]
  BY AdjustValue
<1>2. Len(FlattenSeq(Commands)) = sum[MaxWriteOps]
  BY CommandEnds DEF TotalSize
<1>3. SlotSizes(b) \in [Index -> Nat]
  BY DEF HeapInv, Typed, Device, Buffer, Entry, SlotSizes
<1>4. MaxWriteOps \in 0 .. MaxWriteOps /\ k + 1 <= MaxWriteOps
  BY <1>1, CapacityAssumption
<1> HIDE DEF k, b, pos
<1>5. sum[k + 1] <= sum[MaxWriteOps]
  BY <1>1, <1>3, <1>4, RunningSumGrows
<1> HIDE DEF sum
<1>6. pos < sum[MaxWriteOps]
  <2>1. sum[k + 1] \in Nat /\ sum[MaxWriteOps] \in Nat
    BY <1>1, <1>4
  <2> QED
    BY <1>1, <1>5, <2>1
<1> QED
  BY <1>2, <1>6 DEF pos

\* With the oldest command in the first slot the driver, which indexes slots,
\* and a reader, who counts commands, agree on the command.
LEMMA AdjustFinds ==
  ASSUME HeapInv, loaded, NEW t \in Thread, AdjustOffset(t),
         dev.circular_buffer.out_offs = 0
  PROVE  FindsCommand(t)
<1> DEFINE b == dev.circular_buffer
           k == req[t].seekto.write_cmd
           sum == RunningSum(SlotSizes(b))
           n == Filled(b)
           ends == [i \in 0 .. n |-> CumulativeLength(b)[i]]
<1>1. /\ k \in Index /\ b.entry[k].size # 0
      /\ f_pos'[req[t].file] = sum[k] + req[t].seekto.write_cmd_offset
  BY AdjustValue
<1>2. b \in Buffer /\ Agree(b) /\ NoStaleSize(b) /\ b.out_offs = 0
  BY DEF HeapInv, Typed, Device, Owned, SlotsOwn
<1>3. /\ Commands \in Seq(Seq(Byte)) /\ Len(Commands) = n /\ n \in 0 .. MaxWriteOps
      /\ Ends(Commands, ends)
  BY CommandBytes, CommandEnds
<1>4. n = IF b.full THEN MaxWriteOps ELSE b.in_offs
  BY <1>2, LogOfBuffer
<1> HIDE DEF b, k, n, sum
<1>5. b.entry[k].buffptr # NULL
  BY <1>1, <1>2 DEF NoStaleSize
<1>6. k < n
  <2>1. b.full \/ k < b.in_offs
    BY <1>1, <1>2, <1>5 DEF Agree
  <2>2. k < MaxWriteOps
    BY <1>1, CapacityAssumption DEF Index
  <2> QED
    BY <1>2, <1>4, <2>1, <2>2 DEF Buffer
<1>7. sum = CumulativeLength(b)
  <2>1. ASSUME NEW i \in Index PROVE VisitedSizes(b)[i] = SlotSizes(b)[i]
    <3>1. 0 + i < MaxWriteOps /\ 0 + i = i
      BY CapacityAssumption DEF Index
    <3>2. Visited(b, i) = i
      BY <1>2, <3>1, VisitedValue
    <3> QED
      BY <1>2, <3>2 DEF VisitedSizes, SlotSizes, NoStaleSize
  <2>2. VisitedSizes(b) = SlotSizes(b)
    BY <2>1 DEF VisitedSizes, SlotSizes
  <2> QED
    BY <2>2 DEF sum, CumulativeLength
<1>8. k \in 0 .. n /\ k \in 0 .. Len(Commands)
  BY <1>1, <1>3, <1>6, CapacityAssumption DEF Index
<1>9. ends[k] = sum[k]
  BY <1>7, <1>8
<1> HIDE DEF ends
<1>10. Len(FlattenSeq(SubSeq(Commands, 1, k))) = ends[k]
  BY <1>3, <1>8, PrefixEnds
<1> QED
  BY <1>1, <1>3, <1>6, <1>9, <1>10 DEF FindsCommand, k

\* An ioctl that succeeds leaves the position on a byte of the stream
\* (main.c:196-231).
THEOREM SeekEndsInside ==
  ASSUME Interruptible \subseteq {"llseek"}
  PROVE  Spec => SeekStaysInside
<1>1. HeapInv /\ [Next]_vars
      => [\A t \in Thread : SeeksTo(t) =>
            f_pos'[req[t].file] < Len(FlattenSeq(Commands))]_vars
  BY SeeksAdjust, AdjustsInside
<1> QED
  BY <1>1, AlwaysOwned, PTL DEF Spec, SeekStaysInside

\* With the oldest command in the first slot a seek goes where a reader would
\* (main.c:203-213).
THEOREM SeekReachesCommand ==
  ASSUME Interruptible \subseteq {"llseek"}
  PROVE  Spec => SeekFindsCommand
<1>1. HeapInv /\ [Next]_vars
      => [\A t \in Thread :
            SeeksTo(t) /\ dev.circular_buffer.out_offs = 0 => FindsCommand(t)]_vars
  BY SeeksAdjust, AdjustFinds
<1> QED
  BY <1>1, AlwaysOwned, PTL DEF Spec, SeekFindsCommand

----------------------------------------------------------------------------
(* The stream.                                                             *)

\* What the partial command is made of: the bytes the cached entry counts and,
\* in a write about to store, those it has taken from its caller.
Backed ==
  LET c == dev.cached_entry
  IN  /\ c.buffptr = NULL => c.size = 0
      /\ Writing = {} /\ c.buffptr # NULL => Len(heap[c.buffptr]) = c.size
      /\ \A t \in Writing :
           LET bytes == heap[frame[t].temp_buf]
               taken == frame[t].retval
           IN  IF pc[t] = "copy_in" THEN Len(bytes) = c.size
               ELSE /\ taken \in 0 .. Len(req[t].buf)
                    /\ Len(bytes) = c.size + taken
                    /\ bytes = SubSeq(bytes, 1, c.size) \o SubSeq(req[t].buf, 1, taken)

\* A step of the driver is a step of the stream or none only because the bytes
\* that wait hold no newline: a write of no bytes stores nothing.
StreamInv == HeapInv /\ (loaded => Backed) /\ ~Contains(Partial, NL)

\* The partial command as a write finds it.
LEMMA PartialInWrite ==
  ASSUME StreamInv, NEW t \in Thread, pc[t] \in {"copy_in", "store"}
  PROVE  LET bytes == heap[frame[t].temp_buf]
             size  == dev.cached_entry.size
         IN  /\ Partial = SubSeq(bytes, 1, size) /\ bytes \in Seq(Byte)
             /\ size \in Nat /\ size <= Len(bytes)
             /\ pc[t] = "copy_in" => Partial = bytes /\ Len(bytes) = size
<1> DEFINE temp == frame[t].temp_buf
           bytes == heap[temp]
           c == dev.cached_entry
<1>1. Writing = {t} /\ PartialMemory = {temp} /\ loaded /\ bytes \in Seq(Byte)
  BY WriterHolds DEF StreamInv
<1>2. c \in Entry /\ c.size \in Nat
  BY DEF StreamInv, HeapInv, Typed, Device, Entry
<1>3. /\ c.buffptr = NULL => c.size = 0
      /\ pc[t] = "copy_in" => Len(bytes) = c.size
      /\ pc[t] = "store" => \E n \in 0 .. Len(req[t].buf) : Len(bytes) = c.size + n
  BY <1>1 DEF StreamInv, Backed
<1>4. Partial = IF c.buffptr = NULL THEN <<>> ELSE SubSeq(bytes, 1, c.size)
  <2>1. (CHOOSE p \in PartialMemory : TRUE) = temp
    BY <1>1
  <2> QED
    BY <1>1, <2>1 DEF Partial
<1> HIDE DEF temp, c
<1>5. c.size <= Len(bytes)
  <2>1. Len(bytes) \in Nat
    BY <1>1
  <2>2. CASE pc[t] = "copy_in"
    BY <1>2, <1>3, <2>1, <2>2
  <2>3. CASE pc[t] = "store"
    <3>1. PICK n \in 0 .. Len(req[t].buf) : Len(bytes) = c.size + n
      BY <1>3, <2>3
    <3> QED
      BY <1>2, <2>1, <3>1
  <2> QED
    BY <2>2, <2>3
<1>6. Partial = SubSeq(bytes, 1, c.size)
  <2>1. SubSeq(bytes, 1, 0) = <<>>
    BY <1>1, SubSeqEmpty
  <2> QED
    BY <1>3, <1>4, <2>1
<1>7. pc[t] = "copy_in" => Partial = bytes
  <2>1. SubSeq(bytes, 1, Len(bytes)) = bytes
    BY <1>1, SubSeqFull
  <2> QED
    BY <1>3, <1>6, <2>1
<1> QED
  BY <1>1, <1>2, <1>3, <1>5, <1>6, <1>7 DEF temp, c

\* What a thread has got for its caller depends on that thread only.
LEMMA RepliesApart ==
  ASSUME HeapInv, NEW t \in Thread, NEW place, pc' = [pc EXCEPT ![t] = place],
         \A u \in Thread : u # t => frame'[u] = frame[u] /\ req'[u] = req[u]
  PROVE  Reply' = [Reply EXCEPT ![t] = Reply'[t]]
<1>1. \A u \in Thread : u # t => pc'[u] = pc[u]
  BY DEF HeapInv, HolderInv
<1>2. \A u \in Thread : u # t => Reply'[u] = Reply[u]
  BY <1>1 DEF Reply
<1>3. DOMAIN Reply = Thread /\ Reply' = [u \in Thread |-> Reply'[u]]
      /\ Reply = [u \in Thread |-> Reply[u]]
  BY DEF Reply
<1> QED
  BY <1>2, <1>3

\* A quiet step leaves the commands and the partial command as they are.
LEMMA QuietStreams ==
  ASSUME StreamInv, NEW t \in Thread, Quiet(t)
  PROVE  /\ Commands' = Commands /\ Partial' = Partial /\ (loaded' => Backed')
         /\ Reply' = [Reply EXCEPT ![t] = Reply'[t]]
<1>1. /\ UNCHANGED <<loaded, dev, heap>> /\ Writing' = Writing /\ t \notin Writing
      /\ \A u \in Thread : u # t => frame'[u] = frame[u] /\ req'[u] = req[u]
  BY QuietMoves DEF StreamInv
<1>2. PICK place : pc' = [pc EXCEPT ![t] = place]
  BY QuietMoves DEF StreamInv
<1>3. \A u \in Writing : u # t /\ u \in Thread
  BY <1>1 DEF Writing
<1>4. PartialMemory' = PartialMemory
  BY <1>1, <1>3 DEF PartialMemory
<1>5. \A u \in Writing : frame'[u] = frame[u] /\ req'[u] = req[u] /\ pc'[u] = pc[u]
  <2>1. \A u \in Thread : u # t => pc'[u] = pc[u]
    BY <1>2 DEF StreamInv, HeapInv, HolderInv
  <2> QED
    BY <1>1, <1>3, <2>1
<1>6. loaded' => Backed'
  <2>1. loaded => Backed
    BY DEF StreamInv
  <2>2. UNCHANGED <<loaded, dev, heap, Writing>>
    BY <1>1
  <2>3. Backed => Backed'
    BY <1>5, <2>2 DEF Backed
  <2> QED
    BY <2>1, <2>2, <2>3
<1>7. Commands' = Commands
  BY <1>1 DEF Commands, Text
<1>8. Partial' = Partial
  BY <1>1, <1>4 DEF Partial
<1>9. Reply' = [Reply EXCEPT ![t] = Reply'[t]]
  BY <1>1, <1>2, RepliesApart DEF StreamInv
<1> QED
  BY <1>6, <1>7, <1>8, <1>9

\* The stream uses the same operators on sequences and sets.
LEMMA StreamOperators ==
  /\ \A seqs : Stream!FlattenSeq(seqs) = FlattenSeq(seqs)
  /\ \A S : Stream!Min(S) = Min(S)
  /\ \A seq, x : Stream!Contains(seq, x) <=> Contains(seq, x)
<1>1. \A seqs : Stream!FlattenSeq(seqs) = FlattenSeq(seqs)
  BY DEF Stream!FlattenSeq, FlattenSeq
<1>2. \A S : Stream!Min(S) = Min(S)
  BY DEF Stream!Min, Min
<1>3. \A seq, x : Stream!Contains(seq, x) <=> Contains(seq, x)
  BY DEF Stream!Contains, Contains
<1> QED
  BY <1>1, <1>2, <1>3

\* The ends at which a read of the stream stops are those the search steps over.
LEMMA StreamEnds ==
  ASSUME HeapInv, loaded
  PROVE  /\ Len(Commands) = Filled(dev.circular_buffer)
         /\ {Len(FlattenSeq(SubSeq(Commands, 1, i))) : i \in 1 .. Len(Commands)}
              = {CumulativeLength(dev.circular_buffer)[i] : i \in 1 .. Len(Commands)}
<1> DEFINE n == Filled(dev.circular_buffer)
           cum == CumulativeLength(dev.circular_buffer)
           ends == [k \in 0 .. n |-> cum[k]]
<1>1. Commands \in Seq(Seq(Byte)) /\ Len(Commands) = n /\ Ends(Commands, ends)
  BY CommandBytes, CommandEnds
<1> HIDE DEF cum, n
<1>2. ASSUME NEW i \in 1 .. n PROVE Len(FlattenSeq(SubSeq(Commands, 1, i))) = cum[i]
  <2>1. n \in Nat
    BY <1>1
  <2>2. i \in 0 .. n
    BY <2>1
  <2>3. ends[i] = cum[i]
    BY <2>2
  <2> HIDE DEF ends
  <2> QED
    BY <1>1, <2>2, <2>3, PrefixEnds
<1> QED
  BY <1>1, <1>2 DEF cum, n

\* What a read of the stream gives when the byte is in the k-th command, and
\* when there is none.
LEMMA StreamExcerpt ==
  ASSUME HeapInv, loaded, NEW pos \in Nat, NEW count \in Nat
  PROVE  LET cum == CumulativeLength(dev.circular_buffer)
             n   == Filled(dev.circular_buffer)
         IN  /\ pos >= cum[n] => Stream!Excerpt(pos, count) = <<>>
             /\ \A k \in 1 .. n : cum[k - 1] <= pos /\ pos < cum[k] =>
                  Stream!Excerpt(pos, count) =
                    SubSeq(FlattenSeq(Commands), pos + 1, Min({pos + count, cum[k]}))
<1> DEFINE b == dev.circular_buffer
           n == Filled(b)
           cum == CumulativeLength(b)
           stops == {cum[i] : i \in 1 .. n}
           later == {e \in stops : e > pos}
<1>1. b \in Buffer /\ Agree(b)
  BY DEF HeapInv, Typed, Device, Owned, SlotsOwn
<1>2. n \in 0 .. MaxWriteOps /\ Commands \in Seq(Seq(Byte)) /\ Len(Commands) = n
  BY CommandBytes
<1>3. /\ cum \in [0 .. MaxWriteOps -> Nat]
      /\ \A k \in 0 .. MaxWriteOps : cum[k] <= cum[n]
  BY <1>1, LogEnds
<1>4. Stream!Excerpt(pos, count) =
        IF later = {} THEN <<>>
        ELSE SubSeq(FlattenSeq(Commands), pos + 1, Min({pos + count, Min(later)}))
  <2>1. Len(Commands) = n
        /\ {Len(FlattenSeq(SubSeq(Commands, 1, i))) : i \in 1 .. n} = stops
    BY StreamEnds
  <2> HIDE DEF stops, n
  <2>2. {Len(Stream!FlattenSeq(SubSeq(Commands, 1, i))) : i \in 1 .. n} = stops
    BY <2>1, StreamOperators
  <2> QED
    BY <2>1, <2>2, StreamOperators DEF Stream!Excerpt
<1> HIDE DEF b, cum
<1>5. n \in Nat /\ \A i \in 0 .. n : i \in 0 .. MaxWriteOps /\ cum[i] \in Nat
  BY <1>2, <1>3, CapacityAssumption
<1> HIDE DEF n
<1>6. ASSUME pos >= cum[n] PROVE later = {}
  <2>1. \A i \in 1 .. n : ~(cum[i] > pos)
    <3> TAKE i \in 1 .. n
    <3>1. i \in 0 .. n /\ n \in 0 .. n
      BY <1>5
    <3>2. cum[i] <= cum[n] /\ cum[i] \in Nat /\ cum[n] \in Nat
      BY <1>3, <1>5, <3>1
    <3> QED
      BY <1>6, <3>2
  <2> QED
    BY <2>1
<1>7. ASSUME NEW k \in 1 .. n, cum[k - 1] <= pos, pos < cum[k]
      PROVE  later # {} /\ Min(later) = cum[k]
  <2>1. k \in 0 .. n /\ k - 1 \in 0 .. n
    BY <1>5
  <2>2. cum[k] \in later
    BY <1>5, <1>7, <2>1
  <2>3. ASSUME NEW i \in 1 .. n, cum[i] > pos PROVE cum[k] <= cum[i]
    <3>1. i \in 0 .. n /\ k \in 0 .. n /\ k - 1 \in 0 .. n
      BY <1>5
    <3>2. \A u, v \in 0 .. n : u <= v => cum[u] <= cum[v]
      <4>1. VisitedSizes(b) \in [Index -> Nat]
        <5>1. \A j \in Index : Visited(b, j) \in Index
          BY <1>1, VisitedValue
        <5> QED
          BY <1>1, <5>1 DEF VisitedSizes, Buffer, Entry
      <4> QED
        BY <1>5, <4>1, RunningSumGrows DEF cum, CumulativeLength
    <3>3. cum[i] \in Nat /\ cum[k - 1] \in Nat /\ cum[k] \in Nat
      BY <1>5, <3>1
    <3>4. ~(i <= k - 1)
      BY <1>7, <2>3, <3>1, <3>2, <3>3
    <3>5. k <= i
      BY <1>5, <3>4
    <3> QED
      BY <3>1, <3>2, <3>5
  <2>4. \A e \in later : cum[k] <= e /\ e \in Nat
    <3>1. \A i \in 1 .. n : cum[i] \in Nat
      BY <1>5
    <3> QED
      BY <2>3, <3>1
  <2> HIDE DEF later
  <2>5. Min(later) = CHOOSE x \in later : \A y \in later : x <= y
    BY DEF Min
  <2>6. \A x \in later : (\A y \in later : x <= y) => x = cum[k]
    BY <2>2, <2>4
  <2> QED
    BY <2>2, <2>4, <2>5, <2>6
<1> HIDE DEF later
<1> QED
  BY <1>4, <1>6, <1>7 DEF b, cum, n

\* A piece of a long sequence that is a piece of another one, shifted.
LEMMA ShiftedPiece ==
  ASSUME NEW E, NEW long \in Seq(E), NEW short \in Seq(E), NEW from \in Nat,
         from + Len(short) <= Len(long),
         \A j \in 1 .. Len(short) : long[from + j] = short[j],
         NEW at \in Nat, NEW last \in Nat, last <= Len(short)
  PROVE  SubSeq(long, from + at + 1, from + last) = SubSeq(short, at + 1, last)
<1>1. Len(long) \in Nat /\ Len(short) \in Nat
  OBVIOUS
<1> DEFINE l == SubSeq(long, from + at + 1, from + last)
           r == SubSeq(short, at + 1, last)
           m == IF at + 1 <= last THEN last - at ELSE 0
<1>2. l \in Seq(E) /\ Len(l) = m
      /\ \A i \in 1 .. m : l[i] = long[(from + at + 1) + i - 1]
  BY <1>1, SubSeqProperties
<1>3. r \in Seq(E) /\ Len(r) = m /\ \A i \in 1 .. m : r[i] = short[(at + 1) + i - 1]
  BY <1>1, SubSeqProperties
<1>4. \A i \in 1 .. m : l[i] = r[i]
  <2> TAKE i \in 1 .. m
  <2>1. /\ at + i \in 1 .. Len(short) /\ (at + 1) + i - 1 = at + i
        /\ (from + at + 1) + i - 1 = from + (at + i)
    BY <1>1
  <2>2. l[i] = long[from + (at + i)] /\ r[i] = short[at + i]
    BY <1>2, <1>3, <2>1
  <2> QED
    BY <2>1, <2>2
<1> HIDE DEF l, r, m
<1>5. l = r
  BY <1>2, <1>3, <1>4, SeqEqual
<1> QED
  BY <1>5 DEF l, r

\* What a read of the driver copies out is what a read of the stream gives at
\* the same position: the bytes there, and none at the end or past it.
LEMMA ExcerptIs ==
  ASSUME HeapInv, loaded, NEW pos \in Nat, NEW count \in Nat
  PROVE  IF pos >= Len(FlattenSeq(Commands)) THEN Excerpt(pos, count) = <<>>
         ELSE /\ Excerpt(pos, count) = Stream!Excerpt(pos, count)
              /\ \E end \in pos .. Len(FlattenSeq(Commands)) :
                   /\ Excerpt(pos, count) = SubSeq(FlattenSeq(Commands), pos + 1, end)
                   /\ count > 0 => end > pos
<1> DEFINE b == dev.circular_buffer
           n == Filled(b)
           cum == CumulativeLength(b)
           ends == [k \in 0 .. n |-> cum[k]]
           found == FindEntry(b, pos)
           bytes == FlattenSeq(Commands)
<1>1. b \in Buffer /\ Agree(b)
  BY DEF HeapInv, Typed, Device, Owned, SlotsOwn
<1>2. /\ n \in 0 .. MaxWriteOps /\ Commands \in Seq(Seq(Byte)) /\ Len(Commands) = n
      /\ \A i \in 1 .. n : /\ Commands[i] = heap[LogOf(b)[i].buffptr]
                           /\ Len(Commands[i]) = LogOf(b)[i].size
  BY CommandBytes
<1>3. Ends(Commands, ends) /\ Len(bytes) = cum[n] /\ bytes \in Seq(Byte)
  BY CommandEnds
<1>4. Excerpt(pos, count) =
        IF found = NULL THEN <<>>
        ELSE SubSeq(heap[b.entry[found.index].buffptr], found.offset + 1,
                    Min({found.offset + count, b.entry[found.index].size}))
  BY DEF Excerpt
<1>5. /\ \A p \in Nat : p >= cum[n] => Stream!Excerpt(p, count) = <<>>
      /\ \A p \in Nat : \A k \in 1 .. n : cum[k - 1] <= p /\ p < cum[k] =>
           Stream!Excerpt(p, count) = SubSeq(bytes, p + 1, Min({p + count, cum[k]}))
  BY StreamExcerpt
<1>6. IF pos >= cum[n] THEN found = NULL
      ELSE \E k \in 1 .. n :
             /\ cum[k - 1] <= pos /\ pos < cum[k]
             /\ found = [index |-> Visited(b, k - 1), offset |-> pos - cum[k - 1]]
             /\ found \in Found
  BY <1>1, FindEntryResult
<1>7. \A k \in 1 .. n : LogOf(b)[k] = b.entry[Visited(b, k - 1)]
  BY <1>1, LogOfBuffer
<1>8. Len(bytes) \in Nat
  BY <1>3
<1> HIDE DEF b, n, cum, found, bytes
<1>9. CASE pos >= cum[n]
  <2>1. Excerpt(pos, count) = <<>>
    BY <1>4, <1>6, <1>9
  <2> QED
    BY <1>3, <1>9, <2>1 DEF bytes
<1>10. CASE ~(pos >= cum[n])
  <2>1. PICK k \in 1 .. n :
          /\ cum[k - 1] <= pos /\ pos < cum[k]
          /\ found = [index |-> Visited(b, k - 1), offset |-> pos - cum[k - 1]]
          /\ found \in Found
    BY <1>6, <1>10
  <2> DEFINE from == cum[k - 1]
             at == pos - cum[k - 1]
             short == Commands[k]
             last == Min({at + count, Len(short)})
  <2>2. /\ found # NULL /\ found.index = Visited(b, k - 1) /\ found.offset = at
    BY <2>1, NullAssumption
  <2>3. b.entry[found.index].size = Len(short) /\ heap[b.entry[found.index].buffptr] = short
    <3> HIDE DEF from, at, last
    <3>1. b.entry[found.index] = LogOf(b)[k]
      BY <1>7, <2>2
    <3>2. Commands[k] = heap[LogOf(b)[k].buffptr] /\ Len(Commands[k]) = LogOf(b)[k].size
      BY <1>2
    <3> QED
      BY <3>1, <3>2
  <2>4. Excerpt(pos, count) = SubSeq(short, at + 1, last)
    BY <1>4, <2>2, <2>3
  <2>5. /\ n \in Nat /\ k \in 0 .. n /\ k - 1 \in 0 .. n /\ k \in 1 .. n
        /\ ends[k] = cum[k] /\ ends[k - 1] = cum[k - 1]
    <3>1. n \in Nat
      BY <1>2, CapacityAssumption
    <3>2. k \in 0 .. n /\ k - 1 \in 0 .. n
      BY <3>1
    <3>3. \A i \in 0 .. n : ends[i] = cum[i]
      OBVIOUS
    <3> HIDE DEF ends
    <3> QED
      BY <3>1, <3>2, <3>3
  <2> HIDE DEF ends
  <2>6. short \in Seq(Byte) /\ Len(short) \in Nat
    BY <1>2, <2>5
  <2>7. /\ cum[k] = from + Len(short) /\ from \in Nat /\ cum[k] \in Nat
    <3>1. /\ ends \in [0 .. n -> Nat]
          /\ \A i \in 1 .. n : ends[i] = ends[i - 1] + Len(Commands[i])
      <4>1. Ends(Commands, ends) /\ Len(Commands) = n
        BY <1>2, <1>3
      <4> QED
        BY <4>1 DEF Ends
    <3>2. ends[k] = ends[k - 1] + Len(Commands[k]) /\ ends[k - 1] \in Nat /\ ends[k] \in Nat
      BY <2>5, <3>1
    <3> QED
      BY <2>5, <3>2
  <2>8. /\ from + Len(short) <= Len(bytes)
        /\ \A j \in 1 .. Len(short) : bytes[from + j] = short[j]
    <3>1. /\ Len(bytes) = ends[Len(Commands)]
          /\ \A j \in 1 .. Len(short) : bytes[ends[k - 1] + j] = short[j]
      <4>1. /\ Len(FlattenSeq(Commands)) = ends[Len(Commands)]
            /\ \A i \in 1 .. Len(Commands) : \A j \in 1 .. Len(Commands[i]) :
                 FlattenSeq(Commands)[ends[i - 1] + j] = Commands[i][j]
        <5>1. Commands \in Seq(Seq(Byte)) /\ Ends(Commands, ends)
          BY <1>2, <1>3
        <5> HIDE DEF short, from, at, last
        <5> QED
          BY <5>1, FlattenOffsets
      <4> QED
        BY <1>2, <2>5, <4>1 DEF bytes
    <3>2. ends[k] <= ends[n]
      <4>1. n \in 0 .. Len(Commands) /\ k \in 0 .. n
        BY <1>2, <2>5
      <4> QED
        BY <1>2, <1>3, <4>1, EndsGrow
    <3> QED
      BY <1>2, <2>5, <2>7, <3>1, <3>2
  <2>9. at \in Nat /\ at < Len(short) /\ pos = from + at
    BY <2>1, <2>7, <2>6
  <2>10. last \in Nat /\ last <= Len(short) /\ Min({pos + count, cum[k]}) = from + last
    <3> HIDE DEF at, short, from
    <3>1. at + count \in Nat /\ pos + count \in Nat
      BY <2>9
    <3>2. last = IF at + count <= Len(short) THEN at + count ELSE Len(short)
      BY <2>6, <3>1, MinOfTwo
    <3>3. Min({pos + count, cum[k]}) = IF pos + count <= cum[k] THEN pos + count ELSE cum[k]
      BY <2>7, <3>1, MinOfTwo
    <3> HIDE DEF last
    <3> QED
      BY <2>6, <2>7, <2>9, <3>1, <3>2, <3>3
  <2>14. count > 0 => last > at
    <3> HIDE DEF at, short, from
    <3>1. at + count \in Nat
      BY <2>9
    <3>2. last = IF at + count <= Len(short) THEN at + count ELSE Len(short)
      BY <2>6, <3>1, MinOfTwo
    <3> HIDE DEF last
    <3> QED
      BY <2>6, <2>9, <3>2
  <2>11. Stream!Excerpt(pos, count) = SubSeq(bytes, from + at + 1, from + last)
    <3>1. Stream!Excerpt(pos, count) = SubSeq(bytes, pos + 1, Min({pos + count, cum[k]}))
      BY <1>5, <2>1
    <3> HIDE DEF last, at, from
    <3> QED
      BY <2>9, <2>10, <3>1
  <2> HIDE DEF last, at, short, from
  <2>12. Stream!Excerpt(pos, count) = SubSeq(short, at + 1, last)
    BY <1>3, <2>6, <2>7, <2>8, <2>9, <2>10, <2>11, ShiftedPiece
  <2> DEFINE end == from + last
  <2>13. /\ end \in pos .. Len(bytes) /\ (count > 0 => end > pos)
    BY <1>8, <2>6, <2>7, <2>8, <2>9, <2>10, <2>14, MinOfTwo
  <2>15. Excerpt(pos, count) = SubSeq(bytes, pos + 1, end)
    BY <2>4, <2>9, <2>11, <2>12
  <2> QED
    BY <1>3, <1>10, <2>4, <2>12, <2>13, <2>15 DEF bytes
<1> QED
  BY <1>9, <1>10

\* And it is one of the reads of the stream.
LEMMA ExcerptsAgree ==
  ASSUME HeapInv, loaded, NEW pos \in Nat, NEW count \in Nat
  PROVE  \E p \in 0 .. Len(FlattenSeq(Commands)) :
           Excerpt(pos, count) = Stream!Excerpt(p, count)
<1> DEFINE bytes == FlattenSeq(Commands)
<1>1. /\ Len(bytes) \in Nat
      /\ Len(bytes) = CumulativeLength(dev.circular_buffer)[Filled(dev.circular_buffer)]
  BY CommandEnds
<1>2. CASE pos >= Len(bytes)
  <2>1. Stream!Excerpt(Len(bytes), count) = <<>>
    BY <1>1, StreamExcerpt
  <2>2. Len(bytes) \in 0 .. Len(bytes)
    BY <1>1
  <2> QED
    BY <1>2, <2>1, <2>2, ExcerptIs
<1>3. CASE ~(pos >= Len(bytes))
  <2>1. pos \in 0 .. Len(bytes)
    BY <1>1, <1>3
  <2> QED
    BY <1>3, <2>1, ExcerptIs
<1> QED
  BY <1>2, <1>3

\* Nothing is added at the end.
LEMMA NothingAdded ==
  ASSUME NEW E, NEW seq \in Seq(E)
  PROVE  seq \o <<>> = seq
BY ConcatEmptySeq

\* The partial command is bytes.
LEMMA PartialTyped ==
  ASSUME StreamInv
  PROVE  Partial \in Seq(Byte)
<1> DEFINE c == dev.cached_entry
<1>1. CASE ~loaded \/ c.buffptr = NULL
  <2>1. Partial = <<>>
    BY <1>1 DEF Partial
  <2> QED
    BY <2>1
<1>2. CASE loaded /\ c.buffptr # NULL
  <2>1. CASE Writing = {}
    <3>1. PartialMemory = {c.buffptr} /\ c.buffptr \in DOMAIN heap
      BY <1>2, <2>1 DEF PartialMemory, StreamInv, HeapInv, Owned
    <3>2. heap[c.buffptr] \in Seq(Byte) /\ Len(heap[c.buffptr]) = c.size
      BY <1>2, <2>1, <3>1 DEF StreamInv, HeapInv, Typed, Backed
    <3>3. Partial = SubSeq(heap[c.buffptr], 1, c.size)
      BY <1>2, <3>1 DEF Partial
    <3> HIDE DEF c
    <3> QED
      BY <3>2, <3>3, SubSeqFull
  <2>2. CASE Writing # {}
    <3>1. PICK t \in Thread : pc[t] \in {"copy_in", "store"}
      BY <2>2 DEF Writing
    <3> DEFINE bytes == heap[frame[t].temp_buf]
               size == dev.cached_entry.size
    <3>2. /\ Partial = SubSeq(bytes, 1, size) /\ bytes \in Seq(Byte)
          /\ size \in Nat /\ size <= Len(bytes)
      BY <3>1, PartialInWrite
    <3> HIDE DEF bytes, size
    <3> QED
      BY <3>2, SubSeqProperties
  <2> QED
    BY <2>1, <2>2
<1> QED
  BY <1>1, <1>2

\* The bytes a write takes from its caller are a piece of the stream's.
LEMMA PieceOfPayload ==
  ASSUME NEW s \in Payload, NEW n \in 0 .. Len(s)
  PROVE  SubSeq(s, 1, n) \in UNION {Prefixes(x) : x \in Payload}
<1>1. SubSeq(s, 1, n) \in Prefixes(s)
  BY DEF Prefixes
<1> QED
  BY <1>1

\* Quiet steps: a read takes effect when it copies out, a write of no bytes when
\* it sees that, and a reply is taken back when the call returns.
LEMMA QuietRefines ==
  ASSUME StreamInv, NEW t \in Thread, Quiet(t)
  PROVE  [Stream!Next]_(Stream!vars)
<1>0. /\ Commands' = Commands /\ Partial' = Partial
      /\ Reply' = [Reply EXCEPT ![t] = Reply'[t]]
      /\ Reply = [u \in Thread |-> Reply[u]]
  <2>1. Reply = [u \in Thread |-> Reply[u]]
    BY DEF Reply
  <2> QED
    BY <2>1, QuietStreams
<1>1. /\ pc \in [Thread -> Places] /\ req \in [Thread -> Request \cup {NoRequest}]
      /\ frame \in [Thread -> Frame]
  BY DEF StreamInv, HeapInv, HolderInv, Typed
<1>2. ASSUME Reply'[t] = Reply[t] PROVE [Stream!Next]_(Stream!vars)
  <2>1. Reply' = Reply
    BY <1>0, <1>2
  <2> QED
    BY <1>0, <2>1 DEF Stream!vars
<1>3. CASE CopyOut(t)
  <2> DEFINE bytes == Excerpt(frame[t].pos, req[t].count)
  <2>1. /\ pc[t] = "copy_out" /\ req[t].op = "read" /\ req[t] # NoRequest
        /\ frame' = [frame EXCEPT ![t].given = bytes, ![t].retval = Len(bytes),
                                  ![t].pos = @ + Len(bytes)]
        /\ pc' = [pc EXCEPT ![t] = "unlock"] /\ req' = req
    BY <1>3 DEF CopyOut, At, Goto
  <2>2. loaded /\ req[t] \in Request
    BY <2>1, InsideIsLoaded DEF StreamInv, HeapInv
  <2>3. frame[t].pos \in Nat /\ req[t].count \in Nat /\ req[t].count \in ReadSize
    BY <1>1, <2>1, <2>2, CallAssumption DEF Frame, Request
  <2>4. bytes \in Seq(Byte) /\ Len(bytes) \in Nat
    <3>1. Typed /\ Owned
      BY DEF StreamInv, HeapInv
    <3>2. bytes \in Seq(Byte)
      BY <2>2, <2>3, <3>1, ExcerptTyped
    <3> HIDE DEF bytes
    <3> QED
      BY <3>2
  <2>5. PICK p \in 0 .. Len(FlattenSeq(Commands)) :
          bytes = Stream!Excerpt(p, req[t].count)
    BY <2>2, <2>3, ExcerptsAgree DEF StreamInv
  <2> HIDE DEF bytes
  <2>6. frame'[t].retval = Len(bytes) /\ frame'[t].given = bytes /\ pc'[t] = "unlock"
    BY <1>1, <2>1 DEF Frame
  <2>7. ~(Len(bytes) < 0)
    BY <2>4
  <2>8. Reply'[t] = [given |-> bytes]
    BY <2>1, <2>6, <2>7 DEF Reply
  <2>9. Stream!Read(t, p, req[t].count)
    BY <1>0, <2>5, <2>8 DEF Stream!Read
  <2>10. p \in 0 .. Len(Stream!FlattenSeq(Commands))
    BY <2>5, StreamOperators
  <2> QED
    BY <2>3, <2>9, <2>10 DEF Stream!Next
<1>4. CASE WriteNothing(t)
  <2>1. /\ pc[t] = "alloc" /\ req[t].op = "write" /\ req[t].buf = <<>>
        /\ frame' = [frame EXCEPT ![t].retval = 0]
        /\ pc' = [pc EXCEPT ![t] = "unlock"] /\ req' = req
    BY <1>4 DEF WriteNothing, ExitWith, At, Goto
  <2>2. req[t] \in Request
    BY <2>1, InsideIsLoaded DEF StreamInv, HeapInv
  <2>3. req[t].buf \in Payload
    BY <2>1, <2>2 DEF Request
  <2>4. frame'[t].retval = 0 /\ pc'[t] = "unlock"
    BY <1>1, <2>1 DEF Frame
  <2>5. Reply'[t] = [taken |-> 0]
    BY <2>1, <2>4 DEF Reply
  <2>6. <<>> \in UNION {Prefixes(x) : x \in Payload}
    <3>1. Len(<<>>) = 0 /\ SubSeq(<<>>, 1, 0) = <<>>
      BY SubSeqEmpty
    <3>2. 0 \in 0 .. Len(req[t].buf)
      BY <2>1, <3>1
    <3>3. SubSeq(req[t].buf, 1, 0) \in UNION {Prefixes(x) : x \in Payload}
      BY <2>3, <3>2, PieceOfPayload
    <3> QED
      BY <2>1, <3>1, <3>3
  <2>7. Partial \o <<>> = Partial
    BY PartialTyped, NothingAdded
  <2>8. ~Stream!Contains(Partial \o <<>>, NL)
    BY <2>7, StreamOperators DEF StreamInv
  <2>9. Stream!Extend(t, <<>>)
    BY <1>0, <2>5, <2>7, <2>8 DEF Stream!Extend, Stream!Taken
  <2>10. {Stream!Prefixes(x) : x \in Payload} = {Prefixes(x) : x \in Payload}
    BY DEF Stream!Prefixes, Prefixes
  <2> QED
    BY <2>6, <2>9, <2>10 DEF Stream!Next
<1>5. CASE Return(t)
  <2>1. pc' = [pc EXCEPT ![t] = "user"]
    BY <1>5 DEF Return, Goto
  <2>2. Reply'[t] = NoReply
    BY <1>1, <2>1 DEF Reply
  <2>3. CASE Reply[t] # NoReply
    <3>1. Stream!Return(t)
      BY <1>0, <2>2, <2>3 DEF Stream!Return
    <3> QED
      BY <3>1 DEF Stream!Next
  <2>4. CASE Reply[t] = NoReply
    BY <1>2, <2>2, <2>4
  <2> QED
    BY <2>3, <2>4
<1>6. CASE (\E r \in Request : Call(t, r)) \/ Lock(t)
  <2>1. pc[t] \in {"user", "lock"} /\ pc'[t] \notin {"unlock", "return"}
    <3>1. CASE \E r \in Request : Call(t, r)
      BY <1>1, <3>1 DEF Call, Goto
    <3>2. CASE Lock(t)
      <4>1. req[t].op \in {"read", "write", "llseek", "ioctl"}
        BY <3>2, InsideIsLoaded DEF StreamInv, HeapInv, Lock, Request
      <4> QED
        BY <1>1, <3>2, <4>1 DEF Lock, Goto, FirstPlace
    <3> QED
      BY <1>6, <3>1, <3>2
  <2>2. Reply'[t] = NoReply /\ Reply[t] = NoReply
    BY <2>1 DEF Reply
  <2> QED
    BY <1>2, <2>2
<1>7. CASE Interrupted(t) \/ CopyOutFails(t) \/ AllocFails(t)
  <2>1. pc[t] \in {"lock", "copy_out", "alloc"} /\ frame'[t].retval < 0
    BY <1>1, <1>7 DEF Interrupted, CopyOutFails, AllocFails, ExitWith, At, Frame,
                      ERESTARTSYS, EFAULT, ENOMEM
  <2>2. Reply'[t] = NoReply /\ Reply[t] = NoReply
    BY <2>1 DEF Reply
  <2> QED
    BY <1>2, <2>2
<1>8. CASE Unlock(t)
  <2>1. /\ pc[t] = "unlock" /\ req' = req /\ frame' = frame
        /\ pc'[t] = IF req[t].op = "llseek" THEN "seek" ELSE "return"
    BY <1>1, <1>8 DEF Unlock, Goto
  <2>2. Reply'[t] = Reply[t]
    BY <2>1 DEF Reply
  <2> QED
    BY <1>2, <2>2
<1>9. CASE FixedSizeLlseek(t) \/ EntriesSize(t) \/ AdjustOffset(t) \/ AdjustRefused(t)
  <2>1. /\ pc[t] \in {"seek", "size", "adjust"} /\ req' = req
        /\ req[t].op \in {"llseek", "ioctl"}
    BY <1>9 DEF FixedSizeLlseek, EntriesSize, AdjustOffset, AdjustRefused, At
  <2>2. Reply'[t] = NoReply /\ Reply[t] = NoReply
    BY <2>1 DEF Reply
  <2> QED
    BY <1>2, <2>2
<1> QED
  BY <1>3, <1>4, <1>5, <1>6, <1>7, <1>8, <1>9 DEF Quiet

\* The commands stay as long as the slots and what they point to do.
LEMMA CommandsStay ==
  ASSUME HeapInv, loaded, loaded', dev'.circular_buffer = dev.circular_buffer,
         \A p \in SlotMemory(dev.circular_buffer) : heap'[p] = heap[p]
  PROVE  Commands' = Commands
<1> DEFINE b == dev.circular_buffer
           n == Len(LogOf(b))
<1>1. Commands = [i \in 1 .. n |-> SubSeq(heap[LogOf(b)[i].buffptr], 1, LogOf(b)[i].size)]
  BY DEF Commands, Text
<1>2. Commands' = [i \in 1 .. n |-> SubSeq(heap'[LogOf(b)[i].buffptr], 1, LogOf(b)[i].size)]
  BY DEF Commands, Text
<1>3. n = Filled(b)
  BY LogOfBuffer DEF HeapInv, Typed, Device, Owned, SlotsOwn
<1>4. \A i \in 1 .. n : LogOf(b)[i].buffptr \in SlotMemory(b)
  BY <1>3, LogEntry
<1> HIDE DEF n
<1>5. \A i \in 1 .. n : heap'[LogOf(b)[i].buffptr] = heap[LogOf(b)[i].buffptr]
  BY <1>4
<1> QED
  BY <1>1, <1>2, <1>5

\* Moving the partial command to more memory is not seen.
LEMMA AllocHidden ==
  ASSUME StreamInv, NEW t \in Thread, Alloc(t)
  PROVE  /\ Commands' = Commands /\ Partial' = Partial /\ Reply' = Reply
         /\ (loaded' => Backed')
<1> DEFINE c == dev.cached_entry
           temp == frame'[t].temp_buf
<1>1. /\ pc[t] = "alloc" /\ pc' = [pc EXCEPT ![t] = "copy_in"]
      /\ UNCHANGED <<loaded, dev, req>>
      /\ \E p : frame' = [frame EXCEPT ![t].temp_buf = p]
  BY DEF Alloc, At, Goto
<1>2. /\ loaded /\ Writing = {} /\ Writing' = {t} /\ PartialMemory' = {temp}
      /\ heap'[temp] = IF c.buffptr = NULL THEN <<>> ELSE heap[c.buffptr]
      /\ \A p \in SlotMemory(dev.circular_buffer) : heap'[p] = heap[p]
  BY AllocOwns DEF StreamInv
<1>3. /\ c.buffptr = NULL => c.size = 0
      /\ c.buffptr # NULL => Len(heap[c.buffptr]) = c.size
  BY <1>2 DEF StreamInv, Backed
<1>4. Commands' = Commands
  BY <1>1, <1>2, CommandsStay DEF StreamInv
<1>5. PartialMemory = {c.buffptr} \ {NULL}
  BY <1>2 DEF PartialMemory
<1> HIDE DEF temp
<1>6. Partial' = IF c.buffptr = NULL THEN <<>> ELSE SubSeq(heap'[temp], 1, c.size)
  <2>1. (CHOOSE p \in PartialMemory' : TRUE) = temp
    BY <1>2
  <2> QED
    BY <1>1, <1>2, <2>1 DEF Partial
<1>7. Partial = IF c.buffptr = NULL THEN <<>> ELSE SubSeq(heap[c.buffptr], 1, c.size)
  <2>1. loaded
    BY <1>2
  <2>2. CASE c.buffptr = NULL
    BY <2>2 DEF Partial
  <2>3. CASE c.buffptr # NULL
    <3> DEFINE place == CHOOSE p \in PartialMemory : TRUE
    <3>1. place = c.buffptr
      BY <1>5, <2>3
    <3>2. Partial = SubSeq(heap[place], 1, c.size)
      BY <2>1, <2>3 DEF Partial
    <3> HIDE DEF place
    <3> QED
      BY <2>3, <3>1, <3>2
  <2> QED
    BY <2>2, <2>3
<1>8. Partial' = Partial
  BY <1>2, <1>6, <1>7
<1>9. Len(heap'[temp]) = c.size
  BY <1>2, <1>3
<1>10. pc'[t] = "copy_in"
  BY <1>1 DEF StreamInv, HeapInv, HolderInv
<1>11. Backed'
  BY <1>1, <1>2, <1>3, <1>9, <1>10 DEF Backed, temp
<1>12. Reply' = Reply
  <2>1. Reply[t] = NoReply /\ Reply'[t] = NoReply
    BY <1>1, <1>10 DEF Reply
  <2>2. \A u \in Thread : u # t => frame'[u] = frame[u] /\ req'[u] = req[u]
    BY <1>1 DEF StreamInv, HeapInv, Typed
  <2>3. Reply' = [Reply EXCEPT ![t] = Reply'[t]]
    BY <1>1, <2>2, RepliesApart DEF StreamInv
  <2>4. Reply = [u \in Thread |-> Reply[u]]
    BY DEF Reply
  <2> QED
    BY <2>1, <2>3, <2>4
<1> QED
  BY <1>4, <1>8, <1>11, <1>12

\* Nor is copying more bytes behind it.
LEMMA CopyInHidden ==
  ASSUME StreamInv, NEW t \in Thread, CopyIn(t)
  PROVE  /\ Commands' = Commands /\ Partial' = Partial /\ Reply' = Reply
         /\ (loaded' => Backed')
<1> DEFINE c == dev.cached_entry
           temp == frame[t].temp_buf
           bytes == heap[temp]
<1>1. /\ pc[t] = "copy_in" /\ pc' = [pc EXCEPT ![t] = "store"]
      /\ req[t].op = "write" /\ UNCHANGED <<loaded, dev, req>>
  BY DEF CopyIn, At, Goto
<1>2. PICK n \in 0 .. Len(req[t].buf) :
        /\ heap' = [heap EXCEPT ![temp] = @ \o SubSeq(req[t].buf, 1, n)]
        /\ frame' = [frame EXCEPT ![t].retval = n]
  BY DEF CopyIn
<1>3. /\ Writing = {t} /\ loaded /\ temp \in DOMAIN heap /\ PartialMemory = {temp}
  BY <1>1, WriterHolds DEF StreamInv
<1>4. /\ Writing' = {t} /\ frame'[t].temp_buf = temp /\ PartialMemory' = {temp}
      /\ \A p \in SlotMemory(dev.circular_buffer) : heap'[p] = heap[p]
  BY CopyInOwns DEF StreamInv
<1>5. Partial = bytes /\ Len(bytes) = c.size /\ bytes \in Seq(Byte)
  BY <1>1, PartialInWrite
<1>6. /\ SubSeq(req[t].buf, 1, n) \in Seq(Byte) /\ Len(SubSeq(req[t].buf, 1, n)) = n
  <2>1. req[t].buf \in Payload
    BY <1>1, InsideIsLoaded DEF StreamInv, HeapInv, Request
  <2> QED
    BY <2>1, PieceTyped
<1>7. Commands' = Commands
  BY <1>1, <1>3, <1>4, CommandsStay DEF StreamInv
<1> DEFINE piece == SubSeq(req[t].buf, 1, n)
<1>8. heap'[temp] = bytes \o piece
  BY <1>2, <1>3
<1>9. c.buffptr = NULL => c.size = 0
  BY <1>3 DEF StreamInv, Backed
<1> HIDE DEF temp, bytes, piece
<1>10. /\ SubSeq(heap'[temp], 1, c.size) = bytes
       /\ Len(heap'[temp]) = c.size + n
  <2>1. bytes \in Seq(Byte) /\ piece \in Seq(Byte) /\ Len(piece) = n
    BY <1>5, <1>6 DEF piece
  <2>2. Len(bytes) \in Nat
    BY <2>1
  <2>3. SubSeq(bytes \o piece, 1, Len(bytes)) = bytes
    <3>1. /\ bytes \o piece \in Seq(Byte) /\ Len(bytes \o piece) = Len(bytes) + Len(piece)
          /\ \A i \in 1 .. Len(bytes) : (bytes \o piece)[0 + i] = bytes[i]
      <4>1. \A i \in 1 .. Len(bytes) : 0 + i = i
        BY <2>2
      <4>2. /\ bytes \o piece \in Seq(Byte) /\ Len(bytes \o piece) = Len(bytes) + Len(piece)
            /\ \A i \in 1 .. Len(bytes) : (bytes \o piece)[i] = bytes[i]
        BY <2>1, ConcatAt
      <4> QED
        BY <4>1, <4>2
    <3>2. 0 + Len(bytes) <= Len(bytes \o piece)
      BY <2>1, <2>2, <3>1
    <3>3. SubSeq(bytes \o piece, 0 + 0 + 1, 0 + Len(bytes)) = SubSeq(bytes, 0 + 1, Len(bytes))
      BY <2>1, <2>2, <3>1, <3>2, ShiftedPiece
    <3>4. 0 + 0 + 1 = 1 /\ 0 + 1 = 1 /\ 0 + Len(bytes) = Len(bytes)
      BY <2>2
    <3>5. SubSeq(bytes, 1, Len(bytes)) = bytes
      BY <2>1, SubSeqFull
    <3> QED
      BY <3>3, <3>4, <3>5
  <2>4. Len(bytes \o piece) = Len(bytes) + Len(piece)
    BY <2>1, ConcatAt
  <2> QED
    BY <1>5, <1>8, <2>1, <2>3, <2>4
<1>11. Partial' = Partial
  <2>1. (CHOOSE p \in PartialMemory' : TRUE) = temp
    BY <1>4
  <2>2. Partial' = IF c.buffptr = NULL THEN <<>> ELSE SubSeq(heap'[temp], 1, c.size)
    <3>1. loaded' /\ dev' = dev
      BY <1>1, <1>3
    <3> QED
      BY <1>4, <2>1, <3>1 DEF Partial
  <2>3. c.buffptr = NULL => bytes = <<>>
    BY <1>5, <1>9
  <2> QED
    BY <1>5, <1>10, <2>2, <2>3
<1>12. pc'[t] = "store" /\ frame'[t].retval = n
  BY <1>1, <1>2 DEF StreamInv, HeapInv, HolderInv, Typed, Frame
<1>13. Backed'
  <2>1. heap'[temp] = SubSeq(heap'[temp], 1, c.size) \o SubSeq(req[t].buf, 1, n)
    BY <1>8, <1>10 DEF piece
  <2> QED
    BY <1>1, <1>4, <1>9, <1>10, <1>12, <2>1 DEF Backed
<1>14. Reply' = Reply
  <2>1. Reply[t] = NoReply /\ Reply'[t] = NoReply
    BY <1>1, <1>12 DEF Reply
  <2>2. \A u \in Thread : u # t => frame'[u] = frame[u] /\ req'[u] = req[u]
    BY <1>1, <1>2 DEF StreamInv, HeapInv, Typed
  <2>3. Reply' = [Reply EXCEPT ![t] = Reply'[t]]
    BY <1>1, <2>2, RepliesApart DEF StreamInv
  <2>4. Reply = [u \in Thread |-> Reply[u]]
    BY DEF Reply
  <2> QED
    BY <2>1, <2>3, <2>4
<1> QED
  BY <1>7, <1>11, <1>13, <1>14

\* What a write is about to store: the partial command and a piece of its payload.
LEMMA StoreBytes ==
  ASSUME StreamInv, NEW t \in Thread, pc[t] = "store", req[t].op = "write"
  PROVE  \E piece \in Seq(Byte) :
           /\ piece \in UNION {Prefixes(x) : x \in Payload}
           /\ Len(piece) = frame[t].retval /\ frame[t].retval \in Nat
           /\ heap[frame[t].temp_buf] = Partial \o piece
<1> DEFINE piece == SubSeq(req[t].buf, 1, frame[t].retval)
<1>1. req[t].buf \in Payload
  BY InsideIsLoaded DEF StreamInv, HeapInv, Request
<1>2. Writing = {t} /\ loaded
  BY WriterHolds DEF StreamInv
<1>3. /\ frame[t].retval \in 0 .. Len(req[t].buf)
      /\ heap[frame[t].temp_buf] =
           SubSeq(heap[frame[t].temp_buf], 1, dev.cached_entry.size) \o piece
  BY <1>2 DEF StreamInv, Backed
<1>4. Partial = SubSeq(heap[frame[t].temp_buf], 1, dev.cached_entry.size)
  BY PartialInWrite
<1>5. piece \in Seq(Byte) /\ Len(piece) = frame[t].retval
      /\ piece \in UNION {Prefixes(x) : x \in Payload}
  BY <1>1, <1>3, PieceTyped, PieceOfPayload
<1>6. frame[t].retval \in Nat
  BY <1>3
<1> HIDE DEF piece
<1> QED
  BY <1>3, <1>4, <1>5, <1>6

\* The reply of a write that has stored.
LEMMA StoreReplies ==
  ASSUME StreamInv, NEW t \in Thread, pc[t] = "store", req[t].op = "write",
         pc' = [pc EXCEPT ![t] = "unlock"], UNCHANGED <<req, frame>>,
         frame[t].retval \in Nat
  PROVE  Reply' = [Reply EXCEPT ![t] = [taken |-> frame[t].retval]]
<1>1. pc'[t] = "unlock" /\ ~(frame[t].retval < 0)
  BY DEF StreamInv, HeapInv, HolderInv
<1>2. Reply'[t] = [taken |-> frame[t].retval]
  BY <1>1 DEF Reply
<1>3. Reply' = [Reply EXCEPT ![t] = Reply'[t]]
  BY RepliesApart DEF StreamInv
<1> QED
  BY <1>2, <1>3

\* A store without a newline extends the partial command of the stream.
LEMMA CachePartialExtends ==
  ASSUME StreamInv, NEW t \in Thread, CachePartial(t)
  PROVE  Stream!Next /\ (loaded' => Backed') /\ ~Contains(Partial, NL)'
<1> DEFINE temp == frame[t].temp_buf
           bytes == heap[temp]
<1>1. /\ pc[t] = "store" /\ pc' = [pc EXCEPT ![t] = "unlock"] /\ req[t].op = "write"
      /\ ~Contains(bytes, NL)
      /\ dev' = [dev EXCEPT !.cached_entry = NewEntry(t)]
      /\ UNCHANGED <<loaded, heap, req, frame>>
  BY DEF CachePartial, At, Goto
<1>2. PICK piece \in Seq(Byte) :
        /\ piece \in UNION {Prefixes(x) : x \in Payload}
        /\ Len(piece) = frame[t].retval /\ frame[t].retval \in Nat
        /\ bytes = Partial \o piece
  BY <1>1, StoreBytes
<1>3. loaded /\ bytes \in Seq(Byte)
  BY <1>1, WriterHolds DEF StreamInv
<1>4. /\ NewEntry(t).buffptr = temp /\ temp # NULL /\ NewEntry(t).size = Len(bytes)
  BY <1>1, NewEntryTyped DEF StreamInv
<1>5. /\ Writing' = {} /\ PartialMemory' = {temp}
  BY CachePartialOwns DEF StreamInv
<1>6. /\ dev'.circular_buffer = dev.circular_buffer /\ dev'.cached_entry = NewEntry(t)
  BY <1>1 DEF StreamInv, HeapInv, Typed, Device
<1>7. Commands' = Commands
  BY <1>1, <1>3, <1>6, CommandsStay DEF StreamInv
<1>8. Partial' = bytes
  <2> DEFINE place == CHOOSE p \in PartialMemory' : TRUE
  <2> HIDE DEF temp
  <2>1. place = temp
    BY <1>5
  <2>2. Partial' = SubSeq(heap[place], 1, Len(bytes))
    BY <1>1, <1>3, <1>4, <1>6 DEF Partial
  <2> HIDE DEF place
  <2>3. SubSeq(bytes, 1, Len(bytes)) = bytes
    BY <1>3, SubSeqFull
  <2> QED
    BY <2>1, <2>2, <2>3
<1>9. ~Contains(Partial, NL)'
  BY <1>1, <1>8 DEF Contains
<1>10. Backed'
  BY <1>1, <1>4, <1>5, <1>6 DEF Backed
<1>11. Reply' = [Reply EXCEPT ![t] = [taken |-> Len(piece)]]
  BY <1>1, <1>2, StoreReplies
<1>12. Stream!Extend(t, piece)
  <2>1. ~Stream!Contains(Partial \o piece, NL)
    BY <1>1, <1>2, StreamOperators
  <2> QED
    BY <1>2, <1>7, <1>8, <1>11, <2>1 DEF Stream!Extend, Stream!Taken
<1>13. {Stream!Prefixes(x) : x \in Payload} = {Prefixes(x) : x \in Payload}
  BY DEF Stream!Prefixes, Prefixes
<1> QED
  BY <1>2, <1>9, <1>10, <1>12, <1>13 DEF Stream!Next

\* The commands once one more has been added, and what the slot pointed to freed.
LEMMA CommandsAppend ==
  ASSUME StreamInv, NEW t \in Thread, AddCommand(t)
  PROVE  Commands' = Append(IF Len(Commands) < MaxWriteOps THEN Commands
                            ELSE Tail(Commands), heap[frame[t].temp_buf])
<1> DEFINE temp == frame[t].temp_buf
           b == dev.circular_buffer
           e == NewEntry(t)
           c == AddEntry(b, e)
           kept == IF Len(LogOf(b)) < MaxWriteOps THEN LogOf(b) ELSE Tail(LogOf(b))
           shown == IF Len(Commands) < MaxWriteOps THEN Commands ELSE Tail(Commands)
           m == Len(kept)
<1>1. /\ pc[t] = "store"
      /\ dev' = [circular_buffer |-> c, cached_entry |-> EmptyEntry]
      /\ UNCHANGED loaded
  BY DEF AddCommand, At
<1>2. loaded /\ temp \in DOMAIN heap
  BY <1>1, WriterHolds DEF StreamInv
<1>3. b \in Buffer /\ Agree(b)
  BY <1>2 DEF StreamInv, HeapInv, Typed, Device, Owned, SlotsOwn
<1>4. /\ e \in Entry /\ e.buffptr = temp /\ temp # NULL /\ e.size = Len(heap[temp])
  BY <1>1, NewEntryTyped DEF StreamInv
<1>5. /\ Owned' /\ dev' \in Device /\ heap' \in [DOMAIN heap' -> Seq(Byte)]
      /\ \A p \in SlotMemory(c) : heap'[p] = heap[p]
  BY AddCommandOwns DEF StreamInv
<1>6. dev'.circular_buffer = c
  BY <1>1
<1>7. c \in Buffer /\ Agree(c)
  BY <1>1, <1>2, <1>5, <1>6 DEF Device, Owned, SlotsOwn
<1>8. /\ Commands \in Seq(Seq(Byte)) /\ Len(Commands) = Filled(b)
      /\ \A i \in 1 .. Filled(b) : Commands[i] = heap[LogOf(b)[i].buffptr]
  BY <1>2, CommandBytes DEF StreamInv
<1>9. /\ LogOf(b) \in Seq(Entry) /\ Len(LogOf(b)) = Filled(b) /\ Filled(b) \in Nat
  BY <1>3, LogOfBuffer, CapacityAssumption
<1> HIDE DEF b, e, temp
<1>10. LogOf(c) = Append(kept, e)
  <2>1. CASE ~b.full
    BY <1>3, <1>4, <1>7, <2>1, AddGrows
  <2>2. CASE b.full
    <3>1. ~(Len(LogOf(b)) < MaxWriteOps)
      BY <1>3, <1>4, <1>7, <2>2, AddSlides, CapacityAssumption
    <3> QED
      BY <1>3, <1>4, <1>7, <2>2, <3>1, AddSlides
  <2> QED
    BY <2>1, <2>2
<1> HIDE DEF c
<1>11. /\ kept \in Seq(Entry) /\ shown \in Seq(Seq(Byte)) /\ Len(shown) = m /\ m \in Nat
       /\ \A i \in 1 .. m : shown[i] = heap[kept[i].buffptr]
  <2>1. CASE Len(LogOf(b)) < MaxWriteOps
    BY <1>8, <1>9, <2>1
  <2>2. CASE ~(Len(LogOf(b)) < MaxWriteOps)
    <3>1. LogOf(b) # <<>> /\ Commands # <<>>
      BY <1>8, <1>9, <2>2, CapacityAssumption
    <3>2. /\ Tail(LogOf(b)) \in Seq(Entry) /\ Len(Tail(LogOf(b))) = Filled(b) - 1
          /\ \A i \in 1 .. Filled(b) - 1 : Tail(LogOf(b))[i] = LogOf(b)[i + 1]
      BY <1>9, <3>1, HeadTailProperties
    <3>3. /\ Tail(Commands) \in Seq(Seq(Byte)) /\ Len(Tail(Commands)) = Filled(b) - 1
          /\ \A i \in 1 .. Filled(b) - 1 : Tail(Commands)[i] = Commands[i + 1]
      BY <1>8, <3>1, HeadTailProperties
    <3>4. \A i \in 1 .. Filled(b) - 1 : i + 1 \in 1 .. Filled(b)
      BY <1>9
    <3>5. kept = Tail(LogOf(b)) /\ shown = Tail(Commands) /\ m = Filled(b) - 1
      BY <1>8, <1>9, <2>2, <3>2
    <3>6. m \in Nat
      BY <3>2, <3>5
    <3> HIDE DEF kept, shown, m
    <3> QED
      BY <1>8, <3>2, <3>3, <3>4, <3>5, <3>6
  <2> QED
    BY <2>1, <2>2
<1> HIDE DEF kept, shown, m
<1>12. /\ Len(LogOf(c)) = m + 1 /\ LogOf(c)[m + 1] = e
       /\ \A i \in 1 .. m : LogOf(c)[i] = kept[i]
  BY <1>4, <1>10, <1>11, AppendProperties DEF m
<1>13. Commands' = [i \in 1 .. m + 1 |-> SubSeq(heap'[LogOf(c)[i].buffptr], 1, LogOf(c)[i].size)]
  <2>1. loaded' /\ dev'.circular_buffer = c
    BY <1>1, <1>2, <1>6
  <2> QED
    BY <1>12, <2>1 DEF Commands, Text
<1>14. ASSUME NEW i \in 1 .. m + 1
       PROVE  SubSeq(heap'[LogOf(c)[i].buffptr], 1, LogOf(c)[i].size) = heap[LogOf(c)[i].buffptr]
  <2> DEFINE d == LogOf(c)[i]
  <2>1. d.buffptr \in SlotMemory(c) /\ d.size = Len(heap'[d.buffptr])
        /\ heap'[d.buffptr] \in Seq(Byte)
    <3>1. i \in 1 .. Filled(c)
      BY <1>7, <1>12, LogOfBuffer
    <3>2. PICK j \in Index : d = c.entry[j] /\ c.entry[j].buffptr # NULL
      BY <1>7, <3>1, LogSlot
    <3>3. SlotMemory(c) \subseteq DOMAIN heap'
      <4>1. SlotMemory(dev.circular_buffer)' \subseteq DOMAIN heap'
        BY <1>1, <1>2, <1>5 DEF Owned
      <4> QED
        BY <1>6, <4>1 DEF SlotMemory
    <3>4. \A k \in Index : c.entry[k].buffptr # NULL => c.entry[k].size = Len(heap'[c.entry[k].buffptr])
      <4>1. (\A k \in Index : dev.circular_buffer.entry[k].buffptr # NULL =>
               dev.circular_buffer.entry[k].size = Len(heap[dev.circular_buffer.entry[k].buffptr]))'
        BY <1>1, <1>2, <1>5 DEF Owned, SlotsOwn
      <4> QED
        BY <1>6, <4>1
    <3>5. d.buffptr \in SlotMemory(c)
      BY <3>2 DEF SlotMemory
    <3> QED
      BY <1>5, <3>2, <3>3, <3>4, <3>5
  <2>2. heap'[d.buffptr] = heap[d.buffptr]
    BY <1>5, <2>1
  <2> HIDE DEF d
  <2>3. SubSeq(heap'[d.buffptr], 1, Len(heap'[d.buffptr])) = heap'[d.buffptr]
    BY <2>1, SubSeqFull
  <2> QED
    BY <2>1, <2>2, <2>3 DEF d
<1>15. Commands' = [i \in 1 .. m + 1 |-> heap[LogOf(c)[i].buffptr]]
  BY <1>13, <1>14
<1>16. heap[temp] \in Seq(Byte)
  BY <1>2 DEF StreamInv, HeapInv, Typed
<1>17. /\ Append(shown, heap[temp]) \in Seq(Seq(Byte)) /\ Len(Append(shown, heap[temp])) = m + 1
       /\ Append(shown, heap[temp])[m + 1] = heap[temp]
       /\ \A i \in 1 .. m : Append(shown, heap[temp])[i] = shown[i]
  BY <1>11, <1>16, AppendProperties
<1>18. \A i \in 1 .. m + 1 : Append(shown, heap[temp])[i] = heap[LogOf(c)[i].buffptr]
  <2> TAKE i \in 1 .. m + 1
  <2>1. i \in 1 .. m \/ i = m + 1
    BY <1>11
  <2> QED
    BY <1>4, <1>11, <1>12, <1>17, <2>1
<1>19. Commands' = Append(shown, heap[temp])
  <2> DEFINE l == [i \in 1 .. m + 1 |-> heap[LogOf(c)[i].buffptr]]
             r == Append(shown, heap[temp])
  <2>1. r \in [1 .. m + 1 -> Seq(Byte)]
    <3>1. r \in Seq(Seq(Byte)) /\ Len(r) = m + 1
      BY <1>17
    <3> HIDE DEF r
    <3>2. r \in [1 .. Len(r) -> Seq(Byte)]
      BY <3>1
    <3> QED
      BY <3>1, <3>2
  <2>2. l = [i \in 1 .. m + 1 |-> r[i]]
    BY <1>18
  <2>3. r = [i \in 1 .. m + 1 |-> r[i]]
    <3> HIDE DEF r
    <3> QED
      BY <2>1
  <2> QED
    BY <1>15, <2>2, <2>3
<1> QED
  BY <1>19 DEF shown, temp

\* A store with a newline completes the partial command of the stream.
LEMMA AddCommandCompletes ==
  ASSUME StreamInv, NEW t \in Thread, AddCommand(t)
  PROVE  Stream!Next /\ (loaded' => Backed') /\ ~Contains(Partial, NL)'
<1> DEFINE bytes == heap[frame[t].temp_buf]
<1>1. /\ pc[t] = "store" /\ pc' = [pc EXCEPT ![t] = "unlock"] /\ req[t].op = "write"
      /\ Contains(bytes, NL)
      /\ dev'.cached_entry = EmptyEntry
      /\ UNCHANGED <<loaded, req, frame>>
  BY DEF AddCommand, At, Goto
<1>2. PICK piece \in Seq(Byte) :
        /\ piece \in UNION {Prefixes(x) : x \in Payload}
        /\ Len(piece) = frame[t].retval /\ frame[t].retval \in Nat
        /\ bytes = Partial \o piece
  BY <1>1, StoreBytes
<1>3. Commands' = Append(IF Len(Commands) < MaxWriteOps THEN Commands
                         ELSE Tail(Commands), Partial \o piece)
  BY <1>2, CommandsAppend
<1>4. Partial' = <<>> /\ ~Contains(Partial, NL)'
  <2>1. Partial' = <<>>
    BY <1>1 DEF Partial, EmptyEntry
  <2>2. \A x : ~Contains(<<>>, x)
    BY DEF Contains
  <2> QED
    BY <2>1, <2>2 DEF Contains
<1>5. Backed'
  <2>1. Writing' = {}
    BY AddCommandOwns DEF StreamInv
  <2> QED
    BY <1>1, <2>1 DEF Backed, EmptyEntry
<1>6. Reply' = [Reply EXCEPT ![t] = [taken |-> Len(piece)]]
  BY <1>1, <1>2, StoreReplies
<1>7. Stream!Complete(t, piece)
  <2>1. Stream!Contains(Partial \o piece, NL)
    BY <1>1, <1>2, StreamOperators
  <2> QED
    BY <1>3, <1>4, <1>6, <2>1 DEF Stream!Complete, Stream!Taken
<1>8. {Stream!Prefixes(x) : x \in Payload} = {Prefixes(x) : x \in Payload}
  BY DEF Stream!Prefixes, Prefixes
<1> QED
  BY <1>2, <1>4, <1>5, <1>7, <1>8 DEF Stream!Next

\* A freshly loaded module has no commands, as one that is not loaded.
LEMMA LoadHidden ==
  ASSUME StreamInv, Load
  PROVE  /\ Commands' = Commands /\ Partial' = Partial /\ Reply' = Reply
         /\ (loaded' => Backed') /\ Partial' = <<>>
<1>1. /\ ~loaded /\ dev' = EmptyDevice /\ UNCHANGED <<heap, pc, req, frame>>
  BY DEF Load
<1>2. Commands = <<>> /\ Partial = <<>>
  BY <1>1 DEF Commands, Partial
<1>3. Commands' = <<>>
  <2>1. Agree(EmptyBuffer) /\ EmptyBuffer \in Buffer
    BY InitialBufferFree, InitialBuffer
  <2>2. Len(LogOf(EmptyBuffer)) = 0
    <3>1. EmptyBuffer.full = FALSE /\ EmptyBuffer.in_offs = 0
      BY DEF EmptyBuffer
    <3> QED
      BY <2>1, <3>1, LogOfBuffer
  <2>3. dev'.circular_buffer = EmptyBuffer
    BY <1>1 DEF EmptyDevice
  <2> DEFINE text(i) == Text(LogOf(dev.circular_buffer)[i])'
  <2>4. Commands' = IF loaded' THEN [i \in 1 .. 0 |-> text(i)] ELSE <<>>
    BY <2>2, <2>3 DEF Commands
  <2> HIDE DEF text
  <2>5. [i \in 1 .. 0 |-> text(i)] = <<>>
    OBVIOUS
  <2> QED
    BY <2>4, <2>5
<1>4. Partial' = <<>>
  BY <1>1 DEF Partial, EmptyDevice, EmptyEntry
<1>5. Writing' = {}
  <2>1. \A t \in Thread : pc[t] = "user"
    BY <1>1, InsideIsLoaded DEF StreamInv, HeapInv
  <2> QED
    BY <1>1, <2>1 DEF Writing
<1>6. Backed'
  BY <1>1, <1>5 DEF Backed, EmptyDevice, EmptyEntry
<1>7. Reply' = Reply
  BY <1>1 DEF Reply
<1> QED
  BY <1>2, <1>3, <1>4, <1>6, <1>7

\* An unload takes the stream back to its beginning.
LEMMA UnloadResets ==
  ASSUME Unload
  PROVE  Stream!Reset /\ (loaded' => Backed') /\ Partial' = <<>>
<1>1. ~loaded' /\ UNCHANGED <<pc, req, frame>>
  BY DEF Unload
<1>2. Commands' = <<>> /\ Partial' = <<>> /\ Reply' = Reply
  BY <1>1 DEF Commands, Partial, Reply
<1> QED
  BY <1>1, <1>2 DEF Stream!Reset

\* It is the stream of a fresh device at first.
LEMMA InitStream == Init => StreamInv /\ Stream!Init
<1> SUFFICES ASSUME Init PROVE StreamInv /\ Stream!Init
  OBVIOUS
<1>1. ~loaded /\ \A t \in Thread : pc[t] = "user"
  BY DEF Init
<1>2. Commands = <<>> /\ Partial = <<>>
  BY <1>1 DEF Commands, Partial
<1>3. Reply = [t \in Thread |-> NoReply]
  BY <1>1 DEF Reply
<1>4. ~Contains(Partial, NL)
  BY <1>2 DEF Contains
<1> QED
  BY <1>1, <1>2, <1>3, <1>4, InitHeap DEF StreamInv, Stream!Init

\* Every step of the driver keeps the invariant, and is a step of the stream or
\* not seen by it.
LEMMA StepKeepsStream ==
  ASSUME Interruptible \subseteq {"llseek"}, StreamInv, [Next]_vars
  PROVE  StreamInv' /\ [Stream!Next]_(Stream!vars)
<1>1. HeapInv'
  BY StepKeepsHeap DEF StreamInv
<1> DEFINE Seen == /\ (loaded' => Backed') /\ ~Contains(Partial, NL)'
                   /\ [Stream!Next]_(Stream!vars)
<1>2. Partial' = Partial \/ Partial' = <<>> => ~Contains(Partial, NL)'
  BY DEF StreamInv, Contains
<1>3. ASSUME UNCHANGED <<loaded, dev, heap, pc, req, frame>> PROVE Seen
  <2>1. Commands' = Commands /\ Reply' = Reply
    BY <1>3 DEF Commands, Text, Reply
  <2>2. Writing' = Writing /\ PartialMemory' = PartialMemory
    BY <1>3 DEF Writing, PartialMemory
  <2>3. Partial' = Partial
    BY <1>3, <2>2 DEF Partial
  <2>4. loaded' => Backed'
    BY <1>3, <2>2 DEF StreamInv, Backed
  <2> QED
    BY <1>2, <2>1, <2>3, <2>4 DEF Stream!vars
<1>4. ASSUME Load PROVE Seen
  BY <1>2, <1>4, LoadHidden DEF Stream!vars
<1>5. ASSUME Unload PROVE Seen
  BY <1>2, <1>5, UnloadResets DEF Stream!Next
<1>6. ASSUME NEW t \in Thread, Quiet(t) PROVE Seen
  BY <1>2, <1>6, QuietStreams, QuietRefines
<1>7. ASSUME NEW t \in Thread, Alloc(t) PROVE Seen
  BY <1>2, <1>7, AllocHidden DEF Stream!vars
<1>8. ASSUME NEW t \in Thread, CopyIn(t) PROVE Seen
  BY <1>2, <1>8, CopyInHidden DEF Stream!vars
<1>9. ASSUME NEW t \in Thread, AddCommand(t) PROVE Seen
  BY <1>9, AddCommandCompletes
<1>10. ASSUME NEW t \in Thread, CachePartial(t) PROVE Seen
  BY <1>10, CachePartialExtends
<1>11. Seen
  <2>1. CASE \E f \in File : Open(f) \/ Release(f)
    BY <1>3, <2>1 DEF Open, Release
  <2>2. CASE UNCHANGED vars
    BY <1>3, <2>2 DEF vars
  <2>3. CASE \E t \in Thread : (\E r \in Request : Call(t, r)) \/ Lock(t)
                                 \/ Interrupted(t) \/ Proceed(t)
    <3>1. PICK t \in Thread : Quiet(t) \/ Alloc(t) \/ CopyIn(t) \/ AddCommand(t)
                                \/ CachePartial(t)
      BY <2>3 DEF Proceed, Body, Quiet
    <3> HIDE DEF Seen
    <3> QED
      BY <1>6, <1>7, <1>8, <1>9, <1>10, <3>1
  <2> QED
    BY <1>4, <1>5, <2>1, <2>2, <2>3 DEF Next
<1> QED
  BY <1>1, <1>11 DEF StreamInv

\* What waits for its newline holds none, and is in the cached entry or with the
\* write under way, wherever krealloc has put it: aesd_write has given a slot to
\* every command it has found the end of (main.c:130-170).
THEOREM StreamKept ==
  ASSUME Interruptible \subseteq {"llseek"}
  PROVE  Spec => []StreamInv
<1>1. StreamInv /\ [Next]_vars => StreamInv'
  BY StepKeepsStream
<1> QED
  BY <1>1, InitStream, PTL DEF Spec

\* Reads and writes take effect one at a time on a stream of the last commands,
\* whatever the threads, the payloads and the memory: a read gives bytes of one
\* command, a write adds the bytes it reports and no others (main.c:68-171).
THEOREM StreamImplemented ==
  ASSUME Interruptible \subseteq {"llseek"}
  PROVE  Spec => ImplementsStream
<1>1. StreamInv /\ [Next]_vars => StreamInv' /\ [Stream!Next]_(Stream!vars)
  BY StepKeepsStream
<1> QED
  BY <1>1, InitStream, PTL DEF Spec, ImplementsStream, Stream!Spec

----------------------------------------------------------------------------
(* What a step does to the stream, for what is built on the driver.        *)

\* The bytes of the commands, and all that have been written.
Stored == FlattenSeq(Commands)
Held   == Stored \o Partial

\* Types of the stream.
LEMMA InvariantTyped ==
  ASSUME StreamInv
  PROVE  /\ Commands \in Seq(Seq(Byte)) /\ Partial \in Seq(Byte)
         /\ Stored \in Seq(Byte) /\ Held \in Seq(Byte)
         /\ Len(Commands) \in Nat /\ Len(Stored) \in Nat
         /\ ~loaded => Commands = <<>> /\ Partial = <<>> /\ Stored = <<>>
<1>1. Partial \in Seq(Byte)
  BY PartialTyped
<1>2. Commands \in Seq(Seq(Byte)) /\ Stored \in Seq(Byte)
  <2>1. CASE loaded
    BY <2>1, CommandBytes, CommandEnds DEF StreamInv, Stored
  <2>2. CASE ~loaded
    <3>1. Commands = <<>>
      BY <2>2 DEF Commands
    <3>2. Stored = <<>>
      BY <3>1, NothingFlat DEF Stored
    <3> QED
      BY <3>1, <3>2
  <2> QED
    BY <2>1, <2>2
<1>3. ~loaded => Commands = <<>> /\ Partial = <<>> /\ Stored = <<>>
  BY NothingFlat DEF Commands, Stored, Partial
<1>4. Held \in Seq(Byte)
  BY <1>1, <1>2 DEF Held
<1> QED
  BY <1>1, <1>2, <1>3, <1>4

\* Most steps leave the stream and the slots alone.
LEMMA StreamStays ==
  ASSUME StreamInv,
         \/ \E t \in Thread : Quiet(t) \/ Alloc(t) \/ CopyIn(t)
         \/ \E f \in File : Open(f) \/ Release(f)
         \/ UNCHANGED vars
  PROVE  /\ Commands' = Commands /\ Partial' = Partial /\ loaded' = loaded
         /\ dev' = dev
<1>1. ASSUME NEW t \in Thread, Quiet(t)
      PROVE  Commands' = Commands /\ Partial' = Partial /\ loaded' = loaded /\ dev' = dev
  BY <1>1, QuietStreams, QuietMoves DEF StreamInv
<1>2. ASSUME NEW t \in Thread, Alloc(t)
      PROVE  Commands' = Commands /\ Partial' = Partial /\ loaded' = loaded /\ dev' = dev
  BY <1>2, AllocHidden DEF Alloc
<1>3. ASSUME NEW t \in Thread, CopyIn(t)
      PROVE  Commands' = Commands /\ Partial' = Partial /\ loaded' = loaded /\ dev' = dev
  BY <1>3, CopyInHidden DEF CopyIn
<1>4. ASSUME UNCHANGED <<loaded, dev, heap, pc, req, frame>>
      PROVE  Commands' = Commands /\ Partial' = Partial /\ loaded' = loaded /\ dev' = dev
  <2>1. Commands' = Commands
    BY <1>4 DEF Commands, Text
  <2>2. PartialMemory' = PartialMemory
    BY <1>4 DEF Writing, PartialMemory
  <2> QED
    BY <1>4, <2>1, <2>2 DEF Partial
<1> QED
  BY <1>1, <1>2, <1>3, <1>4 DEF Open, Release, vars

\* A write that has copied all its bytes appends them, and with a newline among
\* them what has been put together becomes a command.
LEMMA WholeStore ==
  ASSUME StreamInv, NEW t \in Thread, AddCommand(t) \/ CachePartial(t),
         frame[t].retval = Len(req[t].buf)
  PROVE  LET buf == req[t].buf
         IN  /\ buf \in Seq(Byte) /\ loaded /\ loaded'
             /\ AddCommand(t) => /\ Contains(Partial \o buf, NL) /\ Partial' = <<>>
                                 /\ Commands' = Append(IF Len(Commands) < MaxWriteOps
                                                       THEN Commands ELSE Tail(Commands),
                                                       Partial \o buf)
             /\ CachePartial(t) => /\ ~Contains(Partial \o buf, NL)
                                   /\ Partial' = Partial \o buf
                                   /\ Commands' = Commands
                                   /\ dev'.circular_buffer = dev.circular_buffer
<1> DEFINE buf == req[t].buf
           temp == frame[t].temp_buf
           bytes == heap[temp]
<1>1. /\ pc[t] = "store" /\ req[t].op = "write" /\ UNCHANGED <<loaded, req, frame>>
  BY DEF AddCommand, CachePartial, At
<1>2. buf \in Payload /\ loaded
  BY <1>1, InsideIsLoaded DEF StreamInv, HeapInv, Request
<1>3. SubSeq(buf, 1, Len(buf)) = buf /\ buf \in Seq(Byte)
  <2>1. buf \in Seq(ToSet(buf)) /\ ToSet(buf) \subseteq Byte
    BY <1>2, PayloadAssumption DEF Byte
  <2> HIDE DEF buf
  <2>2. buf \in Seq(Byte)
    BY <2>1
  <2> QED
    BY <2>2, SubSeqFull
<1>4. bytes = Partial \o buf /\ bytes \in Seq(Byte)
  <2>1. Writing = {t} /\ bytes \in Seq(Byte)
    BY <1>1, WriterHolds DEF StreamInv
  <2>2. bytes = SubSeq(bytes, 1, dev.cached_entry.size) \o SubSeq(buf, 1, Len(buf))
    BY <1>1, <1>2, <2>1 DEF StreamInv, Backed
  <2>3. Partial = SubSeq(bytes, 1, dev.cached_entry.size)
    BY <1>1, PartialInWrite
  <2> HIDE DEF bytes, buf
  <2> QED
    BY <1>3, <2>1, <2>2, <2>3
<1>5. ASSUME AddCommand(t)
      PROVE  /\ Contains(Partial \o buf, NL) /\ Partial' = <<>>
             /\ Commands' = Append(IF Len(Commands) < MaxWriteOps THEN Commands
                                   ELSE Tail(Commands), Partial \o buf)
  <2>1. dev'.cached_entry = EmptyEntry /\ Contains(bytes, NL)
    BY <1>5 DEF AddCommand
  <2>2. Partial' = <<>>
    BY <2>1 DEF Partial, EmptyEntry
  <2> QED
    BY <1>4, <1>5, <2>1, <2>2, CommandsAppend
<1>6. ASSUME CachePartial(t)
      PROVE  /\ ~Contains(Partial \o buf, NL) /\ Partial' = Partial \o buf
             /\ Commands' = Commands /\ dev'.circular_buffer = dev.circular_buffer
  <2>1. dev' = [dev EXCEPT !.cached_entry = NewEntry(t)] /\ ~Contains(bytes, NL) /\ heap' = heap
    BY <1>6 DEF CachePartial
  <2>2. /\ NewEntry(t).buffptr = temp /\ temp # NULL /\ NewEntry(t).size = Len(bytes)
    BY <1>1, NewEntryTyped DEF StreamInv
  <2>3. PartialMemory' = {temp}
    BY <1>6, CachePartialOwns DEF StreamInv
  <2>4. /\ dev'.circular_buffer = dev.circular_buffer /\ dev'.cached_entry = NewEntry(t)
    BY <2>1 DEF StreamInv, HeapInv, Typed, Device
  <2>5. Commands' = Commands
    BY <1>1, <1>2, <2>1, <2>4, CommandsStay DEF StreamInv
  <2>6. Partial' = bytes
    <3> DEFINE place == CHOOSE p \in PartialMemory' : TRUE
    <3> HIDE DEF temp
    <3>1. place = temp
      BY <2>3
    <3>2. Partial' = SubSeq(heap[place], 1, Len(bytes))
      BY <1>1, <1>2, <2>1, <2>2, <2>4 DEF Partial
    <3> HIDE DEF place
    <3>3. SubSeq(bytes, 1, Len(bytes)) = bytes
      BY <1>4, SubSeqFull
    <3> QED
      BY <3>1, <3>2, <3>3
  <2> QED
    BY <1>4, <2>1, <2>4, <2>5, <2>6
<1> QED
  BY <1>1, <1>2, <1>3, <1>5, <1>6

\* What slots have room for: as long as they are not full the first is the oldest.
LEMMA RoomForCommand ==
  ASSUME StreamInv, loaded, ~dev.circular_buffer.full
  PROVE  /\ Len(Commands) < MaxWriteOps
         /\ \A t \in Thread : AddCommand(t) => dev'.circular_buffer.out_offs
                                                 = dev.circular_buffer.out_offs
<1> DEFINE b == dev.circular_buffer
<1>1. b \in Buffer /\ Agree(b) /\ Len(Commands) = Filled(b)
  BY CommandBytes DEF StreamInv, HeapInv, Typed, Device, Owned, SlotsOwn
<1>2. Filled(b) = b.in_offs
  BY <1>1, LogOfBuffer
<1>3. b.in_offs < MaxWriteOps
  <2>1. b.in_offs \in Index
    BY <1>1 DEF Buffer
  <2> QED
    BY <2>1, CapacityAssumption DEF Index
<1>4. ASSUME NEW t \in Thread, AddCommand(t) PROVE dev'.circular_buffer.out_offs = b.out_offs
  BY <1>4 DEF AddCommand, AddEntry
<1> QED
  BY <1>1, <1>2, <1>3, <1>4

\* Whatever is stored is still held after it, but for the oldest command when it
\* had to make room.
LEMMA StoreHolds ==
  ASSUME StreamInv, NEW t \in Thread, AddCommand(t) \/ CachePartial(t),
         frame[t].retval = Len(req[t].buf)
  PROVE  \E head \in Seq(Byte) :
           /\ Held \o req[t].buf = head \o Held'
           /\ Held' \in Seq(Byte)
           /\ CachePartial(t) \/ ~dev.circular_buffer.full => head = <<>>
<1> DEFINE buf == req[t].buf
           line == Partial \o buf
<1>1. /\ Commands \in Seq(Seq(Byte)) /\ Partial \in Seq(Byte) /\ Stored \in Seq(Byte)
      /\ buf \in Seq(Byte) /\ loaded
  BY InvariantTyped, WholeStore
<1>2. Held \o buf = Stored \o line /\ line \in Seq(Byte)
  <2> DEFINE s == Stored
             p == Partial
  <2>1. s \in Seq(Byte) /\ p \in Seq(Byte) /\ buf \in Seq(Byte)
    BY <1>1
  <2> HIDE DEF s, p, buf
  <2>2. (s \o p) \o buf = s \o (p \o buf) /\ p \o buf \in Seq(Byte)
    BY <2>1, ConcatAssociative
  <2> QED
    BY <2>2 DEF Held, s, p
<1>3. CASE CachePartial(t)
  <2>1. Held' = Stored \o line
    BY <1>3, WholeStore DEF Held, Stored
  <2> HIDE DEF line, buf
  <2>2. Stored \o line \in Seq(Byte)
    BY <1>1, <1>2
  <2>3. Held \o req[t].buf = <<>> \o Held' /\ <<>> \in Seq(Byte) /\ Held' \in Seq(Byte)
    BY <1>2, <2>1, <2>2 DEF buf
  <2> QED
    BY <2>3
<1>4. CASE AddCommand(t)
  <2> DEFINE kept == IF Len(Commands) < MaxWriteOps THEN Commands ELSE Tail(Commands)
  <2>1. Commands' = Append(kept, line) /\ Partial' = <<>>
    BY <1>4, WholeStore
  <2>2. kept \in Seq(Seq(Byte))
    <3>1. CASE Len(Commands) < MaxWriteOps
      BY <1>1, <3>1
    <3>2. CASE ~(Len(Commands) < MaxWriteOps)
      <4>1. Commands # <<>>
        BY <3>2, CapacityAssumption
      <4> QED
        BY <1>1, <3>2, <4>1, HeadTailProperties
    <3> QED
      BY <3>1, <3>2
  <2>3. FlattenSeq(kept) \in Seq(Byte)
    BY <2>2, FlattenTyped
  <2>4. Held' = FlattenSeq(kept) \o line /\ Held' \in Seq(Byte)
    <3>1. FlattenSeq(Append(kept, line)) = FlattenSeq(kept) \o line
      BY <1>2, <2>2, FlattenAppend
    <3> HIDE DEF kept, line
    <3>2. FlattenSeq(kept) \o line \in Seq(Byte)
      BY <1>2, <2>3
    <3>3. (FlattenSeq(kept) \o line) \o <<>> = FlattenSeq(kept) \o line
      BY <3>2, NothingAdded
    <3>4. Held' = FlattenSeq(Commands') \o Partial'
      BY DEF Held, Stored
    <3> QED
      BY <2>1, <3>1, <3>2, <3>3, <3>4
  <2>5. CASE Len(Commands) < MaxWriteOps
    <3>1. kept = Commands
      BY <2>5
    <3> HIDE DEF kept, line, buf
    <3>2. Held \o req[t].buf = <<>> \o Held' /\ <<>> \in Seq(Byte)
      BY <1>2, <2>4, <3>1 DEF Stored, buf
    <3> QED
      BY <2>4, <3>2
  <2>6. CASE ~(Len(Commands) < MaxWriteOps)
    <3>1. kept = Tail(Commands) /\ Commands # <<>> /\ dev.circular_buffer.full
      <4>1. Commands # <<>>
        BY <2>6, CapacityAssumption
      <4> QED
        BY <1>1, <2>6, <4>1, RoomForCommand
    <3>2. Stored = Head(Commands) \o FlattenSeq(kept)
      <4>1. Stored = Head(Commands) \o FlattenSeq(Tail(Commands))
        BY <1>1, <3>1, FlattenTail DEF Stored
      <4> HIDE DEF kept
      <4> QED
        BY <3>1, <4>1
    <3>3. Head(Commands) \in Seq(Byte)
      BY <1>1, <3>1, HeadTailProperties
    <3> DEFINE h == Head(Commands)
               k == FlattenSeq(kept)
    <3> HIDE DEF line, kept, buf
    <3>4. (h \o k) \o line = h \o (k \o line)
      <4>1. h \in Seq(Byte) /\ k \in Seq(Byte) /\ line \in Seq(Byte)
        BY <1>2, <2>3, <3>3
      <4> HIDE DEF h, k
      <4> QED
        BY <4>1, ConcatAssociative
    <3> HIDE DEF h, k
    <3>5. Held \o req[t].buf = h \o Held' /\ h \in Seq(Byte)
      BY <1>2, <2>4, <3>2, <3>3, <3>4 DEF h, k, buf
    <3>6. ~CachePartial(t)
      BY <1>4 DEF AddCommand, CachePartial
    <3> QED
      BY <2>4, <3>1, <3>5, <3>6
  <2> QED
    BY <2>5, <2>6
<1> QED
  BY <1>3, <1>4

\* As long as there is room the stream, its commands and where they end only grow.
LEMMA StoreExtends ==
  ASSUME StreamInv, NEW t \in Thread, AddCommand(t) \/ CachePartial(t),
         frame[t].retval = Len(req[t].buf),
         CachePartial(t) \/ ~dev.circular_buffer.full
  PROVE  /\ \E more \in Seq(Byte) : Stored' = Stored \o more
         /\ Stored' \in Seq(Byte) /\ Len(Stored) <= Len(Stored')
         /\ Len(Commands) <= Len(Commands')
         /\ \A k \in 0 .. Len(Commands) : SubSeq(Commands', 1, k) = SubSeq(Commands, 1, k)
         /\ dev'.circular_buffer.out_offs = dev.circular_buffer.out_offs
         /\ AddCommand(t) => Len(Stored) + Len(req[t].buf) <= Len(Stored')
<1> DEFINE buf == req[t].buf
           line == Partial \o buf
<1>1. /\ Commands \in Seq(Seq(Byte)) /\ Partial \in Seq(Byte) /\ Stored \in Seq(Byte)
      /\ buf \in Seq(Byte) /\ loaded
  BY InvariantTyped, WholeStore
<1>2. CASE CachePartial(t)
  <2>1. ~AddCommand(t)
    BY <1>2 DEF AddCommand, CachePartial
  <2>2. /\ Commands' = Commands /\ Stored' = Stored
        /\ dev'.circular_buffer = dev.circular_buffer
    BY <1>2, WholeStore DEF Stored
  <2>3. Stored' = Stored \o <<>> /\ <<>> \in Seq(Byte)
    BY <1>1, <2>2, NothingAdded
  <2>4. Len(Stored) <= Len(Stored') /\ Len(Commands) <= Len(Commands') /\ Stored' \in Seq(Byte)
    BY <1>1, <2>2
  <2>5. \A k \in 0 .. Len(Commands) : SubSeq(Commands', 1, k) = SubSeq(Commands, 1, k)
    BY <2>2
  <2> QED
    BY <2>1, <2>2, <2>3, <2>4, <2>5
<1>3. CASE AddCommand(t)
  <2>1. ~dev.circular_buffer.full
    BY <1>3 DEF AddCommand, CachePartial
  <2>2. Commands' = Append(Commands, line) /\ dev'.circular_buffer.out_offs = dev.circular_buffer.out_offs
    BY <1>1, <1>3, <2>1, WholeStore, RoomForCommand
  <2>3. line \in Seq(Byte) /\ Len(line) = Len(Partial) + Len(buf) /\ Len(Partial) \in Nat
        /\ Len(buf) \in Nat
    BY <1>1
  <2> HIDE DEF line, buf
  <2>4. Stored' = Stored \o line
    BY <1>1, <2>2, <2>3, FlattenAppend DEF Stored
  <2>5. Stored' \in Seq(Byte) /\ Len(Stored') = Len(Stored) + Len(line) /\ Len(Stored) \in Nat
    <3> DEFINE s == Stored
    <3>1. s \in Seq(Byte)
      BY <1>1
    <3> HIDE DEF s
    <3>2. s \o line \in Seq(Byte) /\ Len(s \o line) = Len(s) + Len(line) /\ Len(s) \in Nat
      BY <2>3, <3>1
    <3> QED
      BY <2>4, <3>2 DEF s
  <2>6. \A k \in 0 .. Len(Commands) : SubSeq(Commands', 1, k) = SubSeq(Commands, 1, k)
    <3> DEFINE cs == Commands
    <3>1. cs \in Seq(Seq(Byte))
      BY <1>1
    <3> HIDE DEF cs
    <3>2. \A k \in 0 .. Len(cs) : SubSeq(Append(cs, line), 1, k) = SubSeq(cs, 1, k)
      BY <2>3, <3>1
    <3> QED
      BY <2>2, <3>2 DEF cs
  <2>7. Len(Commands) <= Len(Commands')
    BY <1>1, <2>2
  <2>8. Len(Stored) <= Len(Stored') /\ Len(Stored) + Len(req[t].buf) <= Len(Stored')
    <3>1. Len(Stored) + Len(buf) <= Len(Stored') /\ Len(Stored) <= Len(Stored')
      BY <2>3, <2>5
    <3> QED
      BY <3>1 DEF buf
  <2> QED
    BY <2>2, <2>3, <2>4, <2>5, <2>6, <2>7, <2>8
<1> QED
  BY <1>2, <1>3

\* What a read of at least one byte gives: the next bytes of the stream, and none
\* only at its end.
LEMMA CopiesNext ==
  ASSUME StreamInv, NEW t \in Thread, CopyOut(t), req[t].count > 0
  PROVE  LET pos   == frame[t].pos
             given == frame'[t].given
         IN  /\ pos \in Nat /\ given \in Seq(Byte) /\ Len(given) \in Nat
             /\ frame'[t].retval = Len(given) /\ frame'[t].pos = pos + Len(given)
             /\ pos >= Len(Stored) => given = <<>>
             /\ pos < Len(Stored) => /\ given # <<>> /\ pos + Len(given) <= Len(Stored)
                                     /\ given = SubSeq(Stored, pos + 1, pos + Len(given))
<1> DEFINE pos == frame[t].pos
           count == req[t].count
           bytes == Excerpt(pos, count)
<1>1. /\ loaded /\ req[t].op = "read"
      /\ frame' = [frame EXCEPT ![t].given = bytes, ![t].retval = Len(bytes),
                                ![t].pos = @ + Len(bytes)]
  <2>1. pc[t] # "user" /\ req[t].op = "read"
    BY DEF CopyOut, At
  <2>2. loaded
    BY <2>1, InsideIsLoaded DEF StreamInv, HeapInv
  <2> QED
    BY <2>1, <2>2 DEF CopyOut
<1>2. pos \in Nat /\ count \in Nat /\ frame \in [Thread -> Frame]
  <2>1. req[t] \in Request /\ frame \in [Thread -> Frame]
    <3>1. pc[t] # "user"
      BY DEF CopyOut, At
    <3> QED
      BY <3>1, InsideIsLoaded DEF StreamInv, HeapInv, Typed
  <2> QED
    BY <1>1, <2>1, CallAssumption DEF Request, Frame
<1> HIDE DEF bytes
<1>3. frame'[t].given = bytes /\ frame'[t].retval = Len(bytes)
      /\ frame'[t].pos = pos + Len(bytes)
  BY <1>1, <1>2 DEF Frame
<1>4. Stored \in Seq(Byte) /\ Len(Stored) \in Nat
  BY InvariantTyped
<1>5. CASE pos >= Len(Stored)
  <2>1. bytes = <<>>
    BY <1>1, <1>2, <1>5, ExcerptIs DEF StreamInv, Stored, bytes
  <2> QED
    BY <1>2, <1>3, <1>4, <1>5, <2>1
<1>6. CASE ~(pos >= Len(Stored))
  <2>1. PICK end \in pos .. Len(Stored) :
          bytes = SubSeq(Stored, pos + 1, end) /\ (count > 0 => end > pos)
    BY <1>1, <1>2, <1>6, ExcerptIs DEF StreamInv, Stored, bytes
  <2> DEFINE s == Stored
  <2>2. s \in Seq(Byte) /\ end \in Nat /\ end > pos /\ end <= Len(s) /\ pos < Len(s)
    BY <1>2, <1>4, <1>6, <2>1
  <2> HIDE DEF s, pos, count
  <2>3. SubSeq(s, pos + 1, end) \in Seq(Byte) /\ Len(SubSeq(s, pos + 1, end)) = end - pos
    BY <1>2, <2>2
  <2>4. /\ bytes \in Seq(Byte) /\ Len(bytes) = end - pos /\ pos + Len(bytes) = end
        /\ Len(bytes) \in Nat /\ Len(bytes) > 0
    BY <1>2, <2>1, <2>2, <2>3 DEF s
  <2>5. bytes # <<>>
    BY <2>4
  <2>6. ~(pos >= Len(s)) /\ pos + Len(bytes) <= Len(s)
    BY <1>2, <2>2, <2>4
  <2>7. bytes = SubSeq(s, pos + 1, pos + Len(bytes))
    BY <2>1, <2>4 DEF s
  <2>8. /\ pos \in Nat /\ frame'[t].given \in Seq(Byte) /\ Len(frame'[t].given) \in Nat
        /\ frame'[t].retval = Len(frame'[t].given)
        /\ frame'[t].pos = pos + Len(frame'[t].given)
        /\ ~(pos >= Len(s)) /\ frame'[t].given # <<>> /\ pos + Len(frame'[t].given) <= Len(s)
        /\ frame'[t].given = SubSeq(s, pos + 1, pos + Len(frame'[t].given))
    BY <1>2, <1>3, <2>4, <2>5, <2>6, <2>7
  <2> QED
    BY <2>8 DEF s, pos
<1> QED
  BY <1>5, <1>6
=============================================================================
