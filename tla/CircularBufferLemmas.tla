------------------------ MODULE CircularBufferLemmas ------------------------
(***************************************************************************)
(* What the operators of CircularBufferOps.tla yield, for every capacity a *)
(* uint8_t can count.                                                      *)
(***************************************************************************)
EXTENDS CircularBufferOps, InductionLemmas, FiniteSetTheorems

\* Going round once: the remainder by the capacity subtracts it at most once.
LEMMA WrapOnce ==
  ASSUME NEW x \in 0 .. 2 * MaxWriteOps - 1
  PROVE  x % MaxWriteOps = IF x < MaxWriteOps THEN x ELSE x - MaxWriteOps
BY CapacityAssumption, Z3

\* The slot that lies k past slot o.
LEMMA TurnedOnce ==
  ASSUME NEW o \in Index, NEW k \in Index
  PROVE  (o + k) % MaxWriteOps = IF o + k < MaxWriteOps THEN o + k
                                 ELSE o + k - MaxWriteOps
<1>1. o + k \in 0 .. 2 * MaxWriteOps - 1
  BY CapacityAssumption DEF Index
<1> QED
  BY <1>1, WrapOnce, CapacityAssumption DEF Index

\* A slot's successor is a slot: the next one, or the first after the last.
LEMMA NextOffsValue ==
  ASSUME NEW i \in Index
  PROVE  /\ NextOffs(i) \in Index
         /\ NextOffs(i) = IF i = MaxWriteOps - 1 THEN 0 ELSE i + 1
BY WrapOnce, CapacityAssumption DEF NextOffs, Index

\* The initial buffer is a well-formed empty one.
LEMMA InitialBuffer == EmptyBuffer \in Buffer
BY CapacityAssumption DEF EmptyBuffer, EmptyEntry, Buffer, Entry, Index

\* Adding an entry yields a well-formed buffer, field by field.
LEMMA AddEntryFields ==
  ASSUME NEW b \in Buffer, NEW e \in Entry
  PROVE  /\ AddEntry(b, e) \in Buffer
         /\ \A i \in Index :
              AddEntry(b, e).entry[i] = IF i = b.in_offs THEN e ELSE b.entry[i]
         /\ AddEntry(b, e).in_offs = NextOffs(b.in_offs)
         /\ AddEntry(b, e).out_offs =
              IF b.full THEN NextOffs(b.out_offs) ELSE b.out_offs
         /\ AddEntry(b, e).full =
              (b.full \/ AddEntry(b, e).in_offs = AddEntry(b, e).out_offs)
<1>1. b.in_offs \in Index /\ b.out_offs \in Index /\ b.full \in BOOLEAN
      /\ b.entry \in [Index -> Entry]
  BY DEF Buffer
<1>2. NextOffs(b.in_offs) \in Index /\ NextOffs(b.out_offs) \in Index
  BY <1>1, NextOffsValue
<1> QED
  BY <1>1, <1>2 DEF AddEntry, Buffer

\* Where the k-th entry of the log lies: past out_offs, wrapping at most once.
LEMMA VisitedValue ==
  ASSUME NEW b \in Buffer, NEW k \in Index
  PROVE  /\ Visited(b, k) \in Index
         /\ Visited(b, k) = IF b.out_offs + k < MaxWriteOps
                            THEN b.out_offs + k
                            ELSE b.out_offs + k - MaxWriteOps
<1>1. b.out_offs \in Index
  BY DEF Buffer
<1>2. Visited(b, k) = IF b.out_offs + k < MaxWriteOps THEN b.out_offs + k
                       ELSE b.out_offs + k - MaxWriteOps
  BY <1>1, TurnedOnce DEF Visited
<1> QED
  BY <1>1, <1>2, CapacityAssumption DEF Index

----------------------------------------------------------------------------
(* Running sums.                                                           *)

\* What the accumulating loops compute: from 0, one length more at each slot.
LEMMA RunningSumSteps ==
  ASSUME NEW len \in [Index -> Nat]
  PROVE  /\ RunningSum(len) \in [0 .. MaxWriteOps -> Nat]
         /\ RunningSum(len)[0] = 0
         /\ \A k \in 1 .. MaxWriteOps :
              RunningSum(len)[k] = RunningSum(len)[k - 1] + len[k - 1]
<1> DEFINE N == MaxWriteOps
           step == [x \in (1 .. N) \X Nat |-> x[2] + len[x[1] - 1]]
           Rule(f) == [k \in 0 .. N |-> IF k = 0 THEN 0 ELSE f[k - 1] + len[k - 1]]
           sum == CHOOSE f : f = Rule(f)
<1>1. N \in Nat /\ 0 \in 0 .. N /\ \A k \in 1 .. N : k - 1 \in 0 .. N /\ len[k - 1] \in Nat
  BY CapacityAssumption DEF Index
<1>2. step \in [(1 .. N) \X Nat -> Nat]
  BY <1>1
<1>3. \A k \in 1 .. N, s \in Nat : step[<<k, s>>] = s + len[k - 1]
  OBVIOUS
<1> HIDE DEF N, step
<1>4. PICK f \in [0 .. N -> Nat] : Follow(f, 0, N, step)
  BY <1>1, <1>2, RecursionExists
<1>5. f[0] = 0 /\ \A k \in 1 .. N : f[k] = f[k - 1] + len[k - 1]
  BY <1>1, <1>3, <1>4 DEF Follow
<1>6. f = Rule(f)
  BY <1>1, <1>5
<1>7. sum = Rule(sum)
  <2> HIDE DEF Rule
  <2> QED
    BY <1>6
<1>8. RunningSum(len) = sum
  BY DEF RunningSum, N
<1>9. /\ \A k \in 1 .. N : sum[k] = sum[k - 1] + len[k - 1]
      /\ sum[0] = 0 /\ sum = [k \in 0 .. N |-> sum[k]]
  <2> HIDE DEF sum
  <2>1. sum = [k \in 0 .. N |-> IF k = 0 THEN 0 ELSE sum[k - 1] + len[k - 1]]
    BY <1>7
  <2>2. \A k \in 0 .. N : sum[k] = IF k = 0 THEN 0 ELSE sum[k - 1] + len[k - 1]
    BY <2>1
  <2>3. sum = [k \in 0 .. N |-> sum[k]]
    BY <2>1, <2>2
  <2>4. sum[0] = 0
    BY <1>1, <2>2
  <2>5. ASSUME NEW k \in 1 .. N PROVE sum[k] = sum[k - 1] + len[k - 1]
    <3>1. k \in 0 .. N /\ k # 0
      BY <1>1
    <3> QED
      BY <2>2, <3>1
  <2> QED
    BY <2>3, <2>4, <2>5
<1> HIDE DEF sum
<1>10. \A k \in 0 .. N : sum[k] \in Nat
  <2> DEFINE S == {k \in Nat : k <= N => sum[k] \in Nat}
  <2>1. 0 \in S
    BY <1>9
  <2>2. ASSUME NEW k \in Nat, k \in S PROVE k + 1 \in S
    <3> SUFFICES ASSUME k + 1 <= N PROVE sum[k + 1] \in Nat
      OBVIOUS
    <3>1. k + 1 \in 1 .. N /\ (k + 1) - 1 = k /\ sum[k] \in Nat
      BY <1>1, <2>2
    <3>2. sum[k + 1] = sum[k] + len[k] /\ len[k] \in Nat
      BY <1>1, <1>9, <3>1
    <3> QED
      BY <3>1, <3>2
  <2>3. \A k \in Nat : k \in S
    <3> HIDE DEF S
    <3> QED
      BY <2>1, <2>2, SetInduction
  <2> QED
    BY <1>1, <2>3
<1> QED
  BY <1>8, <1>9, <1>10 DEF N

\* The sums grow, and stay as they are over slots without a byte.
LEMMA RunningSumGrows ==
  ASSUME NEW len \in [Index -> Nat], NEW m \in 0 .. MaxWriteOps,
         NEW k \in 0 .. MaxWriteOps, m <= k
  PROVE  /\ RunningSum(len)[m] <= RunningSum(len)[k]
         /\ (\A i \in Index : i >= m => len[i] = 0)
              => RunningSum(len)[k] = RunningSum(len)[m]
<1> DEFINE sum == RunningSum(len)
           S == {d \in Nat : m + d <= MaxWriteOps =>
                   /\ sum[m] <= sum[m + d]
                   /\ (\A i \in Index : i >= m => len[i] = 0) => sum[m + d] = sum[m]}
<1>1. MaxWriteOps \in Nat
  BY CapacityAssumption
<1>2. /\ \A i \in 0 .. MaxWriteOps : sum[i] \in Nat
      /\ \A i \in 1 .. MaxWriteOps : sum[i] = sum[i - 1] + len[i - 1]
  BY RunningSumSteps
<1> HIDE DEF sum
<1>3. 0 \in S
  BY <1>2
<1>4. ASSUME NEW d \in Nat, d \in S PROVE d + 1 \in S
  <2> SUFFICES ASSUME m + (d + 1) <= MaxWriteOps
               PROVE /\ sum[m] <= sum[m + (d + 1)]
                     /\ (\A i \in Index : i >= m => len[i] = 0)
                          => sum[m + (d + 1)] = sum[m]
    OBVIOUS
  <2>1. m + d \in Index /\ len[m + d] \in Nat /\ m + d >= m
    BY <1>1 DEF Index
  <2>2. sum[m + (d + 1)] = sum[m + d] + len[m + d]
    <3>1. m + (d + 1) \in 1 .. MaxWriteOps /\ (m + (d + 1)) - 1 = m + d
      BY <1>1
    <3> QED
      BY <1>2, <3>1
  <2>3. sum[m + d] \in Nat /\ sum[m] \in Nat
    BY <1>1, <1>2
  <2>4. sum[m] <= sum[m + d]
        /\ ((\A i \in Index : i >= m => len[i] = 0) => sum[m + d] = sum[m])
    BY <1>1, <1>4
  <2> QED
    BY <2>1, <2>2, <2>3, <2>4
<1>5. k - m \in S
  <2>1. \A d \in Nat : d \in S
    <3> HIDE DEF S
    <3> QED
      BY <1>3, <1>4, SetInduction
  <2> QED
    BY <1>1, <2>1
<1>6. m + (k - m) = k
  BY <1>1
<1> QED
  BY <1>1, <1>5, <1>6 DEF sum

\* Going round from slot o adds up to what going from the first slot does.
LEMMA RunningSumTurns ==
  ASSUME NEW len \in [Index -> Nat], NEW turned \in [Index -> Nat], NEW o \in Index,
         \A k \in Index : turned[k] = len[(o + k) % MaxWriteOps]
  PROVE  RunningSum(turned)[MaxWriteOps] = RunningSum(len)[MaxWriteOps]
<1> DEFINE N == MaxWriteOps
           s == RunningSum(len)
           r == RunningSum(turned)
           Turned(k) == IF o + k <= N THEN s[o + k] - s[o]
                        ELSE s[N] - s[o] + s[o + k - N]
           S == {k \in Nat : k <= N => r[k] = Turned(k)}
<1>1. N \in Nat /\ N # 0 /\ o \in 0 .. N - 1
  BY CapacityAssumption DEF Index
<1>2. /\ \A i \in 0 .. N : s[i] \in Nat /\ r[i] \in Nat
      /\ s[0] = 0 /\ r[0] = 0
      /\ \A i \in 1 .. N : s[i] = s[i - 1] + len[i - 1]
      /\ \A i \in 1 .. N : r[i] = r[i - 1] + turned[i - 1]
  BY RunningSumSteps
<1> HIDE DEF s, r
<1>3. 0 \in S
  BY <1>1, <1>2
<1>4. ASSUME NEW k \in Nat, k \in S PROVE k + 1 \in S
  <2> SUFFICES ASSUME k + 1 <= N PROVE r[k + 1] = Turned(k + 1)
    OBVIOUS
  <2>1. k \in Index /\ r[k] = Turned(k)
    BY <1>1, <1>4 DEF Index
  <2>2. r[k + 1] = r[k] + turned[k]
    <3>1. k + 1 \in 1 .. N /\ (k + 1) - 1 = k
      BY <1>1
    <3> QED
      BY <1>2, <3>1
  <2>3. turned[k] = len[IF o + k < N THEN o + k ELSE o + k - N]
    BY <2>1, TurnedOnce DEF N
  <2>4. CASE o + k < N
    <3>1. o + k + 1 \in 1 .. N /\ (o + k + 1) - 1 = o + k /\ o + (k + 1) = o + k + 1
      BY <1>1, <2>4
    <3>2. s[o + k + 1] = s[o + k] + len[o + k]
      BY <1>2, <3>1
    <3>3. s[o + k] \in Nat /\ s[o] \in Nat /\ len[o + k] \in Nat
      BY <1>1, <1>2, <2>4 DEF Index
    <3>4. Turned(k) = s[o + k] - s[o] /\ Turned(k + 1) = s[o + k + 1] - s[o]
      BY <1>1, <2>4, <3>1
    <3> QED
      BY <2>1, <2>2, <2>3, <2>4, <3>2, <3>3, <3>4
  <2>5. CASE o + k >= N
    <3>1. /\ o + k - N + 1 \in 1 .. N /\ (o + k - N + 1) - 1 = o + k - N
          /\ o + (k + 1) - N = o + k - N + 1 /\ ~(o + (k + 1) <= N)
          /\ o + k - N \in Index /\ o + k - N \in 0 .. N
      BY <1>1, <2>1, <2>5 DEF Index
    <3>2. s[o + k - N + 1] = s[o + k - N] + len[o + k - N]
      BY <1>2, <3>1
    <3>3. s[o + k - N] \in Nat /\ s[o] \in Nat /\ s[N] \in Nat /\ len[o + k - N] \in Nat
      BY <1>1, <1>2, <3>1
    <3>4. Turned(k + 1) = s[N] - s[o] + s[o + k - N + 1]
      BY <3>1
    <3>5. Turned(k) = s[N] - s[o] + s[o + k - N]
      <4>1. CASE o + k = N
        BY <1>1, <1>2, <3>3, <4>1
      <4>2. CASE o + k # N
        BY <1>1, <2>5, <4>2
      <4> QED
        BY <4>1, <4>2
    <3>6. turned[k] = len[o + k - N]
      BY <1>1, <2>1, <2>3, <2>5
    <3> QED
      BY <2>1, <2>2, <3>2, <3>3, <3>4, <3>5, <3>6
  <2> QED
    BY <1>1, <2>4, <2>5
<1>5. N \in S
  <2>1. \A k \in Nat : k \in S
    <3> HIDE DEF S
    <3> QED
      BY <1>3, <1>4, SetInduction
  <2> QED
    BY <1>1, <2>1
<1>6. r[N] = Turned(N)
  BY <1>1, <1>5
<1>7. Turned(N) = s[N]
  <2>1. s[N] \in Nat /\ s[o] \in Nat /\ o + N - N = o
    BY <1>1, <1>2
  <2>2. CASE o = 0
    BY <1>1, <1>2, <2>1, <2>2
  <2>3. CASE o # 0
    BY <1>1, <2>1, <2>3
  <2> QED
    BY <2>2, <2>3
<1> QED
  BY <1>6, <1>7 DEF s, r

----------------------------------------------------------------------------
(* The log.                                                                *)

\* A consistent buffer's log: all slots once it is full, else those below
\* in_offs, from out_offs on.
LEMMA LogOfBuffer ==
  ASSUME NEW b \in Buffer, Agree(b)
  PROVE  /\ Filled(b) = IF b.full THEN MaxWriteOps ELSE b.in_offs
         /\ Filled(b) \in 0 .. MaxWriteOps
         /\ LogOf(b) \in Seq(Entry)
         /\ Len(LogOf(b)) = Filled(b)
         /\ \A i \in 1 .. Filled(b) :
              LogOf(b)[i] = b.entry[Visited(b, i - 1)]
<1>0. b.in_offs \in 0 .. MaxWriteOps - 1
  BY DEF Buffer, Index
<1>1. b.full \in BOOLEAN /\ b.entry \in [Index -> Entry]
  BY DEF Buffer
<1>2. Filled(b) = IF b.full THEN MaxWriteOps ELSE b.in_offs
  <2>1. CASE b.full
    BY <2>1 DEF Filled
  <2>2. CASE ~b.full
    <3>1. b.out_offs = 0
      BY <2>2 DEF Agree
    <3>2. b.in_offs \in 0 .. 2 * MaxWriteOps - 1 /\ b.in_offs < MaxWriteOps
      BY <1>0, CapacityAssumption
    <3>3. b.in_offs % MaxWriteOps = b.in_offs
      BY <3>2, WrapOnce
    <3>4. b.in_offs - b.out_offs = b.in_offs
      BY <3>1, <3>2, CapacityAssumption
    <3> QED
      BY <2>2, <3>3, <3>4 DEF Filled
  <2> QED
    BY <1>1, <2>1, <2>2
<1>3. Filled(b) \in 0 .. MaxWriteOps
  BY <1>0, <1>2, CapacityAssumption
<1>4. \A i \in 1 .. Filled(b) : b.entry[Visited(b, i - 1)] \in Entry
  <2> TAKE i \in 1 .. Filled(b)
  <2>1. i - 1 \in Index
    BY <1>3, CapacityAssumption DEF Index
  <2> QED
    BY <1>1, <2>1, VisitedValue
<1>5. LogOf(b) \in Seq(Entry) /\ Len(LogOf(b)) = Filled(b)
  BY <1>3, <1>4, CapacityAssumption DEF LogOf
<1> QED
  BY <1>2, <1>3, <1>5 DEF LogOf

----------------------------------------------------------------------------
(* What an add keeps.                                                      *)

\* No slot without a pointer has kept a size: so after the memset, and as long
\* as slots are only filled.
NoStaleSize(b) ==
  \A i \in Index : b.entry[i].buffptr = NULL => b.entry[i].size = 0

\* The initial buffer has no slot in use.
LEMMA InitialBufferFree ==
  /\ Agree(EmptyBuffer) /\ SlotsApart(EmptyBuffer) /\ NoStaleSize(EmptyBuffer)
  /\ SlotMemory(EmptyBuffer) = {}
BY CapacityAssumption
DEF Agree, SlotsApart, NoStaleSize, SlotMemory, EmptyBuffer, EmptyEntry, Index

\* What an add returns is what the slot it overwrites has pointed to.
LEMMA ReplacedIsOverwritten ==
  ASSUME NEW b \in Buffer, Agree(b)
  PROVE  ReplacedBuffer(b) = b.entry[b.in_offs].buffptr
<1>1. b.in_offs \in Index /\ b.full \in BOOLEAN
  BY DEF Buffer
<1>2. ~b.full => b.entry[b.in_offs].buffptr = NULL
  BY <1>1, CapacityAssumption DEF Agree, Index
<1> QED
  BY <1>1, <1>2 DEF ReplacedBuffer

\* An add keeps the offsets and the full flag in agreement with the slots.
LEMMA AddKeepsAgreement ==
  ASSUME NEW b \in Buffer, NEW e \in Entry, e.buffptr # NULL, Agree(b)
  PROVE  Agree(AddEntry(b, e))
<1> DEFINE c == AddEntry(b, e)
<1>1. b.in_offs \in Index /\ b.out_offs \in Index
      /\ b.full \in BOOLEAN /\ b.entry \in [Index -> Entry]
  BY DEF Buffer
<1>2. /\ c \in Buffer
      /\ \A i \in Index : c.entry[i] = IF i = b.in_offs THEN e ELSE b.entry[i]
      /\ c.in_offs = NextOffs(b.in_offs)
      /\ c.out_offs = IF b.full THEN NextOffs(b.out_offs) ELSE b.out_offs
      /\ c.full = (b.full \/ c.in_offs = c.out_offs)
  BY AddEntryFields
<1>3. NextOffs(b.in_offs) = IF b.in_offs = MaxWriteOps - 1 THEN 0 ELSE b.in_offs + 1
  BY <1>1, NextOffsValue
<1>4. /\ b.full => b.in_offs = b.out_offs
      /\ ~b.full => b.out_offs = 0
      /\ \A i \in Index : b.entry[i].buffptr # NULL <=> b.full \/ i < b.in_offs
  BY DEF Agree
<1> HIDE DEF c
<1>5. /\ c.full => c.in_offs = c.out_offs
      /\ ~c.full => c.out_offs = 0
  BY <1>1, <1>2, <1>4
<1>6. ASSUME NEW i \in Index
      PROVE  c.entry[i].buffptr # NULL <=> c.full \/ i < c.in_offs
  <2>1. c.entry[i].buffptr # NULL <=> i = b.in_offs \/ b.entry[i].buffptr # NULL
    <3>1. c.entry[i] = IF i = b.in_offs THEN e ELSE b.entry[i]
      BY <1>2
    <3> QED
      BY <3>1
  <2>2. CASE b.full
    BY <1>2, <1>4, <2>1, <2>2
  <2>3. CASE ~b.full /\ b.in_offs = MaxWriteOps - 1
    <3>1. c.full
      BY <1>2, <1>3, <1>4, <2>3
    <3>2. i = b.in_offs \/ i < b.in_offs
      BY <2>3, CapacityAssumption DEF Index
    <3> QED
      BY <1>4, <2>1, <3>1, <3>2
  <2>4. CASE ~b.full /\ b.in_offs # MaxWriteOps - 1
    <3>1. c.in_offs = b.in_offs + 1 /\ c.out_offs = 0
      BY <1>2, <1>3, <1>4, <2>4
    <3>2. ~c.full
      BY <1>1, <1>2, <2>4, <3>1, CapacityAssumption DEF Index
    <3>3. i < c.in_offs <=> i = b.in_offs \/ i < b.in_offs
      BY <1>1, <3>1, CapacityAssumption DEF Index
    <3> QED
      BY <1>4, <2>1, <2>4, <3>2, <3>3
  <2> QED
    BY <1>1, <2>2, <2>3, <2>4
<1> QED
  BY <1>5, <1>6 DEF Agree, c

\* An add of memory that no slot points to keeps the slots' memory apart, and
\* what goes in and what is returned account for what the slots point to.
LEMMA AddKeepsMemory ==
  ASSUME NEW b \in Buffer, NEW e \in Entry, e.buffptr # NULL,
         e.buffptr \notin SlotMemory(b), Agree(b), SlotsApart(b)
  PROVE  /\ SlotMemory(AddEntry(b, e)) =
              (SlotMemory(b) \cup {e.buffptr}) \ {ReplacedBuffer(b)}
         /\ SlotsApart(AddEntry(b, e))
         /\ NoStaleSize(b) => NoStaleSize(AddEntry(b, e))
<1> DEFINE c == AddEntry(b, e)
           in == b.in_offs
           ptr(i) == b.entry[i].buffptr
<1>1. in \in Index
  BY DEF Buffer
<1>2. \A i \in Index : c.entry[i] = IF i = in THEN e ELSE b.entry[i]
  BY AddEntryFields
<1> HIDE DEF c
<1>3. \A i \in Index : c.entry[i].buffptr = IF i = in THEN e.buffptr ELSE ptr(i)
  BY <1>2
<1>4. \A i, j \in Index : ptr(i) = ptr(j) => i = j \/ ptr(i) = NULL
  BY DEF SlotsApart
<1>5. ReplacedBuffer(b) = ptr(in)
  BY ReplacedIsOverwritten
<1>6. \A i \in Index : ptr(i) # e.buffptr
  BY DEF SlotMemory
<1>7. SlotMemory(c) = (SlotMemory(b) \cup {e.buffptr}) \ {ReplacedBuffer(b)}
  <2>1. ASSUME NEW x \in (SlotMemory(b) \cup {e.buffptr}) \ {ReplacedBuffer(b)}
        PROVE  x \in SlotMemory(c)
    <3>1. CASE x = e.buffptr
      BY <1>1, <1>3, <3>1 DEF SlotMemory
    <3>2. CASE x # e.buffptr
      <4>1. PICK i \in Index : x = ptr(i) /\ x # NULL
        BY <2>1, <3>2 DEF SlotMemory
      <4>2. c.entry[i].buffptr = x
        BY <1>3, <1>5, <2>1, <4>1
      <4> QED
        BY <4>1, <4>2 DEF SlotMemory
    <3> QED
      BY <3>1, <3>2
  <2>2. ASSUME NEW i \in Index, c.entry[i].buffptr # NULL
        PROVE  c.entry[i].buffptr \in (SlotMemory(b) \cup {e.buffptr}) \ {ReplacedBuffer(b)}
    <3>1. CASE i = in
      BY <1>1, <1>3, <1>5, <1>6, <3>1
    <3>2. CASE i # in
      <4>1. c.entry[i].buffptr = ptr(i) /\ ptr(i) # NULL
        BY <1>3, <2>2, <3>2
      <4>2. ptr(i) # ptr(in)
        BY <1>1, <1>4, <3>2, <4>1
      <4>3. ptr(i) \in SlotMemory(b)
        BY <4>1 DEF SlotMemory
      <4> QED
        BY <1>5, <4>1, <4>2, <4>3
    <3> QED
      BY <3>1, <3>2
  <2>3. \A x \in SlotMemory(c) : \E i \in Index : x = c.entry[i].buffptr /\ x # NULL
    BY DEF SlotMemory
  <2>4. \A x \in SlotMemory(c) : x \in (SlotMemory(b) \cup {e.buffptr}) \ {ReplacedBuffer(b)}
    BY <2>2, <2>3
  <2> QED
    BY <2>1, <2>4
<1>8. SlotsApart(c)
  <2> SUFFICES ASSUME NEW i \in Index, NEW j \in Index, i # j, c.entry[i].buffptr # NULL
               PROVE  c.entry[i].buffptr # c.entry[j].buffptr
    BY DEF SlotsApart
  <2>1. CASE i = in
    BY <1>3, <1>6, <2>1
  <2>2. CASE i # in
    BY <1>3, <1>4, <1>6, <2>2
  <2> QED
    BY <2>1, <2>2
<1>9. NoStaleSize(b) => NoStaleSize(c)
  BY <1>2 DEF NoStaleSize
<1> QED
  BY <1>7, <1>8, <1>9 DEF c

\* There are as many addresses in the slots as the buffer holds entries.
LEMMA SlotsCounted ==
  ASSUME NEW b \in Buffer, Agree(b), SlotsApart(b)
  PROVE  IsFiniteSet(SlotMemory(b)) /\ Cardinality(SlotMemory(b)) = Filled(b)
<1> DEFINE n == Filled(b)
           used == 0 .. n - 1
           at == [i \in used |-> b.entry[i].buffptr]
<1>1. n \in 0 .. MaxWriteOps /\ n = IF b.full THEN MaxWriteOps ELSE b.in_offs
  BY LogOfBuffer
<1>2. b.in_offs \in 0 .. MaxWriteOps - 1 /\ b.full \in BOOLEAN
  BY DEF Buffer, Index
<1>3. used \subseteq Index
  BY <1>1, CapacityAssumption DEF Index
<1>4. \A i \in Index : b.entry[i].buffptr # NULL <=> i \in used
  <2> TAKE i \in Index
  <2>1. b.entry[i].buffptr # NULL <=> b.full \/ i < b.in_offs
    BY DEF Agree
  <2>2. i \in used <=> b.full \/ i < b.in_offs
    <3>1. CASE b.full
      BY <1>1, <3>1, CapacityAssumption DEF Index
    <3>2. CASE ~b.full
      BY <1>1, <1>2, <3>2, CapacityAssumption DEF Index
    <3> QED
      BY <3>1, <3>2, <1>2
  <2> QED
    BY <2>1, <2>2
<1> HIDE DEF n
<1>5. IsFiniteSet(used) /\ Cardinality(used) = n
  <2>1. n - 1 \in Int /\ 0 \in Int
    BY <1>1, CapacityAssumption
  <2>2. IsFiniteSet(used) /\ Cardinality(used) = IF 0 > n - 1 THEN 0 ELSE (n - 1) - 0 + 1
    BY <2>1, FS_Interval
  <2> HIDE DEF used
  <2> QED
    BY <1>1, <2>2, CapacityAssumption
<1> HIDE DEF used
<1>6. at \in Bijection(used, SlotMemory(b))
  <2>1. \A i \in used : at[i] \in SlotMemory(b)
    BY <1>3, <1>4 DEF SlotMemory
  <2>2. at \in [used -> SlotMemory(b)]
    BY <2>1
  <2>3. \A i, j \in used : at[i] = at[j] => i = j
    BY <1>3, <1>4 DEF SlotsApart
  <2>4. \A x \in SlotMemory(b) : \E i \in used : at[i] = x
    BY <1>4 DEF SlotMemory
  <2> QED
    BY <2>2, <2>3, <2>4 DEF Bijection, Injection, Surjection, IsInjective
<1>7. ExistsBijection(used, SlotMemory(b))
  BY <1>6 DEF ExistsBijection
<1> QED
  BY <1>5, <1>7, FS_Bijection DEF n

\* With room left, adding e to a buffer appends e to its log.
LEMMA AddGrows ==
  ASSUME NEW b \in Buffer, NEW e \in Entry,
         Agree(b), Agree(AddEntry(b, e)), ~b.full
  PROVE  /\ Len(LogOf(b)) < MaxWriteOps
         /\ LogOf(AddEntry(b, e)) = Append(LogOf(b), e)
<1> DEFINE c == AddEntry(b, e)
<1>1. b.in_offs \in Index /\ b.out_offs = 0
  BY DEF Buffer, Agree
<1>2. /\ c \in Buffer
      /\ \A i \in Index : c.entry[i] = IF i = b.in_offs THEN e ELSE b.entry[i]
      /\ c.in_offs = NextOffs(b.in_offs)
      /\ c.out_offs = 0
      /\ c.full = (c.in_offs = 0)
  BY <1>1, AddEntryFields
<1>3. Filled(b) = b.in_offs /\ Len(LogOf(b)) = b.in_offs /\ LogOf(b) \in Seq(Entry)
      /\ \A i \in 1 .. b.in_offs : LogOf(b)[i] = b.entry[Visited(b, i - 1)]
  BY LogOfBuffer
<1>4. Filled(c) = b.in_offs + 1
  <2>1. c.in_offs = IF b.in_offs = MaxWriteOps - 1 THEN 0 ELSE b.in_offs + 1
    BY <1>1, <1>2, NextOffsValue
  <2>2. Filled(c) = IF c.full THEN MaxWriteOps ELSE c.in_offs
    BY <1>2, LogOfBuffer
  <2>3. Filled(c) = IF c.in_offs = 0 THEN MaxWriteOps ELSE c.in_offs
    BY <1>2, <2>2
  <2> HIDE DEF c
  <2> QED
    BY <1>1, <2>1, <2>3, CapacityAssumption DEF Index
<1>5. LogOf(c) \in Seq(Entry) /\ Len(LogOf(c)) = b.in_offs + 1
      /\ \A i \in 1 .. b.in_offs + 1 : LogOf(c)[i] = c.entry[Visited(c, i - 1)]
  BY <1>2, <1>4, LogOfBuffer
<1>6. ASSUME NEW i \in 1 .. b.in_offs + 1
      PROVE  LogOf(c)[i] = Append(LogOf(b), e)[i]
  <2>1. i - 1 \in Index /\ Visited(b, i - 1) = i - 1 /\ Visited(c, i - 1) = i - 1
    <3>1. i - 1 \in Index /\ 0 + (i - 1) = i - 1 /\ i - 1 < MaxWriteOps
      BY <1>1, CapacityAssumption DEF Index
    <3>2. Visited(b, i - 1) = i - 1
      BY <1>1, <3>1, VisitedValue
    <3>3. Visited(c, i - 1) = i - 1
      BY <1>2, <3>1, VisitedValue
    <3> QED
      BY <3>1, <3>2, <3>3
  <2>2. LogOf(c)[i] = IF i - 1 = b.in_offs THEN e ELSE b.entry[i - 1]
    BY <1>2, <1>5, <2>1
  <2>3. CASE i = b.in_offs + 1
    BY <1>1, <1>3, <2>2, <2>3, CapacityAssumption DEF Index
  <2>4. CASE i # b.in_offs + 1
    <3>1. i \in 1 .. b.in_offs
      BY <1>1, <2>4, CapacityAssumption DEF Index
    <3> QED
      BY <1>1, <1>3, <2>1, <2>2, <3>1, CapacityAssumption DEF Index
  <2> QED
    BY <2>3, <2>4
<1>7. LogOf(c) = Append(LogOf(b), e)
  <2>1. Append(LogOf(b), e) \in Seq(Entry)
    BY <1>3
  <2>2. Len(Append(LogOf(b), e)) = Len(LogOf(c))
    BY <1>3, <1>5
  <2> QED
    BY <1>5, <1>6, <2>1, <2>2, SeqEqual
<1> QED
  BY <1>1, <1>3, <1>7, CapacityAssumption DEF Index

\* With none left, the log loses its head, which in_offs points to, and gains e.
LEMMA AddSlides ==
  ASSUME NEW b \in Buffer, NEW e \in Entry,
         Agree(b), Agree(AddEntry(b, e)), b.full
  PROVE  /\ Len(LogOf(b)) = MaxWriteOps
         /\ LogOf(AddEntry(b, e)) = Append(Tail(LogOf(b)), e)
         /\ Head(LogOf(b)) = b.entry[b.in_offs]
<1> DEFINE c == AddEntry(b, e)
           N == MaxWriteOps
<1>1. b.in_offs \in Index /\ b.out_offs = b.in_offs
  BY DEF Buffer, Agree
<1>2. /\ c \in Buffer
      /\ \A i \in Index : c.entry[i] = IF i = b.in_offs THEN e ELSE b.entry[i]
      /\ c.out_offs = NextOffs(b.in_offs)
      /\ c.full
  <2>1. c.full
    BY DEF AddEntry
  <2>2. c.out_offs = IF b.full THEN NextOffs(b.out_offs) ELSE b.out_offs
    BY AddEntryFields
  <2>3. c.out_offs = NextOffs(b.in_offs)
    BY <1>1, <2>2
  <2> QED
    BY <2>1, <2>3, AddEntryFields
<1>3. LogOf(b) \in Seq(Entry) /\ Len(LogOf(b)) = N
      /\ \A i \in 1 .. N : LogOf(b)[i] = b.entry[Visited(b, i - 1)]
  BY LogOfBuffer
<1>4. LogOf(c) \in Seq(Entry) /\ Len(LogOf(c)) = N
      /\ \A i \in 1 .. N : LogOf(c)[i] = c.entry[Visited(c, i - 1)]
  BY <1>2, LogOfBuffer
<1>5. NextOffs(b.in_offs) = IF b.in_offs = N - 1 THEN 0 ELSE b.in_offs + 1
  BY <1>1, NextOffsValue
<1>6. Tail(LogOf(b)) \in Seq(Entry) /\ Len(Tail(LogOf(b))) = N - 1
      /\ \A i \in 1 .. N - 1 : Tail(LogOf(b))[i] = LogOf(b)[i + 1]
  <2>1. LogOf(b) # << >> /\ N \in Nat
    BY <1>3, CapacityAssumption
  <2> QED
    BY <1>3, <2>1, HeadTailProperties
<1>7. ASSUME NEW i \in 1 .. N
      PROVE  LogOf(c)[i] = Append(Tail(LogOf(b)), e)[i]
  <2>1. i - 1 \in Index
    BY CapacityAssumption DEF Index
  <2>2. LogOf(c)[i] = IF Visited(c, i - 1) = b.in_offs THEN e
                      ELSE b.entry[Visited(c, i - 1)]
    BY <1>2, <1>4, <2>1, VisitedValue
  <2>3. CASE i = N
    <3>1. Visited(c, i - 1) = b.in_offs
      BY <1>1, <1>2, <1>5, <2>1, <2>3, VisitedValue, CapacityAssumption DEF Index
    <3> QED
      BY <1>6, <2>2, <2>3, <3>1, CapacityAssumption
  <2>4. CASE i # N
    <3>1. i \in 1 .. N - 1 /\ i \in Index /\ i + 1 \in 1 .. N /\ (i + 1) - 1 = i
      BY <2>4, CapacityAssumption DEF Index
    <3>2. /\ Visited(b, i) = IF b.in_offs + i < N THEN b.in_offs + i
                              ELSE b.in_offs + i - N
          /\ Visited(c, i - 1) = IF c.out_offs + (i - 1) < N
                                  THEN c.out_offs + (i - 1)
                                  ELSE c.out_offs + (i - 1) - N
      BY <1>1, <1>2, <2>1, <3>1, VisitedValue
    <3>3. Visited(c, i - 1) = Visited(b, i) /\ Visited(b, i) # b.in_offs
      <4>1. c.out_offs = IF b.in_offs = N - 1 THEN 0 ELSE b.in_offs + 1
        BY <1>2, <1>5
      <4> HIDE DEF c
      <4> QED
        BY <1>1, <3>1, <3>2, <4>1, CapacityAssumption DEF Index
    <3>4. LogOf(c)[i] = LogOf(b)[i + 1]
      BY <1>3, <2>2, <3>1, <3>3
    <3> QED
      BY <1>6, <3>1, <3>4, CapacityAssumption
  <2> QED
    BY <2>3, <2>4
<1>8. LogOf(c) = Append(Tail(LogOf(b)), e)
  <2>1. Append(Tail(LogOf(b)), e) \in Seq(Entry)
    BY <1>6
  <2>2. Len(Append(Tail(LogOf(b)), e)) = Len(LogOf(c))
    BY <1>4, <1>6, CapacityAssumption
  <2> QED
    BY <1>4, <1>7, <2>1, <2>2, SeqEqual
<1>9. Head(LogOf(b)) = b.entry[b.in_offs]
  <2>1. 0 \in Index /\ 1 \in 1 .. N /\ 1 - 1 = 0
    BY CapacityAssumption DEF Index
  <2>2. Visited(b, 0) = b.in_offs
    BY <1>1, <2>1, VisitedValue, CapacityAssumption DEF Index
  <2>3. LogOf(b)[1] = b.entry[Visited(b, 0)]
    BY <1>3, <2>1
  <2> QED
    BY <1>3, <2>2, <2>3, CapacityAssumption
<1> QED
  BY <1>3, <1>8, <1>9
----------------------------------------------------------------------------
(* What a search finds and what a total adds up to.                        *)

\* cumulative_length is where the entries of the log end: it grows by the size
\* of each, and no more after the last; the total size is its last value.
LEMMA LogEnds ==
  ASSUME NEW b \in Buffer, Agree(b)
  PROVE  /\ CumulativeLength(b) \in [0 .. MaxWriteOps -> Nat]
         /\ CumulativeLength(b)[0] = 0
         /\ \A k \in 1 .. Filled(b) :
              CumulativeLength(b)[k] = CumulativeLength(b)[k - 1] + LogOf(b)[k].size
         /\ \A k \in 0 .. MaxWriteOps :
              CumulativeLength(b)[k] <= CumulativeLength(b)[Filled(b)]
         /\ NoStaleSize(b) => TotalSize(b) = CumulativeLength(b)[Filled(b)]
<1> DEFINE N == MaxWriteOps
           cum == CumulativeLength(b)
           len == VisitedSizes(b)
           n == Filled(b)
<1>1. /\ b.entry \in [Index -> Entry] /\ b.in_offs \in Index /\ b.out_offs \in Index
      /\ b.full \in BOOLEAN
  BY DEF Buffer
<1>2. \A k \in Index : Visited(b, k) \in Index
  BY VisitedValue
<1>3. \A k \in Index :
        len[k] = IF b.entry[Visited(b, k)].buffptr = NULL THEN 0
                 ELSE b.entry[Visited(b, k)].size
  BY DEF VisitedSizes
<1>4. len \in [Index -> Nat]
  <2>1. \A k \in Index : b.entry[Visited(b, k)].size \in Nat
    BY <1>1, <1>2 DEF Entry
  <2> QED
    BY <2>1 DEF VisitedSizes
<1>5. n \in 0 .. N /\ N \in Nat /\ n = IF b.full THEN N ELSE b.in_offs
  BY LogOfBuffer, CapacityAssumption
<1>6. /\ cum \in [0 .. N -> Nat] /\ cum[0] = 0
      /\ \A k \in 1 .. N : cum[k] = cum[k - 1] + len[k - 1]
  BY <1>4, RunningSumSteps DEF CumulativeLength
<1>7. ASSUME NEW k \in Index PROVE
        /\ k < n => len[k] = LogOf(b)[k + 1].size
        /\ k >= n => len[k] = 0
  <2>1. CASE k < n
    <3>1. k + 1 \in 1 .. n /\ (k + 1) - 1 = k
      BY <1>5, <2>1 DEF Index
    <3>2. LogOf(b)[k + 1] = b.entry[Visited(b, k)]
      BY <3>1, LogOfBuffer
    <3>3. b.entry[Visited(b, k)].buffptr # NULL
      <4>1. CASE b.full
        BY <1>2, <4>1 DEF Agree
      <4>2. CASE ~b.full
        <5>1. b.out_offs = 0 /\ 0 + k = k /\ k < MaxWriteOps
          BY <1>5, <4>2, <2>1 DEF Agree, Index
        <5>2. Visited(b, k) = k
          BY <5>1, VisitedValue
        <5> QED
          BY <1>5, <2>1, <4>2, <5>2 DEF Agree
      <4> QED
        BY <4>1, <4>2
    <3> QED
      BY <1>3, <2>1, <1>5, <3>2, <3>3 DEF Index
  <2>2. CASE k >= n
    <3>1. ~b.full /\ b.out_offs = 0 /\ 0 + k = k /\ k < MaxWriteOps /\ ~(k < b.in_offs)
      BY <1>1, <1>5, <2>2 DEF Agree, Index
    <3>2. Visited(b, k) = k
      BY <3>1, VisitedValue
    <3>3. b.entry[k].buffptr = NULL
      BY <3>1 DEF Agree
    <3> QED
      BY <1>3, <1>5, <2>2, <3>2, <3>3 DEF Index
  <2> QED
    BY <2>1, <2>2, <1>5 DEF Index
<1> HIDE DEF cum, len, n
<1>8. \A k \in 1 .. n : cum[k] = cum[k - 1] + LogOf(b)[k].size
  <2> TAKE k \in 1 .. n
  <2>1. k \in 1 .. N /\ k - 1 \in Index /\ k - 1 < n /\ (k - 1) + 1 = k
    BY <1>5 DEF Index
  <2>2. cum[k] = cum[k - 1] + len[k - 1]
    BY <1>6, <2>1
  <2>3. len[k - 1] = LogOf(b)[(k - 1) + 1].size
    BY <1>7, <2>1
  <2> QED
    BY <2>1, <2>2, <2>3
<1>9. \A k \in 0 .. N : (k <= n => cum[k] <= cum[n]) /\ (k >= n => cum[k] = cum[n])
  BY <1>4, <1>5, <1>7, RunningSumGrows DEF cum, len, CumulativeLength
<1>10. \A k \in 0 .. N : cum[k] <= cum[n]
  <2> TAKE k \in 0 .. N
  <2>1. cum[k] \in Nat /\ cum[n] \in Nat /\ (k <= n \/ k >= n)
    BY <1>5, <1>6
  <2> QED
    BY <1>9, <2>1
<1>11. ASSUME NoStaleSize(b) PROVE TotalSize(b) = cum[n]
  <2>1. SlotSizes(b) \in [Index -> Nat]
    BY <1>1 DEF SlotSizes, Entry
  <2>2. \A k \in Index : len[k] = SlotSizes(b)[(b.out_offs + k) % MaxWriteOps]
    <3>1. \A i \in Index : SlotSizes(b)[i] = b.entry[i].size
      BY DEF SlotSizes
    <3>2. \A k \in Index : len[k] = b.entry[Visited(b, k)].size
      BY <1>2, <1>3, <1>11 DEF NoStaleSize
    <3> QED
      BY <1>2, <3>1, <3>2 DEF Visited
  <2>3. RunningSum(len)[N] = RunningSum(SlotSizes(b))[N]
    BY <1>1, <1>4, <2>1, <2>2, RunningSumTurns
  <2>4. cum[N] = cum[n]
    BY <1>5, <1>9
  <2> QED
    BY <2>3, <2>4 DEF TotalSize, cum, len, CumulativeLength
<1> QED
  BY <1>6, <1>8, <1>10, <1>11 DEF cum, n

\* A search finds nothing from the end of the log on, and before that the byte
\* of the only entry that begins at or before the offset and ends past it.
LEMMA FindEntryResult ==
  ASSUME NEW b \in Buffer, Agree(b), NEW off \in Nat
  PROVE  IF off >= CumulativeLength(b)[Filled(b)] THEN FindEntry(b, off) = NULL
         ELSE \E k \in 1 .. Filled(b) :
                /\ CumulativeLength(b)[k - 1] <= off /\ off < CumulativeLength(b)[k]
                /\ FindEntry(b, off) =
                     [index  |-> Visited(b, k - 1),
                      offset |-> off - CumulativeLength(b)[k - 1]]
                /\ FindEntry(b, off) \in Found
<1> DEFINE N == MaxWriteOps
           cum == CumulativeLength(b)
           n == Filled(b)
           hits == {k \in Index : cum[k + 1] > off}
<1>1. n \in 0 .. N /\ N \in Nat
  BY LogOfBuffer, CapacityAssumption
<1>2. cum \in [0 .. N -> Nat] /\ cum[0] = 0 /\ \A k \in 0 .. N : cum[k] <= cum[n]
  BY LogEnds
<1>3. FindEntry(b, off) =
        IF hits = {} THEN NULL
        ELSE [index |-> Visited(b, Min(hits)), offset |-> off - cum[Min(hits)]]
  BY DEF FindEntry
<1> HIDE DEF cum, n
<1>4. CASE off >= cum[n]
  <2>1. \A k \in Index : k + 1 \in 0 .. N /\ cum[k + 1] \in Nat /\ cum[n] \in Nat
    BY <1>1, <1>2 DEF Index
  <2>2. hits = {}
    BY <1>2, <1>4, <2>1
  <2> QED
    BY <1>3, <1>4, <2>2 DEF cum, n
<1>5. CASE ~(off >= cum[n])
  <2>1. cum[n] \in Nat /\ off < cum[n] /\ n # 0
    BY <1>1, <1>2, <1>5
  <2>2. n - 1 \in hits
    BY <1>1, <2>1 DEF Index
  <2>3. hits \subseteq Nat
    BY <1>1 DEF Index
  <2> DEFINE m == Min(hits)
  <2>4. m \in hits /\ \A k \in hits : m <= k
    <3>1. \E k \in hits : \A i \in hits : k <= i
      BY <2>2, <2>3, LeastElement
    <3> QED
      BY <3>1 DEF Min
  <2>5. m \in Index /\ cum[m + 1] > off /\ m <= n - 1
    BY <2>2, <2>4
  <2>6. cum[m] <= off /\ cum[m] \in Nat
    <3> HIDE DEF m, hits
    <3>1. CASE m = 0
      BY <1>2, <3>1
    <3>2. CASE m # 0
      <4>1. m - 1 \in Index /\ ~(m <= m - 1) /\ (m - 1) + 1 = m /\ m \in 0 .. N
        BY <1>1, <2>5, <3>2 DEF Index
      <4>2. m - 1 \notin hits
        BY <2>4, <4>1
      <4>3. ~(cum[m] > off)
        BY <4>1, <4>2 DEF hits
      <4> QED
        BY <1>2, <4>1, <4>3
    <3> QED
      BY <3>1, <3>2
  <2>7. m + 1 \in 1 .. n /\ (m + 1) - 1 = m /\ off < cum[m + 1]
    <3> HIDE DEF m
    <3>1. m + 1 \in 0 .. N
      BY <1>1, <2>5 DEF Index
    <3> QED
      BY <1>1, <1>2, <2>5, <3>1 DEF Index
  <2>8. FindEntry(b, off) = [index |-> Visited(b, m), offset |-> off - cum[m]]
    BY <1>3, <2>2
  <2>9. FindEntry(b, off) \in Found
    <3>1. Visited(b, m) \in Index
      BY <2>5, VisitedValue
    <3>2. off - cum[m] \in Nat
      BY <2>6
    <3> QED
      BY <2>8, <3>1, <3>2 DEF Found
  <2> HIDE DEF m
  <2> QED
    BY <1>5, <2>6, <2>7, <2>8, <2>9 DEF cum, n
<1> QED
  BY <1>4, <1>5 DEF cum, n
=============================================================================
