--------------------------- MODULE InductionLemmas ---------------------------
(***************************************************************************)
(* Induction over the natural numbers in the form of facts about sets, and *)
(* what it says of functions that are defined by recursion.                *)
(***************************************************************************)
EXTENDS Integers, SequencesExt, SequenceTheorems, WellFoundedInduction, TLAPS

\* A set of naturals has a least element, unless it is empty.
LEMMA LeastElement ==
  ASSUME NEW T, T \subseteq Nat, T # {}
  PROVE  \E n \in T : \A m \in T : n <= m
<1> DEFINE before == {p \in Nat \X Nat : p[1] < p[2]}
<1>1. IsWellFoundedOn(before, Nat)
  <2>1. OpToRel(<, Nat) = before
    BY DEF OpToRel
  <2> QED
    BY <2>1, NatLessThanWellFounded
<1>2. PICK n \in T : \A m \in T : <<m, n>> \notin before
  <2> HIDE DEF before
  <2> QED
    BY <1>1, WFMin
<1>3. \A m \in T : ~(m < n)
  BY <1>2
<1> QED
  BY <1>3

\* A set of naturals that has 0 and all successors is all of Nat.
LEMMA SetInduction ==
  ASSUME NEW S, 0 \in S, \A n \in Nat : n \in S => n + 1 \in S
  PROVE  \A n \in Nat : n \in S
<1> SUFFICES ASSUME Nat \ S # {} PROVE FALSE
  OBVIOUS
<1>1. PICK n \in Nat \ S : \A m \in Nat \ S : n <= m
  BY LeastElement
<1>2. n - 1 \in Nat /\ n - 1 \in S
  BY <1>1
<1> QED
  BY <1>1, <1>2

\* f starts with start, and step gives every value up to the n-th from the one
\* before it.
Follow(f, start, n, step) ==
  f[0] = start /\ \A k \in 1 .. n : f[k] = step[<<k, f[k - 1]>>]

\* Such a function exists: what a recursive definition needs.
LEMMA RecursionExists ==
  ASSUME NEW T, NEW start \in T, NEW n \in Nat, NEW step \in [(1 .. n) \X T -> T]
  PROVE  \E f \in [0 .. n -> T] : Follow(f, start, n, step)
<1> USE DEF Follow
<1> DEFINE S == {m \in Nat : m <= n => \E f \in [0 .. m -> T] : Follow(f, start, m, step)}
<1>1. 0 \in S
  <2>1. Follow([k \in 0 .. 0 |-> start], start, 0, step)
    OBVIOUS
  <2> QED
    BY <2>1
<1>2. ASSUME NEW m \in Nat, m \in S PROVE m + 1 \in S
  <2> SUFFICES ASSUME m + 1 <= n
               PROVE  \E g \in [0 .. m + 1 -> T] : Follow(g, start, m + 1, step)
    OBVIOUS
  <2>1. PICK f \in [0 .. m -> T] : Follow(f, start, m, step)
    BY <1>2
  <2> DEFINE g == [k \in 0 .. m + 1 |-> IF k = m + 1 THEN step[<<k, f[m]>>] ELSE f[k]]
  <2>2. <<m + 1, f[m]>> \in (1 .. n) \X T
    BY <2>1
  <2>3. g \in [0 .. m + 1 -> T]
    BY <2>1, <2>2
  <2>4. Follow(g, start, m + 1, step)
    BY <2>1
  <2> QED
    BY <2>3, <2>4
<1>3. n \in S
  <2> HIDE DEF S
  <2> QED
    BY <1>1, <1>2, SetInduction
<1> QED
  BY <1>3

----------------------------------------------------------------------------
(* FlattenSeq puts sequences end to end: each begins where the lengths of  *)
(* those before it add up to.                                              *)

\* It appends them one after the other.
LEMMA FlattenSteps ==
  ASSUME NEW E, NEW seqs \in Seq(Seq(E)), seqs # <<>>
  PROVE  \E f \in [1 .. Len(seqs) -> Seq(E)] :
           /\ f[1] = seqs[1] /\ \A i \in 2 .. Len(seqs) : f[i] = f[i - 1] \o seqs[i]
           /\ FlattenSeq(seqs) = f[Len(seqs)]
<1> DEFINE n == Len(seqs)
           step == [x \in (1 .. n) \X Seq(E) |-> x[2] \o seqs[x[1]]]
           Rule(f) == [i \in 1 .. n |-> IF i = 1 THEN seqs[i] ELSE f[i - 1] \o seqs[i]]
           flatten == CHOOSE f : f = Rule(f)
<1>1. n \in Nat /\ n # 0 /\ \A i \in 1 .. n : seqs[i] \in Seq(E)
  OBVIOUS
<1>2. step \in [(1 .. n) \X Seq(E) -> Seq(E)]
  BY <1>1
<1>3. \A k \in 1 .. n, s \in Seq(E) : step[<<k, s>>] = s \o seqs[k]
  OBVIOUS
<1>4. <<>> \in Seq(E)
  OBVIOUS
<1> HIDE DEF n, step
<1>5. PICK f \in [0 .. n -> Seq(E)] : Follow(f, <<>>, n, step)
  BY <1>1, <1>2, <1>4, RecursionExists
<1>6. \A k \in 1 .. n : f[k] = f[k - 1] \o seqs[k]
  <2> TAKE k \in 1 .. n
  <2>1. k - 1 \in 0 .. n
    BY <1>1
  <2> QED
    BY <1>3, <1>5, <2>1 DEF Follow
<1>7. f[1] = seqs[1]
  <2>1. <<>> \o seqs[1] = seqs[1]
    BY <1>1
  <2>2. 1 \in 1 .. n /\ 1 - 1 = 0
    BY <1>1
  <2> QED
    BY <1>5, <1>6, <2>1, <2>2 DEF Follow
<1> DEFINE g == [k \in 1 .. n |-> f[k]]
<1>8. g = Rule(g)
  <2>1. \A k \in 1 .. n : k # 1 => k - 1 \in 1 .. n
    BY <1>1
  <2> QED
    BY <1>6, <1>7, <2>1
<1>9. flatten = Rule(flatten)
  <2> HIDE DEF Rule, g
  <2> QED
    BY <1>8
<1>10. \A k \in 1 .. n : flatten[k] = IF k = 1 THEN seqs[1] ELSE flatten[k - 1] \o seqs[k]
  <2> HIDE DEF flatten
  <2> QED
    BY <1>9
<1>11. \A k \in 1 .. n : flatten[k] = f[k]
  <2> DEFINE S == {k \in Nat : k + 1 \in 1 .. n => flatten[k + 1] = f[k + 1]}
  <2> HIDE DEF flatten
  <2>1. 0 \in S
    BY <1>7, <1>10
  <2>2. ASSUME NEW k \in Nat, k \in S PROVE k + 1 \in S
    <3> SUFFICES ASSUME k + 2 \in 1 .. n PROVE flatten[k + 2] = f[k + 2]
      OBVIOUS
    <3>1. flatten[k + 1] = f[k + 1]
      BY <1>1, <2>2
    <3>2. k + 2 # 1 /\ (k + 2) - 1 = k + 1
      OBVIOUS
    <3>3. flatten[k + 2] = flatten[k + 1] \o seqs[k + 2]
      BY <1>10, <3>2
    <3>4. f[k + 2] = f[k + 1] \o seqs[k + 2]
      BY <1>6, <3>2
    <3> QED
      BY <3>1, <3>3, <3>4
  <2>3. \A k \in Nat : k \in S
    <3> HIDE DEF S
    <3> QED
      BY <2>1, <2>2, SetInduction
  <2> TAKE k \in 1 .. n
  <2>4. k - 1 \in Nat /\ (k - 1) + 1 = k
    BY <1>1
  <2>5. k - 1 \in S
    BY <2>3, <2>4
  <2> QED
    BY <2>4, <2>5
<1>12. FlattenSeq(seqs) = flatten[n]
  BY <1>1 DEF FlattenSeq, n
<1>13. FlattenSeq(seqs) = g[n] /\ g \in [1 .. n -> Seq(E)]
  <2> HIDE DEF flatten
  <2> QED
    BY <1>1, <1>11, <1>12
<1>14. g[1] = seqs[1] /\ \A i \in 2 .. n : g[i] = g[i - 1] \o seqs[i]
  <2>1. 1 \in 1 .. n /\ \A i \in 2 .. n : i \in 1 .. n /\ i - 1 \in 1 .. n
    BY <1>1
  <2> QED
    BY <1>6, <1>7, <2>1
<1> QED
  <2> HIDE DEF g
  <2> QED
    BY <1>13, <1>14 DEF n

\* ends[i] is where the i-th sequence ends when they are put end to end.
Ends(seqs, ends) ==
  /\ ends \in [0 .. Len(seqs) -> Nat]
  /\ ends[0] = 0
  /\ \A i \in 1 .. Len(seqs) : ends[i] = ends[i - 1] + Len(seqs[i])

\* Each sequence ends where or after those before it do.
LEMMA EndsGrow ==
  ASSUME NEW E, NEW seqs \in Seq(Seq(E)), NEW ends, Ends(seqs, ends)
  PROVE  \A k \in 0 .. Len(seqs) : \A i \in 0 .. k : ends[i] <= ends[k]
<1> DEFINE n == Len(seqs)
           S == {k \in Nat : k <= n => \A i \in 0 .. k : ends[i] <= ends[k]}
<1>1. n \in Nat /\ \A i \in 1 .. n : seqs[i] \in Seq(E) /\ Len(seqs[i]) \in Nat
  OBVIOUS
<1>2. /\ \A i \in 0 .. n : ends[i] \in Nat
      /\ \A i \in 1 .. n : ends[i] = ends[i - 1] + Len(seqs[i])
  BY DEF Ends
<1> HIDE DEF n
<1>3. \A i \in 1 .. n : ends[i - 1] <= ends[i]
  <2> TAKE i \in 1 .. n
  <2>1. i - 1 \in 0 .. n
    BY <1>1
  <2> QED
    BY <1>1, <1>2, <2>1
<1>4. 0 \in S
  BY <1>1, <1>2
<1>5. ASSUME NEW k \in Nat, k \in S PROVE k + 1 \in S
  <2> SUFFICES ASSUME k + 1 <= n, NEW i \in 0 .. k + 1 PROVE ends[i] <= ends[k + 1]
    OBVIOUS
  <2>1. ends[k] <= ends[k + 1] /\ ends[k] \in Nat /\ ends[k + 1] \in Nat /\ ends[i] \in Nat
    BY <1>1, <1>2, <1>3
  <2>2. CASE i = k + 1
    BY <2>1, <2>2
  <2>3. CASE i # k + 1
    <3>1. ends[i] <= ends[k]
      BY <1>1, <1>5, <2>3
    <3> QED
      BY <2>1, <3>1
  <2> QED
    BY <2>2, <2>3
<1>6. \A k \in Nat : k \in S
  <2> HIDE DEF S
  <2> QED
    BY <1>4, <1>5, SetInduction
<1> QED
  BY <1>1, <1>6 DEF n

\* Where the elements of two sequences are in the two put together.
LEMMA ConcatAt ==
  ASSUME NEW E, NEW s \in Seq(E), NEW t \in Seq(E)
  PROVE  /\ s \o t \in Seq(E) /\ Len(s \o t) = Len(s) + Len(t)
         /\ \A i \in 1 .. Len(s) : (s \o t)[i] = s[i]
         /\ \A j \in 1 .. Len(t) : (s \o t)[Len(s) + j] = t[j]
<1>1. Len(s) \in Nat /\ Len(t) \in Nat
  OBVIOUS
<1>2. /\ s \o t \in Seq(E) /\ Len(s \o t) = Len(s) + Len(t)
      /\ \A i \in 1 .. Len(s) + Len(t) :
           (s \o t)[i] = IF i <= Len(s) THEN s[i] ELSE t[i - Len(s)]
  BY ConcatProperties
<1>3. ASSUME NEW i \in 1 .. Len(s) PROVE (s \o t)[i] = s[i]
  BY <1>1, <1>2
<1>4. ASSUME NEW j \in 1 .. Len(t) PROVE (s \o t)[Len(s) + j] = t[j]
  <2>1. /\ Len(s) + j \in 1 .. Len(s) + Len(t)
        /\ ~(Len(s) + j <= Len(s)) /\ (Len(s) + j) - Len(s) = j
    BY <1>1
  <2> QED
    BY <1>2, <2>1
<1> QED
  BY <1>2, <1>3, <1>4

\* All of them put together: the length, and where each element is.
LEMMA FlattenOffsets ==
  ASSUME NEW E, NEW seqs \in Seq(Seq(E)), NEW ends, Ends(seqs, ends)
  PROVE  /\ FlattenSeq(seqs) \in Seq(E)
         /\ Len(FlattenSeq(seqs)) = ends[Len(seqs)]
         /\ \A i \in 1 .. Len(seqs) : \A j \in 1 .. Len(seqs[i]) :
              /\ ends[i - 1] + j <= ends[i] /\ ends[i] <= ends[Len(seqs)]
              /\ FlattenSeq(seqs)[ends[i - 1] + j] = seqs[i][j]
<1> DEFINE n == Len(seqs)
<1>1. n \in Nat
  OBVIOUS
<1>2. \A i \in 1 .. n : seqs[i] \in Seq(E) /\ Len(seqs[i]) \in Nat
  OBVIOUS
<1>3. (\A i \in 0 .. n : ends[i] \in Nat)
      /\ ends[0] = 0 /\ (\A i \in 1 .. n : ends[i] = ends[i - 1] + Len(seqs[i]))
  BY DEF Ends
<1>4. \A k \in 0 .. n : \A i \in 0 .. k : ends[i] <= ends[k]
  BY EndsGrow
<1>5. CASE seqs = <<>>
  <2>1. FlattenSeq(seqs) = <<>> /\ n = 0 /\ <<>> \in Seq(E) /\ Len(<<>>) = 0
    BY <1>5 DEF FlattenSeq
  <2> QED
    BY <1>3, <2>1
<1>6. CASE seqs # <<>>
  <2>1. PICK f \in [1 .. n -> Seq(E)] :
          /\ f[1] = seqs[1] /\ \A i \in 2 .. n : f[i] = f[i - 1] \o seqs[i]
          /\ FlattenSeq(seqs) = f[n]
    BY <1>6, FlattenSteps
  <2>2. n # 0
    BY <1>6
  <2> DEFINE Good(k) == /\ Len(f[k]) = ends[k]
                        /\ \A i \in 1 .. k : \A j \in 1 .. Len(seqs[i]) :
                             f[k][ends[i - 1] + j] = seqs[i][j]
             S == {k \in Nat : k + 1 <= n => Good(k + 1)}
  <2> HIDE DEF n
  <2>3. 0 \in S
    <3>1. 1 \in 1 .. n /\ 1 - 1 = 0 /\ \A i \in 1 .. 1 : i = 1
      BY <1>1, <2>2
    <3>2. \A j \in Nat : 0 + j = j
      OBVIOUS
    <3>3. Good(1)
      BY <1>2, <1>3, <2>1, <3>1, <3>2
    <3>4. 0 + 1 = 1
      OBVIOUS
    <3> HIDE DEF Good
    <3> QED
      BY <3>3, <3>4
  <2>4. ASSUME NEW p \in 1 .. n, p + 1 <= n, Good(p) PROVE Good(p + 1)
    <3> DEFINE q == p + 1
    <3>1. q \in 2 .. n /\ q - 1 = p /\ q \in 1 .. n /\ p \in 0 .. n
          /\ \A i \in 1 .. q : i = q \/ i \in 1 .. p
      BY <1>1, <2>4
    <3> HIDE DEF q
    <3>2. f[q] = f[p] \o seqs[q] /\ f[p] \in Seq(E) /\ seqs[q] \in Seq(E)
      BY <1>2, <2>1, <3>1
    <3>3. /\ Len(f[q]) = Len(f[p]) + Len(seqs[q])
          /\ \A i \in 1 .. Len(f[p]) : f[q][i] = f[p][i]
          /\ \A j \in 1 .. Len(seqs[q]) : f[q][Len(f[p]) + j] = seqs[q][j]
      BY <3>2, ConcatAt
    <3>4. Len(f[p]) = ends[p]
      BY <2>4
    <3>5. Len(f[q]) = ends[q]
      BY <1>3, <3>1, <3>3, <3>4
    <3>6. ASSUME NEW i \in 1 .. p, NEW j \in 1 .. Len(seqs[i])
          PROVE  f[q][ends[i - 1] + j] = seqs[i][j]
      <4>1. i \in 1 .. n /\ i - 1 \in 0 .. n /\ i \in 0 .. n /\ i \in 0 .. p
        BY <1>1, <3>1
      <4>2. /\ ends[i] = ends[i - 1] + Len(seqs[i]) /\ ends[i] <= ends[p]
            /\ ends[i - 1] \in Nat /\ ends[i] \in Nat /\ ends[p] \in Nat
            /\ Len(seqs[i]) \in Nat
        BY <1>2, <1>3, <1>4, <3>1, <4>1
      <4>3. ends[i - 1] + j \in 1 .. Len(f[p])
        BY <3>4, <4>2
      <4>4. f[p][ends[i - 1] + j] = seqs[i][j]
        BY <2>4
      <4> QED
        BY <3>3, <4>3, <4>4
    <3>7. ASSUME NEW j \in 1 .. Len(seqs[q]) PROVE f[q][ends[q - 1] + j] = seqs[q][j]
      BY <3>1, <3>3, <3>4
    <3>8. Good(q)
      BY <3>1, <3>5, <3>6, <3>7
    <3> QED
      BY <3>8 DEF q
  <2>5. ASSUME NEW k \in Nat, k \in S PROVE k + 1 \in S
    <3> SUFFICES ASSUME (k + 1) + 1 <= n PROVE Good((k + 1) + 1)
      OBVIOUS
    <3>1. k + 1 \in 1 .. n /\ k + 1 <= n
      BY <1>1
    <3>2. Good(k + 1)
      BY <2>5, <3>1
    <3> HIDE DEF Good
    <3> QED
      BY <2>4, <3>1, <3>2
  <2>6. \A k \in Nat : k \in S
    <3> HIDE DEF S
    <3> QED
      BY <2>3, <2>5, SetInduction
  <2>7. Good(n)
    <3>1. n - 1 \in Nat /\ (n - 1) + 1 = n /\ n <= n
      BY <1>1, <2>2
    <3>2. n - 1 \in S
      BY <2>6, <3>1
    <3> HIDE DEF Good
    <3> QED
      BY <3>1, <3>2
  <2>8. FlattenSeq(seqs) \in Seq(E)
    BY <1>1, <2>1, <2>2
  <2>9. ASSUME NEW i \in 1 .. n, NEW j \in 1 .. Len(seqs[i])
        PROVE  ends[i - 1] + j <= ends[i] /\ ends[i] <= ends[n]
    <3>1. i \in 0 .. n /\ i - 1 \in 0 .. n /\ n \in 0 .. n
      BY <1>1
    <3>2. ends[i] <= ends[n] /\ ends[i] = ends[i - 1] + Len(seqs[i]) /\ ends[i - 1] \in Nat
          /\ Len(seqs[i]) \in Nat
      BY <1>2, <1>3, <1>4, <3>1
    <3> QED
      BY <3>2
  <2> QED
    BY <2>1, <2>7, <2>8, <2>9 DEF n
<1> QED
  BY <1>5, <1>6

\* The first k of them put together end where the k-th does.
LEMMA PrefixEnds ==
  ASSUME NEW E, NEW seqs \in Seq(Seq(E)), NEW ends, Ends(seqs, ends),
         NEW k \in 0 .. Len(seqs)
  PROVE  Len(FlattenSeq(SubSeq(seqs, 1, k))) = ends[k]
<1> DEFINE first == SubSeq(seqs, 1, k)
           firstEnds == [i \in 0 .. k |-> ends[i]]
<1>1. Len(seqs) \in Nat /\ k \in Nat /\ k <= Len(seqs)
  OBVIOUS
<1>2. /\ first \in Seq(Seq(E)) /\ Len(first) = k
      /\ \A i \in 1 .. k : first[i] = seqs[i]
  <2>1. Len(first) = k
    BY <1>1, SubSeqProperties
  <2>2. \A i \in 1 .. k : first[i] = seqs[1 + i - 1] /\ 1 + i - 1 = i
    BY <1>1, SubSeqProperties
  <2>3. first \in Seq(Seq(E))
    BY <1>1, SubSeqProperties
  <2> QED
    BY <2>1, <2>2, <2>3
<1>3. Ends(first, firstEnds)
  <2> HIDE DEF first
  <2>1. \A i \in 0 .. k : ends[i] \in Nat
    BY <1>1 DEF Ends
  <2>2. ASSUME NEW i \in 1 .. k PROVE firstEnds[i] = firstEnds[i - 1] + Len(first[i])
    <3>1. i \in 1 .. Len(seqs) /\ i \in 0 .. k /\ i - 1 \in 0 .. k
      BY <1>1
    <3> QED
      BY <1>2, <3>1 DEF Ends
  <2>3. firstEnds[0] = 0
    BY <1>1 DEF Ends
  <2>4. firstEnds \in [0 .. k -> Nat]
    BY <2>1
  <2> QED
    BY <1>2, <2>2, <2>3, <2>4 DEF Ends
<1> HIDE DEF first, firstEnds
<1>4. Len(FlattenSeq(first)) = firstEnds[k]
  BY <1>2, <1>3, FlattenOffsets
<1> QED
  BY <1>1, <1>4 DEF first, firstEnds

\* Nothing put together.
LEMMA NothingFlat == FlattenSeq(<<>>) = <<>>
BY DEF FlattenSeq

LEMMA FlattenTyped ==
  ASSUME NEW E, NEW seqs \in Seq(Seq(E))
  PROVE  FlattenSeq(seqs) \in Seq(E)
<1>1. CASE seqs = <<>>
  <2>1. <<>> \in Seq(E)
    OBVIOUS
  <2> QED
    BY <1>1, <2>1, NothingFlat
<1>2. CASE seqs # <<>>
  <2>1. PICK f \in [1 .. Len(seqs) -> Seq(E)] : FlattenSeq(seqs) = f[Len(seqs)]
    BY <1>2, FlattenSteps
  <2>2. Len(seqs) \in 1 .. Len(seqs)
    BY <1>2
  <2> QED
    BY <2>1, <2>2
<1> QED
  BY <1>1, <1>2

\* One more at the end.
LEMMA FlattenAppend ==
  ASSUME NEW E, NEW seqs \in Seq(Seq(E)), NEW x \in Seq(E)
  PROVE  FlattenSeq(Append(seqs, x)) = FlattenSeq(seqs) \o x
<1> DEFINE n == Len(seqs)
           more == Append(seqs, x)
<1>1. /\ n \in Nat /\ more \in Seq(Seq(E)) /\ Len(more) = n + 1 /\ more # <<>>
      /\ more[n + 1] = x /\ \A i \in 1 .. n : more[i] = seqs[i]
  <2>1. /\ more \in Seq(Seq(E)) /\ Len(more) = n + 1
        /\ more[n + 1] = x /\ \A i \in 1 .. n : more[i] = seqs[i]
    BY AppendProperties
  <2>2. n \in Nat
    OBVIOUS
  <2>3. Len(<<>>) = 0
    OBVIOUS
  <2> HIDE DEF n, more
  <2> QED
    BY <2>1, <2>2, <2>3
<1> HIDE DEF more
<1>2. PICK f \in [1 .. n + 1 -> Seq(E)] :
        /\ f[1] = more[1] /\ \A i \in 2 .. n + 1 : f[i] = f[i - 1] \o more[i]
        /\ FlattenSeq(more) = f[n + 1]
  <2>1. more \in Seq(Seq(E)) /\ more # <<>> /\ Len(more) = n + 1
    BY <1>1
  <2> HIDE DEF n
  <2>2. \E f \in [1 .. Len(more) -> Seq(E)] :
          /\ f[1] = more[1] /\ \A i \in 2 .. Len(more) : f[i] = f[i - 1] \o more[i]
          /\ FlattenSeq(more) = f[Len(more)]
    BY <2>1, FlattenSteps
  <2> QED
    BY <2>1, <2>2
<1>3. CASE seqs = <<>>
  <2>1. FlattenSeq(more) = x /\ n = 0
    <3>1. n = 0
      BY <1>3
    <3> QED
      BY <1>1, <1>2, <3>1
  <2>2. FlattenSeq(seqs) = <<>>
    BY <1>3, NothingFlat
  <2>3. <<>> \o x = x
    OBVIOUS
  <2> QED
    BY <2>1, <2>2, <2>3 DEF more
<1>4. CASE seqs # <<>>
  <2>1. PICK g \in [1 .. n -> Seq(E)] :
          /\ g[1] = seqs[1] /\ \A i \in 2 .. n : g[i] = g[i - 1] \o seqs[i]
          /\ FlattenSeq(seqs) = g[n]
    BY <1>4, FlattenSteps
  <2>2. n # 0
    BY <1>4
  <2> DEFINE S == {k \in Nat : k + 1 <= n => f[k + 1] = g[k + 1]}
  <2> HIDE DEF n
  <2>3. 0 \in S
    BY <1>1, <1>2, <2>1, <2>2
  <2>4. ASSUME NEW k \in Nat, k \in S PROVE k + 1 \in S
    <3> SUFFICES ASSUME (k + 1) + 1 <= n PROVE f[(k + 1) + 1] = g[(k + 1) + 1]
      OBVIOUS
    <3> DEFINE m == (k + 1) + 1
    <3>1. /\ m \in 2 .. n /\ m \in 2 .. n + 1 /\ m \in 1 .. n /\ m - 1 = k + 1
      BY <1>1
    <3>2. f[k + 1] = g[k + 1]
      BY <1>1, <2>4
    <3> HIDE DEF m
    <3>3. f[m] = f[m - 1] \o more[m] /\ g[m] = g[m - 1] \o seqs[m] /\ more[m] = seqs[m]
      BY <1>1, <1>2, <2>1, <3>1
    <3>4. f[m] = g[m]
      BY <3>1, <3>2, <3>3
    <3> QED
      BY <3>4 DEF m
  <2>5. \A k \in Nat : k \in S
    <3> HIDE DEF S
    <3> QED
      BY <2>3, <2>4, SetInduction
  <2>6. n - 1 \in Nat /\ (n - 1) + 1 = n
    BY <1>1, <2>2
  <2>7. f[n] = g[n]
    BY <2>5, <2>6
  <2>8. n + 1 \in 2 .. n + 1 /\ (n + 1) - 1 = n
    BY <1>1, <2>2
  <2> QED
    BY <1>1, <1>2, <2>1, <2>7, <2>8 DEF more
<1> QED
  BY <1>3, <1>4

\* One less at the start.
LEMMA FlattenTail ==
  ASSUME NEW E, NEW seqs \in Seq(Seq(E)), seqs # <<>>
  PROVE  FlattenSeq(seqs) = Head(seqs) \o FlattenSeq(Tail(seqs))
<1> DEFINE n == Len(seqs)
           rest == Tail(seqs)
<1>1. /\ n \in Nat /\ n # 0 /\ rest \in Seq(Seq(E)) /\ Len(rest) = n - 1
      /\ Head(seqs) = seqs[1] /\ \A i \in 1 .. n - 1 : rest[i] = seqs[i + 1]
      /\ \A i \in 1 .. n : seqs[i] \in Seq(E)
  OBVIOUS
<1>2. PICK f \in [1 .. n -> Seq(E)] :
        /\ f[1] = seqs[1] /\ \A i \in 2 .. n : f[i] = f[i - 1] \o seqs[i]
        /\ FlattenSeq(seqs) = f[n]
  BY FlattenSteps
<1> HIDE DEF rest
<1>3. CASE n = 1
  <2>1. rest = <<>>
    BY <1>1, <1>3
  <2>2. FlattenSeq(rest) = <<>>
    BY <2>1, NothingFlat
  <2>3. Head(seqs) \o <<>> = Head(seqs)
    BY <1>1
  <2> QED
    BY <1>1, <1>2, <1>3, <2>2, <2>3 DEF rest
<1>4. CASE n # 1
  <2>1. n - 1 \in Nat /\ n - 1 # 0 /\ rest # <<>>
    BY <1>1, <1>4
  <2>2. PICK g \in [1 .. n - 1 -> Seq(E)] :
          /\ g[1] = rest[1] /\ \A i \in 2 .. n - 1 : g[i] = g[i - 1] \o rest[i]
          /\ FlattenSeq(rest) = g[n - 1]
    <3>1. rest \in Seq(Seq(E)) /\ rest # <<>> /\ Len(rest) = n - 1
      BY <1>1, <2>1
    <3> HIDE DEF n
    <3>2. \E g \in [1 .. Len(rest) -> Seq(E)] :
            /\ g[1] = rest[1] /\ \A i \in 2 .. Len(rest) : g[i] = g[i - 1] \o rest[i]
            /\ FlattenSeq(rest) = g[Len(rest)]
      BY <3>1, FlattenSteps
    <3> QED
      BY <3>1, <3>2
  <2> HIDE DEF n
  <2> DEFINE S == {k \in Nat : k + 2 <= n => f[k + 2] = seqs[1] \o g[k + 1]}
  <2>3. 0 \in S
    <3>1. /\ 2 \in 2 .. n /\ 2 - 1 = 1 /\ 1 \in 1 .. n - 1 /\ 1 + 1 = 2
          /\ 0 + 2 = 2 /\ 0 + 1 = 1
      BY <1>1, <2>1
    <3>2. f[2] = f[1] \o seqs[2] /\ rest[1] = seqs[2]
      BY <1>1, <1>2, <3>1
    <3>3. f[2] = seqs[1] \o g[1]
      BY <1>2, <2>2, <3>2
    <3> QED
      BY <3>1, <3>3
  <2>4. ASSUME NEW k \in Nat, k \in S PROVE k + 1 \in S
    <3>0. k + 2 <= n => f[k + 2] = seqs[1] \o g[k + 1]
      BY <2>4
    <3>9. ASSUME (k + 1) + 2 <= n PROVE f[(k + 1) + 2] = seqs[1] \o g[(k + 1) + 1]
      <4> HIDE DEF S
      <4> DEFINE m == (k + 1) + 2
                 l == (k + 1) + 1
      <4>1. /\ m \in 2 .. n /\ l \in 2 .. n - 1 /\ l \in 1 .. n - 1 /\ k + 1 \in 1 .. n - 1
            /\ m - 1 = l /\ l - 1 = k + 1 /\ l + 1 = m /\ k + 2 = l
            /\ 1 \in 1 .. n /\ m \in 1 .. n
        BY <1>1, <3>9
      <4>2. f[k + 2] = seqs[1] \o g[k + 1]
        <5>1. n \in Nat
          BY <1>1
        <5>2. k + 2 <= n
          BY <3>9, <5>1
        <5> QED
          BY <3>0, <5>2
      <4> HIDE DEF m, l
      <4>3. f[m] = (seqs[1] \o g[k + 1]) \o seqs[m]
        BY <1>2, <4>1, <4>2
      <4>4. g[l] = g[k + 1] \o seqs[m]
        BY <1>1, <2>2, <4>1
      <4>5. seqs[1] \in Seq(E) /\ g[k + 1] \in Seq(E) /\ seqs[m] \in Seq(E)
        BY <1>1, <2>2, <4>1
      <4>6. (seqs[1] \o g[k + 1]) \o seqs[m] = seqs[1] \o (g[k + 1] \o seqs[m])
        <5> DEFINE x == seqs[1]
                   y == g[k + 1]
                   z == seqs[m]
        <5>1. x \in Seq(E) /\ y \in Seq(E) /\ z \in Seq(E)
          BY <4>5
        <5> HIDE DEF x, y, z
        <5>2. (x \o y) \o z = x \o (y \o z)
          BY <5>1, ConcatAssociative
        <5> QED
          BY <5>2 DEF x, y, z
      <4>7. f[m] = seqs[1] \o g[l]
        BY <4>3, <4>4, <4>6
      <4> QED
        BY <4>7 DEF m, l
    <3>10. k + 1 \in Nat
      OBVIOUS
    <3> QED
      BY <3>9, <3>10
  <2>5. \A k \in Nat : k \in S
    <3> HIDE DEF S
    <3> QED
      BY <2>3, <2>4, SetInduction
  <2>6. n - 2 \in Nat /\ (n - 2) + 2 = n /\ (n - 2) + 1 = n - 1
    BY <1>1, <2>1
  <2>7. f[n] = seqs[1] \o g[n - 1]
    <3>1. n - 2 \in S
      BY <2>5, <2>6
    <3>2. (n - 2) + 2 <= n
      BY <1>1, <2>6
    <3>3. f[(n - 2) + 2] = seqs[1] \o g[(n - 2) + 1]
      BY <3>1, <3>2
    <3> QED
      BY <2>6, <3>3
  <2> QED
    BY <1>1, <1>2, <2>2, <2>7 DEF rest
<1> QED
  BY <1>3, <1>4
=============================================================================
