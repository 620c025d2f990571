-------------------------- MODULE AesdSocketProofs --------------------------
(***************************************************************************)
(* Proofs about AesdSocket.tla for any number of connections: what becomes *)
(* of the threads the server starts, whoever joins and frees them.         *)
(***************************************************************************)
EXTENDS AesdSocketProperties, InductionLemmas, SequenceTheorems, FiniteSetTheorems, TLAPS

----------------------------------------------------------------------------
(* Lists without duplicates.                                               *)

\* What a list holds.
LEMMA ListMembers ==
  ASSUME NEW S, NEW s \in Seq(S)
  PROVE  /\ ToSet(s) = {s[i] : i \in 1 .. Len(s)} /\ ToSet(s) \subseteq S
         /\ \A x : Contains(s, x) <=> x \in ToSet(s)
         /\ IsInjective(s) <=> \A i, j \in 1 .. Len(s) : s[i] = s[j] => i = j
<1>1. DOMAIN s = 1 .. Len(s) /\ \A i \in 1 .. Len(s) : s[i] \in S
  BY LenProperties
<1> QED
  BY <1>1 DEF ToSet, Contains, IsInjective

\* SLIST_INSERT_HEAD of what is not in the list.
LEMMA Pushed ==
  ASSUME NEW S, NEW s \in Seq(S), NEW x \in S
  PROVE  /\ <<x>> \o s \in Seq(S)
         /\ ToSet(<<x>> \o s) = ToSet(s) \cup {x}
         /\ IsInjective(s) /\ x \notin ToSet(s) => IsInjective(<<x>> \o s)
<1> DEFINE l == <<x>> \o s
           n == Len(s)
<1>1. <<x>> \in Seq(S) /\ Len(<<x>>) = 1 /\ <<x>>[1] = x /\ n \in Nat
  OBVIOUS
<1>2. /\ l \in Seq(S) /\ Len(l) = 1 + n
      /\ \A i \in 1 .. 1 + n : l[i] = IF i <= 1 THEN <<x>>[i] ELSE s[i - 1]
  BY <1>1, ConcatProperties
<1>3. /\ l[1] = x /\ \A i \in 2 .. n + 1 : i - 1 \in 1 .. n /\ l[i] = s[i - 1]
  BY <1>1, <1>2
<1> HIDE DEF l, n
<1>4. ToSet(s) = {s[i] : i \in 1 .. n} /\ ToSet(l) = {l[i] : i \in 1 .. n + 1}
  BY <1>1, <1>2, ListMembers DEF n
<1>5. ToSet(l) = ToSet(s) \cup {x}
  <2>1. \A y \in ToSet(l) : y \in ToSet(s) \cup {x}
    <3> TAKE y \in ToSet(l)
    <3>1. PICK i \in 1 .. n + 1 : y = l[i]
      BY <1>4
    <3>2. i = 1 \/ i \in 2 .. n + 1
      BY <1>1
    <3> QED
      BY <1>3, <1>4, <3>1, <3>2
  <2>2. \A y \in ToSet(s) : y \in ToSet(l)
    <3> TAKE y \in ToSet(s)
    <3>1. PICK i \in 1 .. n : y = s[i]
      BY <1>4
    <3>2. i + 1 \in 2 .. n + 1 /\ i + 1 \in 1 .. n + 1 /\ (i + 1) - 1 = i
      BY <1>1
    <3> QED
      BY <1>3, <1>4, <3>1, <3>2
  <2>3. x \in ToSet(l)
    <3>1. 1 \in 1 .. n + 1
      BY <1>1
    <3> QED
      BY <1>3, <1>4, <3>1
  <2> QED
    BY <2>1, <2>2, <2>3
<1>6. ASSUME IsInjective(s), x \notin ToSet(s) PROVE IsInjective(l)
  <2>1. \A i, j \in 1 .. n : s[i] = s[j] => i = j
    BY <1>6, ListMembers DEF n
  <2>2. ASSUME NEW i \in 1 .. n + 1, NEW j \in 1 .. n + 1, l[i] = l[j] PROVE i = j
    <3>1. (i = 1 \/ i \in 2 .. n + 1) /\ (j = 1 \/ j \in 2 .. n + 1)
      BY <1>1
    <3>2. CASE i = 1 /\ j # 1
      BY <1>3, <1>4, <1>6, <2>2, <3>1, <3>2
    <3>3. CASE i # 1 /\ j = 1
      BY <1>3, <1>4, <1>6, <2>2, <3>1, <3>3
    <3>4. CASE i # 1 /\ j # 1
      <4>1. i - 1 = j - 1
        BY <1>3, <2>1, <2>2, <3>1, <3>4
      <4> QED
        BY <4>1
    <3> QED
      BY <3>2, <3>3, <3>4
  <2>3. l \in Seq(S) /\ Len(l) = n + 1
    BY <1>1, <1>2
  <2>4. \A i, j \in 1 .. Len(l) : l[i] = l[j] => i = j
    BY <2>2, <2>3
  <2> QED
    BY <2>3, <2>4, ListMembers
<1> QED
  BY <1>2, <1>5, <1>6 DEF l

\* SLIST_REMOVE_HEAD.
LEMMA Popped ==
  ASSUME NEW S, NEW s \in Seq(S), s # <<>>
  PROVE  /\ Tail(s) \in Seq(S) /\ Head(s) \in S
         /\ ToSet(s) = ToSet(Tail(s)) \cup {Head(s)}
         /\ IsInjective(s) => IsInjective(Tail(s)) /\ Head(s) \notin ToSet(Tail(s))
<1> DEFINE t == Tail(s)
           n == Len(s)
<1>1. n \in Nat /\ n # 0 /\ Head(s) = s[1]
  OBVIOUS
<1>2. /\ t \in Seq(S) /\ Len(t) = n - 1 /\ Head(s) \in S
      /\ \A i \in 1 .. n - 1 : t[i] = s[i + 1]
  BY HeadTailProperties
<1> HIDE DEF t, n
<1>3. /\ ToSet(s) = {s[i] : i \in 1 .. n} /\ ToSet(t) = {t[i] : i \in 1 .. n - 1}
  BY <1>2, ListMembers DEF n
<1>4. ToSet(s) = ToSet(t) \cup {s[1]}
  <2>1. \A y \in ToSet(s) : y \in ToSet(t) \cup {s[1]}
    <3> TAKE y \in ToSet(s)
    <3>1. PICK i \in 1 .. n : y = s[i]
      BY <1>3
    <3>2. i = 1 \/ (i - 1 \in 1 .. n - 1 /\ (i - 1) + 1 = i)
      BY <1>1
    <3> QED
      BY <1>2, <1>3, <3>1, <3>2
  <2>2. \A y \in ToSet(t) : y \in ToSet(s)
    <3> TAKE y \in ToSet(t)
    <3>1. PICK i \in 1 .. n - 1 : y = t[i]
      BY <1>3
    <3>2. i + 1 \in 1 .. n
      BY <1>1
    <3> QED
      BY <1>2, <1>3, <3>1, <3>2
  <2>3. s[1] \in ToSet(s)
    <3>1. 1 \in 1 .. n
      BY <1>1
    <3> QED
      BY <1>3, <3>1
  <2> QED
    BY <2>1, <2>2, <2>3
<1>5. ASSUME IsInjective(s) PROVE IsInjective(t) /\ s[1] \notin ToSet(t)
  <2>1. \A i, j \in 1 .. n : s[i] = s[j] => i = j
    BY <1>5, ListMembers DEF n
  <2>2. ASSUME NEW i \in 1 .. n - 1, NEW j \in 1 .. n - 1, t[i] = t[j] PROVE i = j
    <3>1. i + 1 \in 1 .. n /\ j + 1 \in 1 .. n
      BY <1>1
    <3>2. i + 1 = j + 1
      BY <1>2, <2>1, <2>2, <3>1
    <3> QED
      BY <3>2
  <2>3. IsInjective(t)
    BY <1>2, <2>2, ListMembers
  <2>4. ASSUME NEW i \in 1 .. n - 1, t[i] = s[1] PROVE FALSE
    <3>1. i + 1 \in 1 .. n /\ 1 \in 1 .. n
      BY <1>1
    <3>2. i + 1 = 1
      BY <1>2, <2>1, <2>4, <3>1
    <3> QED
      BY <3>2
  <2> QED
    BY <1>3, <2>3, <2>4
<1> QED
  BY <1>1, <1>2, <1>4, <1>5 DEF t

\* SLIST_REMOVE.
LEMMA UnlinkedFirst ==
  ASSUME NEW S, NEW s \in Seq(S), IsInjective(s), NEW x
  PROVE  /\ RemoveFirst(s, x) \in Seq(S) /\ IsInjective(RemoveFirst(s, x))
         /\ ToSet(RemoveFirst(s, x)) = ToSet(s) \ {x}
<1> DEFINE n == Len(s)
           r == RemoveFirst(s, x)
<1>1. /\ n \in Nat /\ ToSet(s) = {s[i] : i \in 1 .. n}
      /\ \A i, j \in 1 .. n : s[i] = s[j] => i = j
  BY ListMembers
<1> HIDE DEF n
<1>2. CASE ~\E i \in 1 .. n : s[i] = x
  <2>1. r = s
    BY <1>2 DEF RemoveFirst, n
  <2> QED
    BY <1>1, <1>2, <2>1
<1>3. CASE \E i \in 1 .. n : s[i] = x
  <2> DEFINE hits == {i \in 1 .. n : s[i] = x}
  <2>1. PICK k \in 1 .. n : s[k] = x
    BY <1>3
  <2>2. hits = {k}
    BY <1>1, <2>1
  <2>3. SelectInSeq(s, LAMBDA v : v = x) = k
    <3>1. SelectInSeq(s, LAMBDA v : v = x) = IF hits # {} THEN Min(hits) ELSE 0
      BY DEF SelectInSeq, n
    <3>2. Min({k}) = k
      BY DEF Min
    <3> QED
      BY <2>2, <3>1, <3>2
  <2> DEFINE before == SubSeq(s, 1, k - 1)
             after  == SubSeq(s, k + 1, n)
  <2>4. r = before \o after
    BY <1>3, <2>3 DEF RemoveFirst, RemoveAt, n
  <2> HIDE DEF r
  <2>5. /\ before \in Seq(S) /\ Len(before) = k - 1
        /\ \A i \in 1 .. k - 1 : before[i] = s[i]
    <3>1. \A i \in 1 .. k - 1 : s[i] \in S
      BY <1>1, LenProperties DEF n
    <3>2. /\ before \in Seq(S) /\ Len(before) = IF 1 <= k - 1 THEN k - 1 - 1 + 1 ELSE 0
          /\ \A i \in 1 .. k - 1 - 1 + 1 : before[i] = s[1 + i - 1]
      BY <3>1, SubSeqProperties
    <3> HIDE DEF before
    <3> QED
      BY <1>1, <3>2
  <2>6. /\ after \in Seq(S) /\ Len(after) = n - k
        /\ \A i \in 1 .. n - k : after[i] = s[k + i]
    <3>1. \A i \in k + 1 .. n : s[i] \in S
      BY <1>1, LenProperties DEF n
    <3>2. /\ after \in Seq(S) /\ Len(after) = IF k + 1 <= n THEN n - (k + 1) + 1 ELSE 0
          /\ \A i \in 1 .. n - (k + 1) + 1 : after[i] = s[(k + 1) + i - 1]
      BY <1>1, <3>1, SubSeqProperties
    <3> HIDE DEF after
    <3> QED
      BY <1>1, <3>2
  <2> HIDE DEF before, after
  <2>7. /\ r \in Seq(S) /\ Len(r) = n - 1
        /\ \A i \in 1 .. n - 1 : r[i] = IF i < k THEN s[i] ELSE s[i + 1]
    <3>1. /\ before \o after \in Seq(S) /\ Len(before \o after) = (k - 1) + (n - k)
          /\ \A i \in 1 .. (k - 1) + (n - k) : (before \o after)[i] =
               IF i <= k - 1 THEN before[i] ELSE after[i - (k - 1)]
      BY <2>5, <2>6, ConcatProperties
    <3>2. (k - 1) + (n - k) = n - 1
      BY <1>1
    <3>3. ASSUME NEW i \in 1 .. n - 1 PROVE r[i] = IF i < k THEN s[i] ELSE s[i + 1]
      <4>1. r[i] = IF i <= k - 1 THEN before[i] ELSE after[i - (k - 1)]
        BY <2>4, <3>1, <3>2
      <4>2. CASE i < k
        <5>1. i \in 1 .. k - 1
          BY <4>2
        <5> QED
          BY <2>5, <4>1, <4>2, <5>1
      <4>3. CASE ~(i < k)
        <5>1. i - (k - 1) \in 1 .. n - k /\ k + (i - (k - 1)) = i + 1 /\ ~(i <= k - 1)
          BY <1>1, <4>3
        <5> QED
          BY <2>6, <4>1, <4>3, <5>1
      <4> QED
        BY <4>2, <4>3
    <3> QED
      BY <2>4, <3>1, <3>2, <3>3
  <2>8. ToSet(r) = {r[i] : i \in 1 .. n - 1}
    BY <2>7, ListMembers
  <2>9. ASSUME NEW y \in ToSet(r) PROVE y \in ToSet(s) \ {x}
    <3>1. PICK i \in 1 .. n - 1 : y = r[i]
      BY <2>8
    <3>2. i \in 1 .. n /\ i + 1 \in 1 .. n
      BY <1>1
    <3>3. PICK j \in 1 .. n : y = s[j] /\ j # k
      BY <2>7, <3>1, <3>2
    <3> QED
      BY <1>1, <2>1, <3>3
  <2>10. ASSUME NEW y \in ToSet(s) \ {x} PROVE y \in ToSet(r)
    <3>1. PICK j \in 1 .. n : y = s[j]
      BY <1>1
    <3>2. j # k
      BY <2>1, <2>10, <3>1
    <3>3. CASE j < k
      <4>1. j \in 1 .. n - 1
        BY <1>1, <3>3
      <4>2. r[j] = s[j]
        BY <2>7, <3>3, <4>1
      <4> QED
        BY <2>8, <3>1, <4>1, <4>2
    <3>4. CASE j > k
      <4>1. j - 1 \in 1 .. n - 1 /\ ~(j - 1 < k) /\ (j - 1) + 1 = j
        BY <1>1, <3>4
      <4>2. r[j - 1] = s[j]
        BY <2>7, <4>1
      <4> QED
        BY <2>8, <3>1, <4>1, <4>2
    <3> QED
      BY <3>2, <3>3, <3>4
  <2>11. ASSUME NEW i \in 1 .. n - 1, NEW j \in 1 .. n - 1, r[i] = r[j] PROVE i = j
    <3>1. i \in 1 .. n /\ i + 1 \in 1 .. n /\ j \in 1 .. n /\ j + 1 \in 1 .. n
      BY <1>1
    <3>2. (IF i < k THEN i ELSE i + 1) = (IF j < k THEN j ELSE j + 1)
      BY <1>1, <2>7, <2>11, <3>1
    <3> QED
      BY <3>2
  <2>12. IsInjective(r)
    BY <2>7, <2>11, ListMembers
  <2> QED
    BY <2>7, <2>9, <2>10, <2>12 DEF r
<1> QED
  BY <1>2, <1>3

----------------------------------------------------------------------------
(* The invariant.                                                          *)

\* Where each thread may be.
PlacesOf(t) ==
  IF t = Main THEN MainPlaces \cup CleanupPlaces
  ELSE IF t = Stamper THEN StamperPlaces ELSE WorkerPlaces \cup CleanupPlaces

ThreadTypes ==
  /\ pc = [t \in Thread |-> pc[t]] /\ \A t \in Thread : pc[t] \in PlacesOf(t)
  /\ thread_list \in Seq(Conn) /\ todo \in Seq(Conn)
  /\ new_thread \in Conn \cup {NoThread}
  /\ target \in [Thread -> Conn \cup {NoThread}]
  /\ joined \subseteq Conn /\ freed \subseteq joined
  /\ client \in [Conn -> {"away", "open", "closed"}]

\* A connection whose thread has been created by this process.
Started(c) == pc[c] \notin {"unborn", "gone"}

\* The list holds each thread once, from when it has been started.
ListInv ==
  /\ IsInjective(thread_list)
  /\ \A c \in ToSet(thread_list) : Started(c)
  /\ \A c \in joined : pc[c] = "exited"
  /\ \A c \in Conn : client[c] = "away" => pc[c] = "unborn"

\* What main has in hand is nowhere else.
MainInv ==
  /\ pc[Main] \in {"create", "insert"} =>
       new_thread \in Conn \ (ToSet(thread_list) \cup joined)
  /\ pc[Main] = "create" => pc[new_thread] = "unborn" /\ client[new_thread] # "away"
  /\ pc[Main] = "insert" => Started(new_thread)
  /\ pc[Main] \in {"join", "remove"} => todo # <<>>
  /\ pc[Main] = "remove" => Head(todo) \in joined

\* What a cleanup has taken has been started, and is not what main is about to list.
CleanupInv ==
  \A t \in Thread : pc[t] \in {"cleanup_pop", "cleanup_join"} =>
    /\ pc[t] = "cleanup_join" => target[t] \in Conn
    /\ target[t] \in Conn =>
         Started(target[t]) /\ (pc[Main] = "insert" => target[t] # new_thread)

\* The steps of a cleanup after its test of the list.
Within == {"cleanup_first", "cleanup_pop", "cleanup_join"}

\* While main alone cleans up, what it has tested and taken is still so, and what
\* it has freed is not in the list.
AloneInv ==
  OnlyMainCleans =>
    /\ ToSet(thread_list) \cap freed = {}
    /\ pc[Main] = "cleanup_first" => thread_list # <<>>
    /\ pc[Main] = "cleanup_pop" => thread_list # <<>> /\ target[Main] = Head(thread_list)
    /\ pc[Main] = "cleanup_join" => target[Main] \notin ToSet(thread_list)

ThreadInv == ThreadTypes /\ ListInv /\ MainInv /\ CleanupInv /\ AloneInv

----------------------------------------------------------------------------
(* Steps that start, list and join no thread.                              *)

Plain ==
  /\ UNCHANGED threads
  /\ client' \in [Conn -> {"away", "open", "closed"}]
  /\ \A c \in Conn : client'[c] = "away" => client[c] = "away"
  /\ pc' = [t \in Thread |-> pc'[t]] /\ \A t \in Thread : pc'[t] \in PlacesOf(t)
  /\ \A t \in Thread : pc[t] \in CleanupPlaces \/ pc'[t] \in Within => pc'[t] = pc[t]
  /\ \A c \in Conn :
       pc[c] \in {"unborn", "exited", "gone"} \/ pc'[c] \in {"unborn", "open", "gone"}
         => pc'[c] = pc[c]
  /\ \/ pc'[Main] = pc[Main]
     \/ pc[Main] \notin CleanupPlaces /\ pc'[Main] = "cleanup"
     \/ pc[Main] \in SetUpPlaces /\ pc'[Main] \in SetUpPlaces \cup {"accept"}

\* The threads are three kinds.
LEMMA ThreadKinds ==
  /\ Main \in Thread /\ Stamper \in Thread /\ Conn \subseteq Thread
  /\ Main # Stamper /\ Main \notin Conn /\ Stamper \notin Conn /\ NoThread \notin Conn
  /\ PlacesOf(Main) = MainPlaces \cup CleanupPlaces /\ PlacesOf(Stamper) = StamperPlaces
  /\ \A c \in Conn : PlacesOf(c) = WorkerPlaces \cup CleanupPlaces
BY ThreadAssumption DEF Thread, PlacesOf

\* They keep the invariant.
LEMMA PlainKeepsThreads ==
  ASSUME ThreadInv, Plain
  PROVE  ThreadInv'
<1>1. UNCHANGED <<thread_list, new_thread, todo, target, joined, freed>>
  BY DEF Plain, threads
<1>2. ThreadTypes'
  BY <1>1 DEF ThreadInv, ThreadTypes, Plain, PlacesOf, Thread
<1>3. \A c \in Conn : Started(c)' <=> Started(c)
  BY DEF Plain, Started
<1>4. /\ joined \subseteq Conn /\ ToSet(thread_list) \subseteq Conn
  BY ListMembers DEF ThreadInv, ThreadTypes
<1>5. ListInv'
  <2>1. \A c \in joined : pc'[c] = "exited"
    BY <1>4 DEF ThreadInv, ListInv, Plain
  <2>2. \A c \in Conn : client'[c] = "away" => pc'[c] = "unborn"
    BY DEF ThreadInv, ListInv, Plain
  <2> QED
    BY <1>1, <1>3, <1>4, <2>1, <2>2 DEF ThreadInv, ListInv
<1>6. pc'[Main] \in {"create", "insert", "join", "remove"} \cup Within => pc'[Main] = pc[Main]
  BY DEF Plain, SetUpPlaces, CleanupPlaces, Within
<1>7. MainInv'
  <2>1. pc'[Main] = "create" => /\ pc[Main] = "create" /\ pc'[new_thread] = "unborn"
                                /\ client'[new_thread] # "away"
    BY <1>6 DEF ThreadInv, MainInv, Plain
  <2> QED
    BY <1>1, <1>3, <1>6, <2>1 DEF ThreadInv, MainInv
<1>8. CleanupInv'
  <2>1. \A t \in Thread : pc'[t] \in {"cleanup_pop", "cleanup_join"} => pc'[t] = pc[t]
    BY DEF Plain, Within
  <2> QED
    BY <1>1, <1>3, <1>6, <2>1 DEF ThreadInv, CleanupInv
<1>9. AloneInv'
  <2>1. OnlyMainCleans' => OnlyMainCleans
    BY ThreadKinds DEF Plain, OnlyMainCleans
  <2> QED
    BY <1>1, <1>6, <2>1 DEF ThreadInv, AloneInv, Within
<1> QED
  BY <1>2, <1>5, <1>7, <1>8, <1>9 DEF ThreadInv

\* One thread moves on, in its own part of the program.
LEMMA MoveIsPlain ==
  ASSUME ThreadTypes, UNCHANGED <<threads, client>>,
         NEW t \in Thread, NEW place \in PlacesOf(t), pc' = [pc EXCEPT ![t] = place],
         pc[t] \notin CleanupPlaces, place \notin Within,
         t \in Conn => pc[t] \notin {"unborn", "exited", "gone"}
                         /\ place \notin {"unborn", "open", "gone"},
         t = Main => \/ place = "cleanup"
                     \/ pc[t] \in SetUpPlaces /\ place \in SetUpPlaces \cup {"accept"}
  PROVE  Plain
<1>1. /\ \A u \in Thread : pc'[u] = IF u = t THEN place ELSE pc[u]
      /\ pc' = [u \in Thread |-> pc'[u]]
  BY DEF ThreadTypes
<1>2. client' \in [Conn -> {"away", "open", "closed"}] /\ client' = client
  BY DEF ThreadTypes
<1>3. \A u \in Thread : pc'[u] \in PlacesOf(u)
  BY <1>1 DEF ThreadTypes
<1>4. \A u \in Thread : pc[u] \in CleanupPlaces \/ pc'[u] \in Within => pc'[u] = pc[u]
  BY <1>1
<1>5. \A c \in Conn :
        pc[c] \in {"unborn", "exited", "gone"} \/ pc'[c] \in {"unborn", "open", "gone"}
          => pc'[c] = pc[c]
  BY <1>1, ThreadKinds
<1>6. \/ pc'[Main] = pc[Main]
      \/ pc[Main] \notin CleanupPlaces /\ pc'[Main] = "cleanup"
      \/ pc[Main] \in SetUpPlaces /\ pc'[Main] \in SetUpPlaces \cup {"accept"}
  BY <1>1, ThreadKinds
<1> QED
  BY <1>1, <1>2, <1>3, <1>4, <1>5, <1>6 DEF Plain

\* No thread moves.
LEMMA StillIsPlain ==
  ASSUME ThreadTypes, UNCHANGED <<pc, threads>>,
         client' \in [Conn -> {"away", "open", "closed"}],
         \A c \in Conn : client'[c] = "away" => client[c] = "away"
  PROVE  Plain
BY DEF Plain, ThreadTypes

\* handle_connection.
LEMMA WorkerIsPlain ==
  ASSUME ThreadTypes, NEW c \in Conn, Worker(c)
  PROVE  Plain /\ pc'[Main] = pc[Main]
<1>1. c \in Thread /\ c # Main /\ c # Stamper /\ PlacesOf(c) = WorkerPlaces \cup CleanupPlaces
  BY ThreadKinds
<1> DEFINE inside == {"recv", "receiving", "lock", "write", "ioctl", "unlock",
                      "lseek", "read", "send", "close_data", "close_socket", "done"}
<1>2. /\ UNCHANGED <<threads, client>>
      /\ \/ UNCHANGED pc
         \/ /\ pc[c] \in inside \cup {"open"}
            /\ \E place \in inside \cup {"exited", "cleanup"} : pc' = [pc EXCEPT ![c] = place]
  <2>1. CASE Open(c) \/ OpenFails(c) \/ CallRecv(c)
    BY <2>1 DEF Open, OpenFails, CallRecv, At, Goto, clients
  <2>2. CASE Receive(c) \/ RecvEnds(c)
    BY <2>2 DEF Receive, RecvEnds, At, Goto, clients
  <2>3. CASE Lock(c) \/ Fails(c) \/ Rewind(c)
    BY <2>3 DEF Lock, Fails, Rewind, At, Goto, clients
  <2>4. CASE Unlock(c)
    BY <1>1, <2>4 DEF Unlock, Answer, At, Goto, clients
  <2>5. CASE Write(c)
    BY <2>5 DEF Write, At, Goto, clients
  <2>6. CASE Read(c) \/ ReadEnds(c) \/ Send(c)
    BY <2>6 DEF Read, ReadEnds, Send, At, Goto, clients
  <2>7. CASE CloseData(c) \/ CloseSocket(c) \/ WorkDone(c)
    BY <2>7 DEF CloseData, CloseSocket, WorkDone, At, Goto, clients
  <2> QED
    BY <2>1, <2>2, <2>3, <2>4, <2>5, <2>6, <2>7 DEF Worker, Serve, OnFile
<1>3. CASE UNCHANGED pc
  BY <1>2, <1>3, StillIsPlain DEF ThreadTypes
<1>4. CASE ~UNCHANGED pc
  <2>1. PICK place \in inside \cup {"exited", "cleanup"} : pc' = [pc EXCEPT ![c] = place]
    BY <1>2, <1>4
  <2>2. place \in PlacesOf(c)
    BY <1>1 DEF WorkerPlaces, CleanupPlaces
  <2>3. pc[c] \notin CleanupPlaces /\ place \notin Within
    BY <1>2, <1>4 DEF CleanupPlaces, Within
  <2>4. pc'[Main] = pc[Main]
    BY <1>1, <2>1 DEF ThreadTypes
  <2> QED
    BY <1>1, <1>2, <1>4, <2>1, <2>2, <2>3, <2>4, MoveIsPlain
<1> QED
  BY <1>3, <1>4

\* timestamp_handler.
LEMMA StamperIsPlain ==
  ASSUME ThreadTypes, StamperStep
  PROVE  Plain /\ pc'[Main] = pc[Main]
<1> DEFINE inside == {"lock", "write", "unlock", "sleep", "exited"}
<1>1. /\ UNCHANGED <<threads, client>> /\ pc[Stamper] \in inside
      /\ \E place \in inside : pc' = [pc EXCEPT ![Stamper] = place]
  <2>1. CASE LockToStamp \/ Unlock(Stamper)
    BY <2>1 DEF LockToStamp, Lock, Unlock, At, Goto, clients
  <2>2. CASE Stamp \/ Wake
    BY <2>2 DEF Stamp, Wake, At, Goto, clients
  <2> QED
    BY <2>1, <2>2 DEF StamperStep
<1>2. PICK place \in inside : pc' = [pc EXCEPT ![Stamper] = place]
  BY <1>1
<1>3. place \in PlacesOf(Stamper)
  BY ThreadKinds DEF StamperPlaces
<1>4. pc[Stamper] \notin CleanupPlaces /\ place \notin Within
  BY <1>1 DEF CleanupPlaces, Within
<1>5. pc'[Main] = pc[Main]
  BY <1>2, ThreadKinds DEF ThreadTypes
<1> QED
  BY <1>1, <1>2, <1>3, <1>4, <1>5, ThreadKinds, MoveIsPlain

\* main up to its loop, and a signal.
LEMMA SetUpIsPlain ==
  ASSUME ThreadTypes, SetUp \/ Signal
  PROVE  Plain
<1> DEFINE places == SetUpPlaces \cup {"accept", "cleanup"}
<1>1. /\ UNCHANGED <<threads, client>>
      /\ \/ UNCHANGED pc
         \/ pc[Main] \in SetUpPlaces /\ \E place \in places : pc' = [pc EXCEPT ![Main] = place]
         \/ pc[Main] \in MainPlaces /\ pc' = [pc EXCEPT ![Main] = "cleanup"]
         \/ CreateStamper /\ pc' # [pc EXCEPT ![Main] = "cleanup"]
  <2>1. CASE Start \/ CreateSocket \/ Bind \/ ListenOn
    BY <2>1 DEF Start, CreateSocket, Bind, ListenOn, At, Goto, clients, SetUpPlaces
  <2>2. CASE CreateStamper
    BY <2>2 DEF CreateStamper, At, Goto, clients, SetUpPlaces, MainPlaces
  <2>3. CASE Signal
    BY <2>3, ParameterAssumption DEF Signal, At, Goto, clients
  <2> QED
    BY <2>1, <2>2, <2>3 DEF SetUp
<1>2. CASE UNCHANGED pc
  BY <1>1, <1>2, StillIsPlain DEF ThreadTypes
<1>3. CASE pc[Main] \in SetUpPlaces /\ \E place \in places : pc' = [pc EXCEPT ![Main] = place]
  <2>1. PICK place \in places : pc' = [pc EXCEPT ![Main] = place]
    BY <1>3
  <2>2. /\ place \in PlacesOf(Main) /\ place \notin Within
        /\ pc[Main] \notin CleanupPlaces
        /\ place = "cleanup" \/ place \in SetUpPlaces \cup {"accept"}
    BY <1>3, ThreadKinds DEF SetUpPlaces, MainPlaces, CleanupPlaces, Within
  <2> QED
    BY <1>1, <1>3, <2>1, <2>2, ThreadKinds, MoveIsPlain
<1>4. CASE pc[Main] \in MainPlaces /\ pc' = [pc EXCEPT ![Main] = "cleanup"]
  <2>1. /\ "cleanup" \in PlacesOf(Main) \ Within
        /\ pc[Main] \notin CleanupPlaces
    BY <1>4, ThreadKinds DEF SetUpPlaces, MainPlaces, CleanupPlaces, Within
  <2> QED
    BY <1>1, <1>4, <2>1, ThreadKinds, MoveIsPlain
<1>5. CASE CreateStamper /\ pc' # [pc EXCEPT ![Main] = "cleanup"]
  <2>1. /\ pc[Main] = "stamper"
        /\ pc' = [pc EXCEPT ![Main] = "accept",
                            ![Stamper] = IF stamps < MaxStamps THEN "lock" ELSE "sleep"]
    BY <1>5 DEF CreateStamper, At, Goto
  <2>2. /\ pc' = [t \in Thread |-> pc'[t]]
        /\ \A t \in Thread :
             pc'[t] = IF t = Main THEN "accept"
                      ELSE IF t = Stamper THEN IF stamps < MaxStamps THEN "lock" ELSE "sleep"
                      ELSE pc[t]
    BY <2>1, ThreadKinds DEF ThreadTypes
  <2>3. /\ \A t \in Thread : pc[t] \in PlacesOf(t)
        /\ client' \in [Conn -> {"away", "open", "closed"}]
    BY <1>1 DEF ThreadTypes
  <2>4. \A t \in Thread : pc'[t] \in PlacesOf(t)
    BY <2>2, <2>3, ThreadKinds DEF StamperPlaces, MainPlaces
  <2>5. \A t \in Thread : pc[t] \in CleanupPlaces \/ pc'[t] \in Within => pc'[t] = pc[t]
    BY <2>1, <2>2, <2>3, ThreadKinds DEF StamperPlaces, CleanupPlaces, Within
  <2>6. \A c \in Conn : pc'[c] = pc[c]
    BY <2>2, ThreadKinds
  <2>7. pc'[Main] = "accept" /\ pc[Main] \in SetUpPlaces
    BY <2>1, <2>2, ThreadKinds DEF SetUpPlaces
  <2> QED
    BY <1>1, <2>1, <2>2, <2>3, <2>4, <2>5, <2>6, <2>7 DEF Plain
<1> QED
  BY <1>1, <1>2, <1>3, <1>4, <1>5

\* Steps of threads, clients and signals that only move on, and no step at all.
LEMMA OthersArePlain ==
  ASSUME ThreadTypes,
         \/ \E c \in Conn : ClientSends(c) \/ ClientCloses(c)
         \/ Create /\ pc' = [pc EXCEPT ![Main] = "cleanup"]
         \/ \E t \in Conn \cup {Main} : RemoveHeadCrashes(t) \/ JoinFails(t) \/ Exit(t)
         \/ UNCHANGED vars
  PROVE  Plain
<1>1. CASE \E c \in Conn : ClientSends(c) \/ ClientCloses(c)
  <2>1. /\ UNCHANGED <<pc, threads>>
        /\ client' = client \/ \E c \in Conn : client' = [client EXCEPT ![c] = "closed"]
    BY <1>1 DEF ClientSends, ClientCloses
  <2>2. /\ client' \in [Conn -> {"away", "open", "closed"}]
        /\ \A c \in Conn : client'[c] = "away" => client[c] = "away"
    BY <2>1 DEF ThreadTypes
  <2> QED
    BY <2>1, <2>2, StillIsPlain
<1>2. CASE Create /\ pc' = [pc EXCEPT ![Main] = "cleanup"]
  <2>1. pc[Main] = "create" /\ UNCHANGED <<threads, client>>
    BY <1>2 DEF Create, At, clients
  <2>2. "cleanup" \in PlacesOf(Main) \ Within /\ pc[Main] \notin CleanupPlaces
    BY <2>1, ThreadKinds DEF CleanupPlaces, Within
  <2> QED
    BY <1>2, <2>1, <2>2, ThreadKinds, MoveIsPlain
<1>3. CASE \E t \in Conn \cup {Main} : RemoveHeadCrashes(t) \/ JoinFails(t) \/ Exit(t)
  BY <1>3, StillIsPlain DEF RemoveHeadCrashes, JoinFails, Exit, clients, ThreadTypes
<1>4. CASE UNCHANGED vars
  BY <1>4, StillIsPlain DEF vars, clients, ThreadTypes
<1> QED
  BY <1>1, <1>2, <1>3, <1>4

----------------------------------------------------------------------------
(* Steps that start, list, join or free a thread.                          *)

\* Where a step leaves the threads.
LEMMA Moved ==
  ASSUME ThreadTypes, NEW t \in Thread, NEW place \in PlacesOf(t), Goto(t, place)
  PROVE  /\ pc' = [u \in Thread |-> pc'[u]]
         /\ \A u \in Thread : pc'[u] = IF u = t THEN place ELSE pc[u]
         /\ \A u \in Thread : pc'[u] \in PlacesOf(u)
BY DEF ThreadTypes, Goto

\* A connection is accepted: its thread is not born.
LEMMA AcceptKeepsThreads ==
  ASSUME ThreadInv, NEW c \in Conn, Accept(c)
  PROVE  ThreadInv'
<1> DEFINE place == pc'[Main]
<1>1. /\ pc[Main] = "accept" /\ client[c] = "away" /\ new_thread' = c
      /\ client' = [client EXCEPT ![c] = "open"]
      /\ UNCHANGED <<thread_list, todo, target, joined, freed>>
      /\ Goto(Main, "create") \/ Goto(Main, "cleanup")
  BY DEF Accept, At
<1>2. "create" \in PlacesOf(Main) /\ "cleanup" \in PlacesOf(Main)
  BY ThreadKinds DEF MainPlaces, CleanupPlaces
<1>3. /\ pc' = [u \in Thread |-> pc'[u]] /\ \A u \in Thread : pc'[u] \in PlacesOf(u)
      /\ \A u \in Thread : u # Main => pc'[u] = pc[u]
      /\ place \in {"create", "cleanup"}
  BY <1>1, <1>2, Moved, ThreadKinds DEF ThreadInv
<1>4. ThreadTypes'
  BY <1>1, <1>3 DEF ThreadInv, ThreadTypes, PlacesOf, Thread
<1>5. \A d \in Conn : pc'[d] = pc[d]
  BY <1>3, ThreadKinds
<1>6. /\ joined \subseteq Conn /\ ToSet(thread_list) \subseteq Conn
      /\ \A d \in Conn : client'[d] = "away" => client[d] = "away"
  BY <1>1, ListMembers DEF ThreadInv, ThreadTypes
<1>7. /\ pc[c] = "unborn" /\ c \notin joined /\ c \notin ToSet(thread_list)
      /\ client'[c] # "away"
  BY <1>1 DEF ThreadInv, ThreadTypes, ListInv, Started
<1>8. ListInv'
  BY <1>1, <1>5, <1>6 DEF ThreadInv, ListInv, Started
<1>9. MainInv'
  BY <1>1, <1>3, <1>5, <1>7 DEF MainInv
<1>10. CleanupInv'
  <2>1. \A t \in Thread : pc'[t] \in {"cleanup_pop", "cleanup_join"} => pc'[t] = pc[t]
    BY <1>3
  <2> QED
    BY <1>1, <1>3, <1>5, <2>1 DEF ThreadInv, CleanupInv, Started
<1>11. AloneInv'
  BY <1>1, <1>3, <1>5 DEF ThreadInv, AloneInv, OnlyMainCleans
<1> QED
  BY <1>4, <1>8, <1>9, <1>10, <1>11 DEF ThreadInv

\* Its thread is created: main has it in hand.
LEMMA CreateKeepsThreads ==
  ASSUME ThreadInv, Create
  PROVE  ThreadInv'
<1>1. CASE Goto(Main, "cleanup")
  <2>1. Plain
    BY <1>1, OthersArePlain DEF ThreadInv, Goto
  <2> QED
    BY <2>1, PlainKeepsThreads
<1>2. CASE pc' = [pc EXCEPT ![Main] = "insert", ![new_thread] = "open"]
  <2>1. /\ pc[Main] = "create" /\ UNCHANGED <<client, new_thread>>
        /\ UNCHANGED <<thread_list, todo, target, joined, freed>>
    BY DEF Create, At, threads, clients
  <2>2. /\ new_thread \in Conn /\ new_thread \notin ToSet(thread_list)
        /\ new_thread \notin joined /\ pc[new_thread] = "unborn"
    BY <2>1 DEF ThreadInv, MainInv
  <2>3. /\ pc' = [u \in Thread |-> pc'[u]]
        /\ \A u \in Thread : pc'[u] = IF u = new_thread THEN "open"
                                      ELSE IF u = Main THEN "insert" ELSE pc[u]
    BY <1>2, <2>2, ThreadKinds DEF ThreadInv, ThreadTypes
  <2>4. \A u \in Thread : pc'[u] \in PlacesOf(u)
    <3>1. \A u \in Thread : pc[u] \in PlacesOf(u)
      BY DEF ThreadInv, ThreadTypes
    <3> QED
      BY <2>2, <2>3, <3>1, ThreadKinds DEF MainPlaces, WorkerPlaces
  <2>5. ThreadTypes'
    BY <2>1, <2>3, <2>4 DEF ThreadInv, ThreadTypes, PlacesOf, Thread
  <2>6. /\ pc'[Main] = "insert" /\ pc'[new_thread] = "open"
        /\ \A d \in Conn : d # new_thread => pc'[d] = pc[d]
    BY <2>2, <2>3, ThreadKinds
  <2>7. /\ joined \subseteq Conn /\ ToSet(thread_list) \subseteq Conn
    BY ListMembers DEF ThreadInv, ThreadTypes
  <2>8. ListInv'
    <3>1. client[new_thread] # "away"
      BY <2>1 DEF ThreadInv, MainInv
    <3> QED
      BY <2>1, <2>2, <2>6, <2>7, <3>1 DEF ThreadInv, ListInv, Started
  <2>9. MainInv'
    BY <2>1, <2>2, <2>6 DEF MainInv, Started
  <2>10. CleanupInv'
    <3>1. \A t \in Thread : pc'[t] \in {"cleanup_pop", "cleanup_join"} => pc'[t] = pc[t]
      BY <2>3
    <3>2. \A t \in Thread : pc[t] \in {"cleanup_pop", "cleanup_join"} => target[t] # new_thread
      BY <2>2 DEF ThreadInv, CleanupInv, Started
    <3> QED
      BY <2>1, <2>6, <3>1, <3>2 DEF ThreadInv, CleanupInv, Started
  <2>11. AloneInv'
    <3>1. OnlyMainCleans' => OnlyMainCleans
      BY <2>2, <2>6 DEF OnlyMainCleans, CleanupPlaces
    <3> QED
      BY <2>1, <2>6, <3>1 DEF ThreadInv, AloneInv
  <2> QED
    BY <2>5, <2>8, <2>9, <2>10, <2>11 DEF ThreadInv
<1> QED
  BY <1>1, <1>2 DEF Create

\* SLIST_INSERT_HEAD: what main had in hand is in the list.
LEMMA InsertKeepsThreads ==
  ASSUME ThreadInv, Insert
  PROVE  ThreadInv'
<1>1. /\ pc[Main] = "insert" /\ thread_list' = <<new_thread>> \o thread_list
      /\ todo' = thread_list' /\ Goto(Main, "scan")
      /\ UNCHANGED <<new_thread, target, joined, freed, client>>
  BY DEF Insert, At, clients
<1>2. /\ new_thread \in Conn /\ new_thread \notin ToSet(thread_list)
      /\ new_thread \notin joined /\ Started(new_thread)
  BY <1>1 DEF ThreadInv, MainInv
<1>3. /\ thread_list' \in Seq(Conn) /\ IsInjective(thread_list')
      /\ ToSet(thread_list') = ToSet(thread_list) \cup {new_thread}
  BY <1>1, <1>2, Pushed DEF ThreadInv, ThreadTypes, ListInv
<1>4. "scan" \in PlacesOf(Main)
  BY ThreadKinds DEF MainPlaces
<1>5. /\ pc' = [u \in Thread |-> pc'[u]] /\ \A u \in Thread : pc'[u] \in PlacesOf(u)
      /\ \A u \in Thread : pc'[u] = IF u = Main THEN "scan" ELSE pc[u]
  BY <1>1, <1>4, Moved, ThreadKinds DEF ThreadInv
<1>6. ThreadTypes'
  BY <1>1, <1>3, <1>5 DEF ThreadInv, ThreadTypes, PlacesOf, Thread
<1>7. pc'[Main] = "scan" /\ \A d \in Conn : pc'[d] = pc[d]
  BY <1>5, ThreadKinds
<1>8. joined \subseteq Conn /\ freed \subseteq joined /\ ToSet(thread_list) \subseteq Conn
  BY ListMembers DEF ThreadInv, ThreadTypes
<1>9. ListInv'
  BY <1>1, <1>2, <1>3, <1>7, <1>8 DEF ThreadInv, ListInv, Started
<1>10. MainInv'
  BY <1>7 DEF MainInv
<1>11. \A t \in Thread : pc'[t] \in {"cleanup_pop", "cleanup_join"} => pc'[t] = pc[t]
  BY <1>1, <1>5
<1>12. CleanupInv'
  BY <1>1, <1>3, <1>7, <1>11 DEF ThreadInv, CleanupInv, Started
<1>13. AloneInv'
  BY <1>1, <1>2, <1>3, <1>7, <1>8 DEF ThreadInv, AloneInv, OnlyMainCleans
<1> QED
  BY <1>6, <1>9, <1>10, <1>12, <1>13 DEF ThreadInv

\* SLIST_FOREACH_SAFE: the walk reads the list and changes nothing in it.
LEMMA ScanKeepsThreads ==
  ASSUME ThreadInv, Scan
  PROVE  ThreadInv'
<1>1. /\ pc[Main] = "scan"
      /\ UNCHANGED <<thread_list, new_thread, target, joined, freed, client>>
      /\ \/ UNCHANGED todo /\ Goto(Main, "accept")
         \/ UNCHANGED todo /\ todo # <<>> /\ Goto(Main, "join")
         \/ todo # <<>> /\ todo' = Tail(todo) /\ UNCHANGED pc
  BY DEF Scan, At, clients
<1>2. todo' \in Seq(Conn)
  <2>1. todo \in Seq(Conn)
    BY DEF ThreadInv, ThreadTypes
  <2>2. todo # <<>> => Tail(todo) \in Seq(Conn)
    BY <2>1, Popped
  <2> QED
    BY <1>1, <2>1, <2>2
<1>3. "accept" \in PlacesOf(Main) /\ "join" \in PlacesOf(Main)
  BY ThreadKinds DEF MainPlaces
<1>4. /\ pc' = [u \in Thread |-> pc'[u]] /\ \A u \in Thread : pc'[u] \in PlacesOf(u)
      /\ \A u \in Thread : u # Main => pc'[u] = pc[u]
      /\ pc'[Main] \in {"accept", "join", "scan"}
      /\ pc'[Main] = "join" => todo' # <<>>
  <2>1. CASE UNCHANGED pc
    BY <1>1, <2>1 DEF ThreadInv, ThreadTypes
  <2>2. CASE ~UNCHANGED pc
    BY <1>1, <1>3, <2>2, Moved, ThreadKinds DEF ThreadInv
  <2> QED
    BY <2>1, <2>2
<1>5. ThreadTypes'
  BY <1>1, <1>2, <1>4 DEF ThreadInv, ThreadTypes, PlacesOf, Thread
<1>6. \A d \in Conn : pc'[d] = pc[d]
  BY <1>4, ThreadKinds
<1>7. joined \subseteq Conn /\ ToSet(thread_list) \subseteq Conn
  BY ListMembers DEF ThreadInv, ThreadTypes
<1>8. ListInv'
  BY <1>1, <1>6, <1>7 DEF ThreadInv, ListInv, Started
<1>9. MainInv'
  BY <1>4 DEF MainInv
<1>10. \A t \in Thread : pc'[t] \in {"cleanup_pop", "cleanup_join"} => pc'[t] = pc[t]
  BY <1>1, <1>4
<1>11. CleanupInv'
  BY <1>1, <1>4, <1>6, <1>10 DEF ThreadInv, CleanupInv, Started
<1>12. AloneInv'
  BY <1>1, <1>4, <1>6 DEF ThreadInv, AloneInv, OnlyMainCleans
<1> QED
  BY <1>5, <1>8, <1>9, <1>11, <1>12 DEF ThreadInv

\* pthread_join in the walk: what it joins has returned.
LEMMA JoinKeepsThreads ==
  ASSUME ThreadInv, Join
  PROVE  ThreadInv'
<1> DEFINE c == Head(todo)
<1>1. /\ pc[Main] = "join"
      /\ UNCHANGED <<thread_list, new_thread, todo, target, freed, client>>
      /\ \/ Joinable(c) /\ joined' = joined \cup {c} /\ Goto(Main, "remove")
         \/ UNCHANGED joined /\ Goto(Main, "cleanup")
  BY DEF Join, At, clients
<1>2. todo # <<>> /\ c \in Conn
  BY <1>1, Popped DEF ThreadInv, MainInv, ThreadTypes
<1>3. /\ joined' \subseteq joined \cup {c} /\ joined \subseteq joined'
      /\ c \in joined' => pc[c] = "exited"
  BY <1>1 DEF ThreadInv, ListInv, Joinable
<1> HIDE DEF c
<1>4. "remove" \in PlacesOf(Main) /\ "cleanup" \in PlacesOf(Main)
  BY ThreadKinds DEF MainPlaces, CleanupPlaces
<1>5. /\ pc' = [u \in Thread |-> pc'[u]] /\ \A u \in Thread : pc'[u] \in PlacesOf(u)
      /\ \A u \in Thread : u # Main => pc'[u] = pc[u]
      /\ pc'[Main] = "cleanup" \/ (pc'[Main] = "remove" /\ c \in joined')
  BY <1>1, <1>4, Moved, ThreadKinds DEF ThreadInv
<1>6. ThreadTypes'
  BY <1>1, <1>2, <1>3, <1>5 DEF ThreadInv, ThreadTypes, PlacesOf, Thread
<1>7. \A d \in Conn : pc'[d] = pc[d]
  BY <1>5, ThreadKinds
<1>8. joined \subseteq Conn /\ ToSet(thread_list) \subseteq Conn
  BY ListMembers DEF ThreadInv, ThreadTypes
<1>9. ListInv'
  BY <1>1, <1>2, <1>3, <1>7, <1>8 DEF ThreadInv, ListInv, Started
<1>10. MainInv'
  BY <1>1, <1>2, <1>5 DEF MainInv, c
<1>11. \A t \in Thread : pc'[t] \in {"cleanup_pop", "cleanup_join"} => pc'[t] = pc[t]
  BY <1>1, <1>5
<1>12. CleanupInv'
  BY <1>1, <1>5, <1>7, <1>11 DEF ThreadInv, CleanupInv, Started
<1>13. AloneInv'
  BY <1>1, <1>5, <1>7 DEF ThreadInv, AloneInv, OnlyMainCleans
<1> QED
  BY <1>6, <1>9, <1>10, <1>12, <1>13 DEF ThreadInv

\* SLIST_REMOVE and free: what is freed is no longer listed.
LEMMA RemoveKeepsThreads ==
  ASSUME ThreadInv, RemoveJoined
  PROVE  ThreadInv'
<1> DEFINE c == Head(todo)
<1>1. /\ pc[Main] = "remove" /\ thread_list' = RemoveFirst(thread_list, c)
      /\ freed' = freed \cup {c} /\ todo' = Tail(todo) /\ Goto(Main, "scan")
      /\ UNCHANGED <<new_thread, target, joined, client>>
  BY DEF RemoveJoined, Unlinked, At, clients
<1>2. todo # <<>> /\ c \in joined /\ todo' \in Seq(Conn)
  BY <1>1, Popped DEF ThreadInv, MainInv, ThreadTypes
<1>3. /\ thread_list' \in Seq(Conn) /\ IsInjective(thread_list')
      /\ ToSet(thread_list') = ToSet(thread_list) \ {c}
  BY <1>1, UnlinkedFirst DEF ThreadInv, ThreadTypes, ListInv
<1> HIDE DEF c
<1>4. "scan" \in PlacesOf(Main)
  BY ThreadKinds DEF MainPlaces
<1>5. /\ pc' = [u \in Thread |-> pc'[u]] /\ \A u \in Thread : pc'[u] \in PlacesOf(u)
      /\ \A u \in Thread : pc'[u] = IF u = Main THEN "scan" ELSE pc[u]
  BY <1>1, <1>4, Moved, ThreadKinds DEF ThreadInv
<1>6. ThreadTypes'
  BY <1>1, <1>2, <1>3, <1>5 DEF ThreadInv, ThreadTypes, PlacesOf, Thread
<1>7. pc'[Main] = "scan" /\ \A d \in Conn : pc'[d] = pc[d]
  BY <1>5, ThreadKinds
<1>8. joined \subseteq Conn /\ ToSet(thread_list) \subseteq Conn
  BY ListMembers DEF ThreadInv, ThreadTypes
<1>9. ListInv'
  BY <1>1, <1>2, <1>3, <1>7, <1>8 DEF ThreadInv, ListInv, Started
<1>10. MainInv'
  BY <1>7 DEF MainInv
<1>11. \A t \in Thread : pc'[t] \in {"cleanup_pop", "cleanup_join"} => pc'[t] = pc[t]
  BY <1>1, <1>5
<1>12. CleanupInv'
  BY <1>1, <1>3, <1>7, <1>11 DEF ThreadInv, CleanupInv, Started
<1>13. AloneInv'
  BY <1>1, <1>3, <1>7 DEF ThreadInv, AloneInv, OnlyMainCleans
<1> QED
  BY <1>6, <1>9, <1>10, <1>12, <1>13 DEF ThreadInv

\* Where a step of a cleanup leaves the threads.
LEMMA CleanupMoved ==
  ASSUME ThreadTypes, NEW t \in Conn \cup {Main}, NEW place \in CleanupPlaces,
         pc[t] \in CleanupPlaces, Goto(t, place)
  PROVE  /\ t \in Thread /\ pc' = [u \in Thread |-> pc'[u]]
         /\ \A u \in Thread : pc'[u] = IF u = t THEN place ELSE pc[u]
         /\ \A u \in Thread : pc'[u] \in PlacesOf(u)
         /\ \A d \in Conn : Started(d)' <=> Started(d)
         /\ \A d \in Conn : pc[d] \in {"unborn", "exited"} => pc'[d] = pc[d]
         /\ pc'[Main] = pc[Main] \/ (pc[Main] \in CleanupPlaces /\ pc'[Main] \in CleanupPlaces)
         /\ OnlyMainCleans' => OnlyMainCleans /\ t = Main
<1>1. t \in Thread /\ place \in PlacesOf(t)
  BY ThreadKinds
<1>2. /\ pc' = [u \in Thread |-> pc'[u]] /\ \A u \in Thread : pc'[u] \in PlacesOf(u)
      /\ \A u \in Thread : pc'[u] = IF u = t THEN place ELSE pc[u]
  BY <1>1, Moved
<1>3. \A d \in Conn : Started(d)' <=> Started(d)
  BY <1>2, ThreadKinds DEF Started, CleanupPlaces
<1>4. \A d \in Conn : pc[d] \in {"unborn", "exited"} => pc'[d] = pc[d]
  BY <1>2, ThreadKinds DEF CleanupPlaces
<1>5. OnlyMainCleans' => OnlyMainCleans /\ t = Main
  BY <1>2, ThreadKinds DEF OnlyMainCleans
<1> QED
  BY <1>1, <1>2, <1>3, <1>4, <1>5, ThreadKinds

\* It leaves what main has in hand alone, and lists nothing.
LEMMA CleanupKeepsList ==
  ASSUME ThreadInv, NEW t \in Conn \cup {Main}, NEW place \in CleanupPlaces,
         pc[t] \in CleanupPlaces, Goto(t, place),
         UNCHANGED <<new_thread, todo, joined, client>>,
         thread_list' \in Seq(Conn), IsInjective(thread_list'),
         ToSet(thread_list') \subseteq ToSet(thread_list)
  PROVE  ListInv' /\ MainInv'
<1>1. /\ \A d \in Conn : Started(d)' <=> Started(d)
      /\ \A d \in Conn : pc[d] \in {"unborn", "exited"} => pc'[d] = pc[d]
      /\ pc'[Main] = pc[Main] \/ pc'[Main] \in CleanupPlaces
  BY CleanupMoved DEF ThreadInv
<1>2. joined \subseteq Conn /\ ToSet(thread_list) \subseteq Conn
  BY ListMembers DEF ThreadInv, ThreadTypes
<1>3. ListInv'
  <2>1. \A d \in ToSet(thread_list') : Started(d)'
    BY <1>1, <1>2 DEF ThreadInv, ListInv
  <2>2. \A d \in joined' : pc'[d] = "exited"
    BY <1>1, <1>2 DEF ThreadInv, ListInv
  <2>3. \A d \in Conn : client'[d] = "away" => pc'[d] = "unborn"
    BY <1>1 DEF ThreadInv, ListInv
  <2> QED
    BY <2>1, <2>2, <2>3 DEF ListInv
<1>4. MainInv'
  <2>1. \/ pc'[Main] = pc[Main]
        \/ pc'[Main] \notin {"create", "insert", "join", "remove"}
    BY <1>1 DEF CleanupPlaces
  <2> QED
    BY <1>1, <2>1 DEF ThreadInv, MainInv
<1> QED
  BY <1>3, <1>4

\* SLIST_EMPTY: the list is not, as long as nobody else empties it.
LEMMA TestKeepsThreads ==
  ASSUME ThreadInv, NEW t \in Conn \cup {Main}, TestList(t)
  PROVE  ThreadInv'
<1>1. /\ pc[t] = "cleanup" /\ thread_list # <<>> /\ Goto(t, "cleanup_first")
      /\ UNCHANGED <<thread_list, new_thread, todo, target, joined, freed, client>>
  BY DEF TestList, At, threads, clients
<1>2. pc[t] \in CleanupPlaces /\ "cleanup_first" \in CleanupPlaces
  BY <1>1 DEF CleanupPlaces
<1>3. /\ t \in Thread /\ pc' = [u \in Thread |-> pc'[u]]
      /\ \A u \in Thread : pc'[u] = IF u = t THEN "cleanup_first" ELSE pc[u]
      /\ \A u \in Thread : pc'[u] \in PlacesOf(u)
      /\ \A d \in Conn : Started(d)' <=> Started(d)
      /\ pc'[Main] = "insert" => pc[Main] = "insert"
      /\ OnlyMainCleans' => OnlyMainCleans /\ t = Main
  BY <1>1, <1>2, CleanupMoved DEF ThreadInv, CleanupPlaces
<1>4. ThreadTypes'
  BY <1>1, <1>3 DEF ThreadInv, ThreadTypes, PlacesOf, Thread
<1>5. ListInv' /\ MainInv'
  BY <1>1, <1>2, CleanupKeepsList DEF ThreadInv, ThreadTypes, ListInv
<1>6. CleanupInv'
  <2>1. \A u \in Thread : pc'[u] \in {"cleanup_pop", "cleanup_join"} => pc'[u] = pc[u]
    BY <1>3
  <2> QED
    BY <1>1, <1>3, <2>1 DEF ThreadInv, CleanupInv
<1>7. AloneInv'
  BY <1>1, <1>3 DEF ThreadInv, AloneInv
<1> QED
  BY <1>4, <1>5, <1>6, <1>7 DEF ThreadInv

\* SLIST_FIRST: what is taken has been started, and main does not hold it.
LEMMA TakeKeepsThreads ==
  ASSUME ThreadInv, NEW t \in Conn \cup {Main}, TakeFirst(t)
  PROVE  ThreadInv'
<1> DEFINE first == IF thread_list = <<>> THEN NoThread ELSE Head(thread_list)
<1>1. /\ pc[t] = "cleanup_first" /\ target' = [target EXCEPT ![t] = first]
      /\ Goto(t, "cleanup_pop")
      /\ UNCHANGED <<thread_list, new_thread, todo, joined, freed, client>>
  BY DEF TakeFirst, At, clients
<1>2. pc[t] \in CleanupPlaces /\ "cleanup_pop" \in CleanupPlaces
  BY <1>1 DEF CleanupPlaces
<1>3. /\ t \in Thread /\ pc' = [u \in Thread |-> pc'[u]]
      /\ \A u \in Thread : pc'[u] = IF u = t THEN "cleanup_pop" ELSE pc[u]
      /\ \A u \in Thread : pc'[u] \in PlacesOf(u)
      /\ \A d \in Conn : Started(d)' <=> Started(d)
      /\ pc'[Main] = "insert" => pc[Main] = "insert"
      /\ OnlyMainCleans' => OnlyMainCleans /\ t = Main
  BY <1>1, <1>2, CleanupMoved DEF ThreadInv, CleanupPlaces
<1>4. first = NoThread \/ (thread_list # <<>> /\ first \in ToSet(thread_list) /\ first \in Conn)
  BY Popped DEF ThreadInv, ThreadTypes
<1>5. first \in Conn => Started(first) /\ (pc[Main] = "insert" => first # new_thread)
  BY <1>4, ThreadKinds DEF ThreadInv, ListInv, MainInv
<1>6. thread_list # <<>> => first = Head(thread_list)
  OBVIOUS
<1> HIDE DEF first
<1>7. /\ target' \in [Thread -> Conn \cup {NoThread}] /\ target'[t] = first
      /\ \A u \in Thread : u # t => target'[u] = target[u]
  BY <1>1, <1>3, <1>4 DEF ThreadInv, ThreadTypes
<1>8. ThreadTypes'
  BY <1>1, <1>3, <1>7 DEF ThreadInv, ThreadTypes, PlacesOf, Thread
<1>9. ListInv' /\ MainInv'
  BY <1>1, <1>2, CleanupKeepsList DEF ThreadInv, ThreadTypes, ListInv
<1>10. CleanupInv'
  <2>1. ASSUME NEW u \in Thread, pc'[u] \in {"cleanup_pop", "cleanup_join"}
        PROVE  /\ pc'[u] = "cleanup_join" => target'[u] \in Conn
               /\ target'[u] \in Conn =>
                    Started(target[u])' /\ (pc'[Main] = "insert" => target'[u] # new_thread')
    <3>1. CASE u = t
      BY <1>1, <1>3, <1>5, <1>7, <3>1
    <3>2. CASE u # t
      BY <1>1, <1>3, <1>7, <2>1, <3>2 DEF ThreadInv, CleanupInv
    <3> QED
      BY <3>1, <3>2
  <2> QED
    BY <2>1 DEF CleanupInv
<1>11. AloneInv'
  BY <1>1, <1>3, <1>6, <1>7 DEF ThreadInv, AloneInv
<1> QED
  BY <1>8, <1>9, <1>10, <1>11 DEF ThreadInv

\* SLIST_REMOVE_HEAD.
LEMMA RemoveHeadKeepsThreads ==
  ASSUME ThreadInv, NEW t \in Conn \cup {Main}, RemoveHead(t)
  PROVE  ThreadInv'
<1>1. /\ pc[t] = "cleanup_pop" /\ thread_list # <<>> /\ target[t] # NoThread
      /\ thread_list' = Tail(thread_list) /\ Goto(t, "cleanup_join")
      /\ UNCHANGED <<new_thread, todo, target, joined, freed, client>>
  BY DEF RemoveHead, At, clients
<1>2. /\ thread_list' \in Seq(Conn) /\ IsInjective(thread_list')
      /\ ToSet(thread_list) = ToSet(thread_list') \cup {Head(thread_list)}
      /\ Head(thread_list) \notin ToSet(thread_list')
  BY <1>1, Popped DEF ThreadInv, ThreadTypes, ListInv
<1>3. pc[t] \in CleanupPlaces /\ "cleanup_join" \in CleanupPlaces
  BY <1>1 DEF CleanupPlaces
<1>4. /\ t \in Thread /\ pc' = [u \in Thread |-> pc'[u]]
      /\ \A u \in Thread : pc'[u] = IF u = t THEN "cleanup_join" ELSE pc[u]
      /\ \A u \in Thread : pc'[u] \in PlacesOf(u)
      /\ \A d \in Conn : Started(d)' <=> Started(d)
      /\ pc'[Main] = "insert" => pc[Main] = "insert"
      /\ OnlyMainCleans' => OnlyMainCleans /\ t = Main
  BY <1>1, <1>3, CleanupMoved DEF ThreadInv, CleanupPlaces
<1>5. ThreadTypes'
  BY <1>1, <1>2, <1>4 DEF ThreadInv, ThreadTypes, PlacesOf, Thread
<1>6. ListInv' /\ MainInv'
  BY <1>1, <1>2, <1>3, CleanupKeepsList
<1>7. target[t] \in Conn
  BY <1>1, <1>4 DEF ThreadInv, ThreadTypes
<1>8. CleanupInv'
  <2>1. \A u \in Thread : pc'[u] \in {"cleanup_pop", "cleanup_join"} =>
          pc[u] \in {"cleanup_pop", "cleanup_join"} /\ (u # t => pc'[u] = pc[u])
    BY <1>1, <1>4
  <2> QED
    BY <1>1, <1>4, <1>7, <2>1 DEF ThreadInv, CleanupInv
<1>9. AloneInv'
  BY <1>1, <1>2, <1>4 DEF ThreadInv, AloneInv
<1> QED
  BY <1>5, <1>6, <1>8, <1>9 DEF ThreadInv

\* pthread_join and free in a cleanup.
LEMMA CleanupJoinKeepsThreads ==
  ASSUME ThreadInv, NEW t \in Conn \cup {Main}, JoinThread(t)
  PROVE  ThreadInv'
<1> DEFINE c == target[t]
<1>1. /\ pc[t] = "cleanup_join" /\ pc[c] = "exited"
      /\ joined' = joined \cup {c} /\ freed' = freed \cup {c} /\ Goto(t, "cleanup")
      /\ UNCHANGED <<thread_list, new_thread, todo, target, client>>
  BY DEF JoinThread, Joinable, At, clients
<1>2. pc[t] \in CleanupPlaces /\ "cleanup" \in CleanupPlaces
  BY <1>1 DEF CleanupPlaces
<1>3. /\ t \in Thread /\ pc' = [u \in Thread |-> pc'[u]]
      /\ \A u \in Thread : pc'[u] = IF u = t THEN "cleanup" ELSE pc[u]
      /\ \A u \in Thread : pc'[u] \in PlacesOf(u)
      /\ \A d \in Conn : Started(d)' <=> Started(d)
      /\ \A d \in Conn : pc[d] \in {"unborn", "exited"} => pc'[d] = pc[d]
      /\ pc'[Main] = pc[Main] \/ pc'[Main] \in CleanupPlaces
      /\ OnlyMainCleans' => OnlyMainCleans /\ t = Main
  BY <1>1, <1>2, CleanupMoved DEF ThreadInv
<1>4. /\ c \in Conn /\ Started(c) /\ (pc[Main] = "insert" => c # new_thread)
      /\ OnlyMainCleans' => c \notin ToSet(thread_list)
  BY <1>1, <1>3 DEF ThreadInv, CleanupInv, AloneInv
<1> HIDE DEF c
<1>5. ThreadTypes'
  BY <1>1, <1>3, <1>4 DEF ThreadInv, ThreadTypes, PlacesOf, Thread
<1>6. joined \subseteq Conn /\ ToSet(thread_list) \subseteq Conn
  BY ListMembers DEF ThreadInv, ThreadTypes
<1>7. ListInv'
  <2>1. \A d \in joined' : pc'[d] = "exited"
    BY <1>1, <1>3, <1>4, <1>6 DEF ThreadInv, ListInv
  <2>2. \A d \in Conn : client'[d] = "away" => pc'[d] = "unborn"
    BY <1>1, <1>3 DEF ThreadInv, ListInv
  <2> QED
    BY <1>1, <1>3, <1>6, <2>1, <2>2 DEF ThreadInv, ListInv
<1>8. MainInv'
  <2>1. \/ pc'[Main] = pc[Main]
        \/ pc'[Main] \notin {"create", "insert", "join", "remove"}
    BY <1>3 DEF CleanupPlaces
  <2>2. pc[Main] = "create" => c # new_thread
    BY <1>1, <1>4 DEF ThreadInv, MainInv
  <2> QED
    BY <1>1, <1>3, <1>4, <2>1, <2>2 DEF ThreadInv, MainInv
<1>9. CleanupInv'
  <2>1. \A u \in Thread : pc'[u] \in {"cleanup_pop", "cleanup_join"} => pc'[u] = pc[u]
    BY <1>3
  <2>2. pc'[Main] = "insert" => pc[Main] = "insert"
    BY <1>3 DEF CleanupPlaces
  <2> QED
    BY <1>1, <1>3, <2>1, <2>2 DEF ThreadInv, CleanupInv
<1>10. AloneInv'
  BY <1>1, <1>3, <1>4 DEF ThreadInv, AloneInv
<1> QED
  BY <1>5, <1>7, <1>8, <1>9, <1>10 DEF ThreadInv

\* A process that has just been started has no threads.
LEMMA FreshThreads ==
  ASSUME thread_list = <<>>, todo = <<>>, new_thread = NoThread,
         target = [t \in Thread |-> NoThread], joined = {}, freed = {},
         client \in [Conn -> {"away", "open", "closed"}],
         pc = [t \in Thread |-> pc[t]], pc[Main] = "start", pc[Stamper] = "unborn",
         \A c \in Conn : pc[c] \in IF client[c] = "away" THEN {"unborn"}
                                   ELSE {"unborn", "gone"}
  PROVE  ThreadInv
<1>1. <<>> \in Seq(Conn) /\ ToSet(<<>>) = {} /\ IsInjective(<<>>)
  BY DEF ToSet, IsInjective
<1>2. \A t \in Thread : pc[t] \in PlacesOf(t) /\ pc[t] \notin CleanupPlaces
  BY ThreadKinds DEF Thread, MainPlaces, SetUpPlaces, WorkerPlaces, StamperPlaces, CleanupPlaces
<1>3. ThreadTypes
  BY <1>1, <1>2 DEF ThreadTypes
<1>4. \A c \in Conn : ~Started(c)
  BY DEF Started
<1>5. ListInv
  BY <1>1 DEF ListInv
<1>6. MainInv /\ CleanupInv /\ AloneInv
  BY <1>1, <1>2 DEF MainInv, CleanupInv, AloneInv, CleanupPlaces
<1> QED
  BY <1>3, <1>4, <1>5, <1>6 DEF ThreadInv

LEMMA InitHasThreads ==
  ASSUME Init
  PROVE  ThreadInv
<1>1. /\ pc = [t \in Thread |-> pc[t]] /\ pc[Main] = "start" /\ pc[Stamper] = "unborn"
      /\ \A c \in Conn : pc[c] = "unborn"
      /\ client \in [Conn -> {"away", "open", "closed"}]
  BY ThreadKinds DEF Init
<1> QED
  BY <1>1, FreshThreads DEF Init

LEMMA RestartKeepsThreads ==
  ASSUME Restart
  PROVE  ThreadInv'
<1>1. /\ pc' = [t \in Thread |-> pc'[t]] /\ pc'[Main] = "start" /\ pc'[Stamper] = "unborn"
      /\ client' \in [Conn -> {"away", "open", "closed"}]
      /\ \A c \in Conn : pc'[c] \in IF client'[c] = "away" THEN {"unborn"}
                                    ELSE {"unborn", "gone"}
  BY ThreadKinds DEF Restart
<1>2. /\ thread_list' = <<>> /\ todo' = <<>> /\ new_thread' = NoThread
      /\ target' = [t \in Thread |-> NoThread] /\ joined' = {} /\ freed' = {}
  BY DEF Restart
<1>3. <<>> \in Seq(Conn) /\ ToSet(<<>>) = {} /\ IsInjective(<<>>)
  BY DEF ToSet, IsInjective
<1>4. \A t \in Thread : pc'[t] \in PlacesOf(t) /\ pc'[t] \notin CleanupPlaces
  BY <1>1, ThreadKinds
     DEF Thread, MainPlaces, SetUpPlaces, WorkerPlaces, StamperPlaces, CleanupPlaces
<1>5. ThreadTypes'
  BY <1>1, <1>2, <1>3, <1>4 DEF ThreadTypes, PlacesOf, Thread
<1>6. \A c \in Conn : ~Started(c)'
  BY <1>1 DEF Started
<1>7. ListInv'
  BY <1>1, <1>2, <1>3 DEF ListInv
<1>8. MainInv' /\ CleanupInv' /\ AloneInv'
  BY <1>1, <1>2, <1>4 DEF MainInv, CleanupInv, AloneInv, CleanupPlaces
<1> QED
  BY <1>5, <1>6, <1>7, <1>8 DEF ThreadInv

LEMMA StepKeepsThreads ==
  ASSUME ThreadInv, [Next]_vars
  PROVE  ThreadInv'
<1>1. CASE \E c \in Conn : Worker(c)
  BY <1>1, WorkerIsPlain, PlainKeepsThreads DEF ThreadInv
<1>2. CASE \E c \in Conn : Accept(c)
  BY <1>2, AcceptKeepsThreads
<1>3. CASE \E c \in Conn : ClientSends(c) \/ ClientCloses(c)
  <2>1. Plain
    BY <1>3, OthersArePlain DEF ThreadInv
  <2> QED
    BY <2>1, PlainKeepsThreads
<1>4. CASE SetUp \/ Signal
  BY <1>4, SetUpIsPlain, PlainKeepsThreads DEF ThreadInv
<1>5. CASE Create \/ Insert \/ Scan \/ Join \/ RemoveJoined
  BY <1>5, CreateKeepsThreads, InsertKeepsThreads, ScanKeepsThreads, JoinKeepsThreads,
     RemoveKeepsThreads
<1>6. CASE StamperStep
  BY <1>6, StamperIsPlain, PlainKeepsThreads DEF ThreadInv
<1>7. CASE Restart
  BY <1>7, RestartKeepsThreads
<1>8. CASE \E t \in Conn \cup {Main} :
             TestList(t) \/ TakeFirst(t) \/ RemoveHead(t) \/ JoinThread(t)
  BY <1>8, TestKeepsThreads, TakeKeepsThreads, RemoveHeadKeepsThreads,
     CleanupJoinKeepsThreads
<1>9. CASE \/ \E t \in Conn \cup {Main} : RemoveHeadCrashes(t) \/ JoinFails(t) \/ Exit(t)
           \/ UNCHANGED vars
  <2>1. Plain
    BY <1>9, OthersArePlain DEF ThreadInv
  <2> QED
    BY <2>1, PlainKeepsThreads
<1> QED
  BY <1>1, <1>2, <1>3, <1>4, <1>5, <1>6, <1>7, <1>8, <1>9
     DEF Next, Client, MainStep, Cleanup, Rest

\* The invariant holds of every server.
LEMMA ThreadsKept == Spec => []ThreadInv
<1>1. Init => ThreadInv
  BY InitHasThreads
<1>2. ThreadInv /\ [Next]_vars => ThreadInv'
  BY StepKeepsThreads
<1> QED
  BY <1>1, <1>2, PTL DEF Spec

\* "free(thread)" (aesdsocket.c:74 and 370): whoever frees a thread_info_t, the
\* walk in main or a cleanup in any thread, its thread has returned; and as long as
\* no thread but main is in cleanup nothing reaches it through thread_list.
THEOREM NothingListedIsFreed == Spec => []ThreadInfoIsLive
<1>1. ThreadInv => ThreadInfoIsLive
  <2> SUFFICES ASSUME ThreadInv PROVE ThreadInfoIsLive
    OBVIOUS
  <2> QED
    BY DEF ThreadInv, ThreadTypes, ListInv, AloneInv, ThreadInfoIsLive
<1> QED
  BY <1>1, ThreadsKept, PTL

\* Until the process is started again a thread that is in cleanup stays there.
LEMMA CleaningGoesOn ==
  ASSUME ThreadInv, [Next]_vars, OnlyMainCleans'
  PROVE  OnlyMainCleans \/ Restart
<1>1. CASE \/ \E c \in Conn : Worker(c) \/ ClientSends(c) \/ ClientCloses(c)
           \/ SetUp \/ Signal \/ StamperStep
           \/ \E t \in Conn \cup {Main} : RemoveHeadCrashes(t) \/ JoinFails(t) \/ Exit(t)
           \/ UNCHANGED vars
  <2>1. Plain
    BY <1>1, WorkerIsPlain, SetUpIsPlain, StamperIsPlain, OthersArePlain DEF ThreadInv
  <2> QED
    BY <2>1, ThreadKinds DEF Plain, OnlyMainCleans
<1>2. CASE (\E c \in Conn : Accept(c)) \/ Create \/ Insert \/ Scan \/ Join \/ RemoveJoined
  <2>1. \/ UNCHANGED pc
        \/ \E place \in MainPlaces \cup CleanupPlaces : Goto(Main, place)
        \/ pc' = [pc EXCEPT ![Main] = "insert", ![new_thread] = "open"] /\ pc[Main] = "create"
    BY <1>2 DEF Accept, Create, Insert, Scan, Join, RemoveJoined, At, MainPlaces, CleanupPlaces
  <2>2. pc[Main] = "create" => pc[new_thread] = "unborn"
    BY DEF ThreadInv, MainInv
  <2>3. \A c \in Conn : pc[c] \in CleanupPlaces => pc'[c] = pc[c]
    BY <2>1, <2>2, ThreadKinds DEF ThreadInv, ThreadTypes, Goto, CleanupPlaces
  <2> QED
    BY <2>3 DEF OnlyMainCleans
<1>3. ASSUME NEW t \in Conn \cup {Main},
             TestList(t) \/ TakeFirst(t) \/ RemoveHead(t) \/ JoinThread(t)
      PROVE  OnlyMainCleans
  <2>1. pc[t] \in CleanupPlaces /\ \E place \in CleanupPlaces : Goto(t, place)
    BY <1>3 DEF TestList, TakeFirst, RemoveHead, JoinThread, At, CleanupPlaces
  <2> QED
    BY <2>1, CleanupMoved DEF ThreadInv
<1> QED
  BY <1>1, <1>2, <1>3 DEF Next, Client, MainStep, Cleanup, Rest

\* Where a thread is that has been started, as long as main alone cleans up.
Accounted(c) ==
  \/ c \in joined \/ c \in ToSet(thread_list)
  \/ pc[Main] = "insert" /\ new_thread = c
  \/ pc[Main] = "cleanup_join" /\ target[Main] = c

AccountedInv == OnlyMainCleans => \A c \in Conn : Started(c) => Accounted(c)

LEMMA PlainKeepsAccounted ==
  ASSUME OnlyMainCleans, AccountedInv, Plain,
         pc[Main] = "insert" => pc'[Main] = "insert"
  PROVE  AccountedInv'
<1>1. UNCHANGED <<thread_list, new_thread, target, joined>>
  BY DEF Plain, threads
<1>2. \A c \in Conn : Started(c)' <=> Started(c)
  BY DEF Plain, Started
<1>3. pc[Main] = "cleanup_join" => pc'[Main] = "cleanup_join"
  BY ThreadKinds DEF Plain, CleanupPlaces
<1> QED
  BY <1>1, <1>2, <1>3 DEF AccountedInv, Accounted

\* main's loop.
LEMMA LoopKeepsAccounted ==
  ASSUME OnlyMainCleans, ThreadInv, AccountedInv,
         (\E c \in Conn : Accept(c)) \/ Create \/ Insert \/ Scan \/ Join \/ RemoveJoined
  PROVE  AccountedInv'
<1>1. \A place \in {"create", "insert", "accept", "scan", "join", "remove", "cleanup"} :
        Goto(Main, place) => pc'[Main] = place /\ \A c \in Conn : pc'[c] = pc[c]
  BY ThreadKinds DEF Goto, ThreadInv, ThreadTypes
<1>2. CASE \E c \in Conn : Accept(c)
  BY <1>1, <1>2 DEF Accept, At, AccountedInv, Accounted, Started
<1>3. CASE Create
  <2>1. /\ pc[Main] = "create" /\ UNCHANGED <<thread_list, new_thread, target, joined>>
        /\ \/ pc' = [pc EXCEPT ![Main] = "insert", ![new_thread] = "open"]
           \/ Goto(Main, "cleanup")
    BY <1>3 DEF Create, At, threads
  <2>2. CASE Goto(Main, "cleanup")
    BY <1>1, <2>1, <2>2 DEF AccountedInv, Accounted, Started
  <2>3. CASE pc' = [pc EXCEPT ![Main] = "insert", ![new_thread] = "open"]
    <3>1. new_thread \in Conn
      BY <2>1 DEF ThreadInv, MainInv
    <3>2. pc'[Main] = "insert" /\ \A c \in Conn : c # new_thread => pc'[c] = pc[c]
      BY <2>3, <3>1, ThreadKinds DEF ThreadInv, ThreadTypes
    <3> QED
      BY <2>1, <3>2 DEF AccountedInv, Accounted, Started
  <2> QED
    BY <2>1, <2>2, <2>3
<1>4. CASE Insert
  <2>1. /\ pc[Main] = "insert" /\ thread_list' = <<new_thread>> \o thread_list
        /\ Goto(Main, "scan") /\ UNCHANGED joined
    BY <1>4 DEF Insert, At
  <2>2. ToSet(thread_list') = ToSet(thread_list) \cup {new_thread}
    BY <2>1, Pushed DEF ThreadInv, ThreadTypes, MainInv
  <2> QED
    BY <1>1, <2>1, <2>2 DEF AccountedInv, Accounted, Started
<1>5. CASE Scan
  <2>1. /\ pc[Main] = "scan" /\ UNCHANGED <<thread_list, joined>>
        /\ Goto(Main, "accept") \/ Goto(Main, "join") \/ UNCHANGED pc
    BY <1>5 DEF Scan, At
  <2> QED
    BY <1>1, <2>1 DEF AccountedInv, Accounted, Started
<1>6. CASE Join
  <2>1. /\ pc[Main] = "join" /\ UNCHANGED thread_list /\ joined \subseteq joined'
        /\ Goto(Main, "remove") \/ Goto(Main, "cleanup")
    BY <1>6 DEF Join, At
  <2> QED
    BY <1>1, <2>1 DEF AccountedInv, Accounted, Started
<1>7. CASE RemoveJoined
  <2>1. /\ pc[Main] = "remove" /\ thread_list' = RemoveFirst(thread_list, Head(todo))
        /\ Goto(Main, "scan") /\ UNCHANGED joined
    BY <1>7 DEF RemoveJoined, Unlinked, At
  <2>2. ToSet(thread_list') = ToSet(thread_list) \ {Head(todo)} /\ Head(todo) \in joined
    BY <2>1, UnlinkedFirst DEF ThreadInv, ThreadTypes, ListInv, MainInv
  <2> QED
    BY <1>1, <2>1, <2>2 DEF AccountedInv, Accounted, Started
<1> QED
  BY <1>2, <1>3, <1>4, <1>5, <1>6, <1>7

\* main's cleanup.
LEMMA CleanupKeepsAccounted ==
  ASSUME OnlyMainCleans, ThreadInv, AccountedInv,
         TestList(Main) \/ TakeFirst(Main) \/ RemoveHead(Main) \/ JoinThread(Main)
  PROVE  AccountedInv'
<1>1. \A place \in CleanupPlaces :
        Goto(Main, place) => pc'[Main] = place /\ \A c \in Conn : pc'[c] = pc[c]
  BY ThreadKinds DEF Goto, ThreadInv, ThreadTypes
<1>2. CASE TestList(Main) \/ TakeFirst(Main)
  <2>1. /\ pc[Main] \in {"cleanup", "cleanup_first"} /\ UNCHANGED <<thread_list, joined>>
        /\ \E place \in CleanupPlaces : Goto(Main, place)
    BY <1>2 DEF TestList, TakeFirst, At, threads, CleanupPlaces
  <2> QED
    BY <1>1, <2>1 DEF AccountedInv, Accounted, Started
<1>3. CASE RemoveHead(Main)
  <2>1. /\ pc[Main] = "cleanup_pop" /\ thread_list' = Tail(thread_list)
        /\ Goto(Main, "cleanup_join") /\ UNCHANGED <<joined, target>>
    BY <1>3 DEF RemoveHead, At
  <2>2. thread_list # <<>> /\ target[Main] = Head(thread_list)
    BY <2>1 DEF ThreadInv, AloneInv
  <2>3. ToSet(thread_list) = ToSet(thread_list') \cup {target[Main]}
    BY <2>1, <2>2, Popped DEF ThreadInv, ThreadTypes
  <2>4. "cleanup_join" \in CleanupPlaces
    BY DEF CleanupPlaces
  <2> QED
    BY <1>1, <2>1, <2>3, <2>4 DEF AccountedInv, Accounted, Started
<1>4. CASE JoinThread(Main)
  <2>1. /\ pc[Main] = "cleanup_join" /\ UNCHANGED thread_list
        /\ joined' = joined \cup {target[Main]} /\ Goto(Main, "cleanup")
    BY <1>4 DEF JoinThread, At
  <2>2. "cleanup" \in CleanupPlaces
    BY DEF CleanupPlaces
  <2> QED
    BY <1>1, <2>1, <2>2 DEF AccountedInv, Accounted, Started
<1> QED
  BY <1>2, <1>3, <1>4

LEMMA StepKeepsAccounted ==
  ASSUME "insert" \notin SignalAt, ThreadInv, AccountedInv, [Next]_vars
  PROVE  AccountedInv'
<1>1. CASE Restart
  BY <1>1, RestartKeepsThreads, ThreadKinds DEF Restart, AccountedInv, Started
<1> SUFFICES ASSUME OnlyMainCleans', ~Restart PROVE AccountedInv'
  BY <1>1 DEF AccountedInv
<1>2. OnlyMainCleans
  BY CleaningGoesOn
<1>3. CASE StamperStep \/ \E c \in Conn : Worker(c)
  BY <1>2, <1>3, StamperIsPlain, WorkerIsPlain, PlainKeepsAccounted DEF ThreadInv
<1>4. CASE SetUp \/ Signal
  <2>1. pc[Main] # "insert"
    BY <1>4 DEF SetUp, Start, CreateSocket, Bind, ListenOn, CreateStamper, Signal, At
  <2> QED
    BY <1>2, <1>4, <2>1, SetUpIsPlain, PlainKeepsAccounted DEF ThreadInv
<1>5. CASE \/ \E c \in Conn : ClientSends(c) \/ ClientCloses(c)
           \/ \E t \in Conn \cup {Main} : RemoveHeadCrashes(t) \/ JoinFails(t) \/ Exit(t)
           \/ UNCHANGED vars
  <2>1. UNCHANGED pc
    BY <1>5 DEF ClientSends, ClientCloses, RemoveHeadCrashes, JoinFails, Exit, vars
  <2> QED
    BY <1>2, <1>5, <2>1, OthersArePlain, PlainKeepsAccounted DEF ThreadInv
<1>6. CASE (\E c \in Conn : Accept(c)) \/ Create \/ Insert \/ Scan \/ Join \/ RemoveJoined
  BY <1>2, <1>6, LoopKeepsAccounted
<1>7. ASSUME NEW t \in Conn \cup {Main},
             TestList(t) \/ TakeFirst(t) \/ RemoveHead(t) \/ JoinThread(t)
      PROVE  AccountedInv'
  <2>1. pc[t] \in CleanupPlaces
    BY <1>7 DEF TestList, TakeFirst, RemoveHead, JoinThread, At, CleanupPlaces
  <2>2. t = Main
    BY <1>2, <2>1 DEF OnlyMainCleans
  <2> QED
    BY <1>2, <1>7, <2>2, CleanupKeepsAccounted
<1> QED
  BY <1>3, <1>4, <1>5, <1>6, <1>7 DEF Next, Client, MainStep, Cleanup, Rest

\* "SLIST_INSERT_HEAD" (aesdsocket.c:357): when no signal comes between
\* pthread_create and it, and as long as no thread but main is in cleanup, a
\* thread that has been started is listed, or main is about to list or to join it,
\* or it has been joined, whatever fails and wherever else a signal comes.
THEOREM NoThreadIsLost ==
  ASSUME "insert" \notin SignalAt
  PROVE  Spec => []ThreadsAccounted
<1>1. Init => ThreadInv /\ AccountedInv
  <2> SUFFICES ASSUME Init PROVE ThreadInv /\ AccountedInv
    OBVIOUS
  <2>1. \A c \in Conn : ~Started(c)
    BY ThreadKinds DEF Init, Started
  <2> QED
    BY <2>1, InitHasThreads DEF AccountedInv
<1>2. ThreadInv /\ AccountedInv /\ [Next]_vars => (ThreadInv /\ AccountedInv)'
  BY StepKeepsThreads, StepKeepsAccounted
<1>3. ThreadInv /\ AccountedInv => ThreadsAccounted
  <2> SUFFICES ASSUME ThreadInv, AccountedInv PROVE ThreadsAccounted
    OBVIOUS
  <2> QED
    BY ListMembers DEF ThreadInv, ThreadTypes, AccountedInv, Started, Accounted,
                       ThreadsAccounted
<1> QED
  BY <1>1, <1>2, <1>3, PTL DEF Spec

----------------------------------------------------------------------------
(* Clients that come one at a time.                                        *)

\* What is listed besides the thread main has started last has returned, and is
\* still before main in its walk.
ReapedInv ==
  /\ pc[Main] \in SetUpPlaces => ToSet(thread_list) = {}
  /\ pc[Main] = "accept" => ToSet(thread_list) \subseteq {new_thread}
  /\ pc[Main] \in {"create", "insert"} => \A c \in ToSet(thread_list) : pc[c] = "exited"
  /\ pc[Main] \in {"scan", "join", "remove"} =>
       \A c \in ToSet(thread_list) \ {new_thread} : pc[c] = "exited" /\ c \in ToSet(todo)

\* Steps outside main's loop.
LEMMA AsideKeepsReaped ==
  ASSUME ThreadTypes, ReapedInv, UNCHANGED <<new_thread, todo>>,
         ToSet(thread_list') \subseteq ToSet(thread_list),
         \A c \in Conn : pc[c] = "exited" => pc'[c] = "exited",
         \/ pc'[Main] = pc[Main] \/ pc'[Main] \in CleanupPlaces
         \/ pc[Main] \in SetUpPlaces /\ pc'[Main] \in SetUpPlaces \cup {"accept"}
  PROVE  ReapedInv'
<1>1. ToSet(thread_list) \subseteq Conn
  BY ListMembers DEF ThreadTypes
<1>2. CASE pc'[Main] = pc[Main]
  BY <1>1, <1>2 DEF ReapedInv
<1>3. CASE pc'[Main] \in CleanupPlaces
  BY <1>3 DEF ReapedInv, CleanupPlaces, SetUpPlaces
<1>4. CASE pc[Main] \in SetUpPlaces /\ pc'[Main] \in SetUpPlaces \cup {"accept"}
  BY <1>4 DEF ReapedInv, SetUpPlaces
<1> QED
  BY <1>2, <1>3, <1>4

LEMMA PlainKeepsReaped ==
  ASSUME ThreadInv, ReapedInv, Plain
  PROVE  ReapedInv'
<1>1. /\ UNCHANGED <<thread_list, new_thread, todo>>
      /\ \A c \in Conn : pc[c] = "exited" => pc'[c] = "exited"
  BY DEF Plain, threads
<1>2. \/ pc'[Main] = pc[Main] \/ pc'[Main] \in CleanupPlaces
      \/ pc[Main] \in SetUpPlaces /\ pc'[Main] \in SetUpPlaces \cup {"accept"}
  BY DEF Plain, CleanupPlaces
<1> QED
  BY <1>1, <1>2, AsideKeepsReaped DEF ThreadInv

\* main's loop.
LEMMA LoopKeepsReaped ==
  ASSUME ~Overlap, OnlyMainCleans, ThreadInv, ReapedInv,
         (\E c \in Conn : Accept(c)) \/ Create \/ Insert \/ Scan \/ Join \/ RemoveJoined
  PROVE  ReapedInv'
<1> DEFINE Listed == ToSet(thread_list)
<1>1. /\ ThreadTypes /\ Listed \subseteq Conn /\ \A c \in Listed : Started(c)
      /\ thread_list \in Seq(Conn) /\ todo \in Seq(Conn)
  BY ListMembers DEF ThreadInv, ListInv, ThreadTypes
<1>2. \A place \in {"create", "insert", "accept", "scan", "join", "remove", "cleanup"} :
        Goto(Main, place) =>
          pc'[Main] = place /\ \A c \in Conn : pc'[c] = pc[c]
  BY <1>1, ThreadKinds DEF Goto, ThreadTypes
<1>3. ASSUME NEW c \in Conn, Accept(c) PROVE ReapedInv'
  <2>1. /\ pc[Main] = "accept" /\ new_thread' = c /\ UNCHANGED thread_list
        /\ Goto(Main, "create") \/ Goto(Main, "cleanup")
        /\ client[c] = "away"
        /\ \A d \in Conn \ {c} : client[d] = "away" \/ pc[d] \in {"exited", "gone"}
    BY <1>3 DEF Accept, At
  <2>2. \A d \in Conn : client[d] = "away" => ~Started(d)
    BY DEF ThreadInv, ListInv, Started
  <2>3. \A d \in Listed : pc[d] = "exited"
    BY <1>1, <2>1, <2>2 DEF Started
  <2> QED
    BY <1>1, <1>2, <2>1, <2>3 DEF ReapedInv, SetUpPlaces
<1>4. CASE Create
  <2>1. /\ pc[Main] = "create" /\ UNCHANGED <<thread_list, new_thread, todo>>
        /\ \/ pc' = [pc EXCEPT ![Main] = "insert", ![new_thread] = "open"]
           \/ Goto(Main, "cleanup")
    BY <1>4 DEF Create, At, threads
  <2>2. new_thread \in Conn \ Listed /\ new_thread # Main
    BY <2>1, ThreadKinds DEF ThreadInv, MainInv
  <2>3. CASE Goto(Main, "cleanup")
    BY <1>2, <2>3 DEF ReapedInv, SetUpPlaces
  <2>4. CASE pc' = [pc EXCEPT ![Main] = "insert", ![new_thread] = "open"]
    <3>1. pc'[Main] = "insert" /\ \A c \in Listed : pc'[c] = pc[c]
      BY <1>1, <2>2, <2>4, ThreadKinds DEF ThreadTypes
    <3> QED
      BY <2>1, <3>1 DEF ReapedInv, SetUpPlaces
  <2> QED
    BY <2>1, <2>3, <2>4
<1>5. CASE Insert
  <2>1. /\ pc[Main] = "insert" /\ thread_list' = <<new_thread>> \o thread_list
        /\ todo' = thread_list' /\ Goto(Main, "scan") /\ UNCHANGED new_thread
    BY <1>5 DEF Insert, At
  <2>2. ToSet(thread_list') = Listed \cup {new_thread}
    BY <1>1, <2>1, Pushed DEF ThreadInv, MainInv
  <2> QED
    BY <1>1, <1>2, <2>1, <2>2 DEF ReapedInv, SetUpPlaces
<1>6. CASE Scan
  <2>1. /\ pc[Main] = "scan" /\ UNCHANGED <<thread_list, new_thread>>
        /\ \/ todo = <<>> /\ Goto(Main, "accept") /\ UNCHANGED todo
           \/ Goto(Main, "join") /\ UNCHANGED todo
           \/ /\ todo # <<>> /\ (pc[Head(todo)] # "exited" \/ Head(todo) \in freed)
              /\ todo' = Tail(todo) /\ UNCHANGED pc
    BY <1>6 DEF Scan, At
  <2>2. \A c \in Listed \ {new_thread} : pc[c] = "exited" /\ c \in ToSet(todo)
    BY <2>1 DEF ReapedInv
  <2>3. CASE todo = <<>> /\ Goto(Main, "accept") /\ UNCHANGED todo
    <3>1. ToSet(todo) = {}
      BY <2>3 DEF ToSet
    <3> QED
      BY <1>2, <2>1, <2>2, <2>3, <3>1 DEF ReapedInv, SetUpPlaces
  <2>4. CASE Goto(Main, "join") /\ UNCHANGED todo
    BY <1>1, <1>2, <2>1, <2>2, <2>4 DEF ReapedInv, SetUpPlaces
  <2>5. CASE /\ todo # <<>> /\ (pc[Head(todo)] # "exited" \/ Head(todo) \in freed)
             /\ todo' = Tail(todo) /\ UNCHANGED pc
    <3>1. ToSet(todo) = ToSet(todo') \cup {Head(todo)}
      BY <1>1, <2>5, Popped
    <3>2. Listed \cap freed = {}
      BY DEF ThreadInv, AloneInv
    <3> QED
      BY <2>1, <2>2, <2>5, <3>1, <3>2 DEF ReapedInv, SetUpPlaces
  <2> QED
    BY <2>1, <2>3, <2>4, <2>5
<1>7. CASE Join
  BY <1>1, <1>2, <1>7 DEF Join, At, ReapedInv, SetUpPlaces
<1>8. CASE RemoveJoined
  <2>1. /\ pc[Main] = "remove" /\ thread_list' = RemoveFirst(thread_list, Head(todo))
        /\ todo' = Tail(todo) /\ Goto(Main, "scan") /\ UNCHANGED new_thread
    BY <1>8 DEF RemoveJoined, Unlinked, At
  <2>2. ToSet(thread_list') = Listed \ {Head(todo)}
    BY <1>1, <2>1, UnlinkedFirst DEF ThreadInv, ListInv
  <2>3. ToSet(todo) = ToSet(todo') \cup {Head(todo)}
    BY <1>1, <2>1, Popped DEF ThreadInv, MainInv
  <2> QED
    BY <1>1, <1>2, <2>1, <2>2, <2>3 DEF ReapedInv, SetUpPlaces
<1> QED
  BY <1>3, <1>4, <1>5, <1>6, <1>7, <1>8

LEMMA StepKeepsReaped ==
  ASSUME ~Overlap, OnlyMainCleans, ThreadInv, ReapedInv, [Next]_vars
  PROVE  ReapedInv'
<1>1. CASE Restart
  BY <1>1, ThreadKinds DEF Restart, ReapedInv, SetUpPlaces, ToSet
<1>2. ASSUME NEW t \in Conn \cup {Main},
             TestList(t) \/ TakeFirst(t) \/ RemoveHead(t) \/ JoinThread(t)
      PROVE  ReapedInv'
  <2>1. /\ pc[t] \in CleanupPlaces /\ UNCHANGED <<new_thread, todo>>
        /\ \E place \in CleanupPlaces : Goto(t, place)
        /\ \/ UNCHANGED thread_list
           \/ thread_list # <<>> /\ thread_list' = Tail(thread_list)
    BY <1>2 DEF TestList, TakeFirst, RemoveHead, JoinThread, At, threads, CleanupPlaces
  <2>2. ToSet(thread_list') \subseteq ToSet(thread_list)
    <3>1. thread_list \in Seq(Conn)
      BY DEF ThreadInv, ThreadTypes
    <3>2. thread_list # <<>> => ToSet(Tail(thread_list)) \subseteq ToSet(thread_list)
      BY <3>1, Popped
    <3> QED
      BY <2>1, <3>2
  <2>3. /\ \A c \in Conn : pc[c] = "exited" => pc'[c] = "exited"
        /\ pc'[Main] = pc[Main] \/ pc'[Main] \in CleanupPlaces
    BY <2>1, CleanupMoved DEF ThreadInv
  <2> QED
    BY <2>1, <2>2, <2>3, AsideKeepsReaped DEF ThreadInv
<1>3. CASE (\E c \in Conn : Accept(c)) \/ Create \/ Insert \/ Scan \/ Join \/ RemoveJoined
  BY <1>3, LoopKeepsReaped
<1>4. CASE SetUp \/ Signal \/ StamperStep \/ \E c \in Conn : Worker(c)
  BY <1>4, SetUpIsPlain, StamperIsPlain, WorkerIsPlain, PlainKeepsReaped DEF ThreadInv
<1>5. CASE \/ \E c \in Conn : ClientSends(c) \/ ClientCloses(c)
           \/ \E t \in Conn \cup {Main} : RemoveHeadCrashes(t) \/ JoinFails(t) \/ Exit(t)
           \/ UNCHANGED vars
  BY <1>5, OthersArePlain, PlainKeepsReaped DEF ThreadInv
<1> QED
  BY <1>1, <1>2, <1>3, <1>4, <1>5 DEF Next, Client, MainStep, Cleanup, Rest

\* A process that has been started again has reaped nothing.
LEMMA RestartIsReaped ==
  ASSUME Restart
  PROVE  ReapedInv'
BY ThreadKinds DEF Restart, ReapedInv, SetUpPlaces, ToSet

\* "Join complete threads" (aesdsocket.c:360): when clients come one at a
\* time main is back in accept with no more than one thread_info_t, whatever
\* fails and wherever a signal comes, as long as no thread but main is in cleanup.
THEOREM WalkReapsThreads ==
  ASSUME ~Overlap
  PROVE  Spec => [](OnlyMainCleans => FinishedThreadsReaped)
<1>1. Init => ThreadInv /\ ReapedInv
  <2> SUFFICES ASSUME Init PROVE ThreadInv /\ ReapedInv
    OBVIOUS
  <2>1. ToSet(thread_list) = {} /\ pc[Main] = "start"
    BY ThreadKinds DEF Init, ToSet
  <2> QED
    BY <2>1, InitHasThreads DEF ReapedInv
<1>2. ThreadInv /\ (OnlyMainCleans => ReapedInv) /\ [Next]_vars =>
        (ThreadInv /\ (OnlyMainCleans => ReapedInv))'
  BY StepKeepsThreads, StepKeepsReaped, CleaningGoesOn, RestartIsReaped
<1>3. ThreadInv /\ ReapedInv => FinishedThreadsReaped
  <2> SUFFICES ASSUME ThreadInv, ReapedInv, pc[Main] = "accept"
               PROVE  Len(thread_list) <= 1
    BY DEF FinishedThreadsReaped
  <2>1. thread_list \in Seq(Conn) /\ Len(thread_list) \in Nat
    BY DEF ThreadInv, ThreadTypes
  <2>2. IsInjective(thread_list) /\ ToSet(thread_list) \subseteq {new_thread}
    BY DEF ThreadInv, ListInv, ReapedInv
  <2>3. /\ \A i, j \in 1 .. Len(thread_list) : thread_list[i] = thread_list[j] => i = j
        /\ ToSet(thread_list) = {thread_list[i] : i \in 1 .. Len(thread_list)}
    BY <2>1, <2>2, ListMembers
  <2>4. \A i \in 1 .. Len(thread_list) : thread_list[i] = new_thread
    BY <2>2, <2>3
  <2>5. ASSUME Len(thread_list) > 1 PROVE FALSE
    <3>1. 1 \in 1 .. Len(thread_list) /\ 2 \in 1 .. Len(thread_list)
      BY <2>1, <2>5
    <3> QED
      BY <2>3, <2>4, <3>1
  <2> QED
    BY <2>1, <2>5
<1> QED
  BY <1>1, <1>2, <1>3, PTL DEF Spec

----------------------------------------------------------------------------
(* Descriptors, chunks and counters.                                       *)

FileTypes ==
  /\ proc \in {"running", "exited", "killed"}
  /\ fds \in [Fd -> Resource]
  /\ sockfd \in Fd \cup {-1} /\ datafd \in Fd
  /\ data \in Seq(Chunk)
  /\ exists \in BOOLEAN /\ signal_exit \in BOOLEAN
  /\ mutex \in Thread \cup {NoThread}

ConnTypes ==
  /\ client_sockfd \in [Conn -> Fd \cup {-1}]
  /\ on \in [Conn -> Resource]
  /\ buffer \in [Conn -> Chunk \cup {Zeroed}]
  /\ sent \in [Conn -> 0 .. MaxChunks]
  /\ outbox \in [Conn -> Seq(Chunk)] /\ got \in [Conn -> Seq(Chunk)]

HistoryTypes ==
  /\ stamps \in 0 .. MaxStamps /\ starts \in 1 .. MaxStarts
  /\ ended \in {"never", "exited", "killed"}

DataTypes == FileTypes /\ ConnTypes /\ HistoryTypes

\* A thread that runs has its client's descriptor, and a chunk where it uses one.
LocalInv ==
  /\ \A c \in Conn : Started(c) /\ pc[c] # "exited" => client_sockfd[c] \in Fd
  /\ pc[Main] = "create" => client_sockfd[new_thread] \in Fd
  /\ \A c \in Conn : pc[c] \in {"lock", "write", "send"} => buffer[c] \in Chunk
  /\ pc[Stamper] \in {"lock", "write"} => stamps < MaxStamps

\* Each descriptor in use has been opened by the shell, by main's socket, by an
\* accept or by a handle_connection, and none of these opens a second one.
Used    == {n \in Fd : fds[n] # Closed}
Listens == IF pc[Main] \in {"start", "socket"} THEN 0 ELSE 1
Came    == {c \in Conn : client[c] # "away" /\ pc[c] # "gone"}
Opened  == {c \in Conn : pc[c] \notin {"unborn", "open", "gone"}}

RoomInv == Cardinality(Used) <= 3 + Listens + Cardinality(Came) + Cardinality(Opened)

ServerInv == ThreadInv /\ DataTypes /\ LocalInv /\ RoomInv

\* The descriptor table has room for all of these.
LEMMA Table ==
  /\ Cardinality(Conn) \in Nat /\ Fd \subseteq Nat /\ 0 \in Fd
  /\ IsFiniteSet(Fd) /\ Cardinality(Fd) = 4 + 2 * Cardinality(Conn)
<1>1. Cardinality(Conn) \in Nat
  BY ThreadAssumption, FS_CardinalityType
<1> DEFINE top == 3 + 2 * Cardinality(Conn)
<1>2. top \in Nat /\ top >= 0
  BY <1>1
<1> HIDE DEF top
<1>3. IsFiniteSet(0 .. top) /\ Cardinality(0 .. top) = top - 0 + 1
  BY <1>2, FS_Interval
<1>4. Fd = 0 .. top
  BY DEF Fd, top
<1>5. top - 0 + 1 = 4 + 2 * Cardinality(Conn)
  BY <1>1 DEF top
<1>6. Fd \subseteq Nat /\ 0 \in Fd
  BY <1>2, <1>4
<1> QED
  BY <1>1, <1>3, <1>4, <1>5, <1>6

\* What descriptors stand for, by kind.
LEMMA Resources ==
  /\ Closed \in Resource /\ Tty \in Resource /\ Listen \in Resource
  /\ \A p \in Nat : OpenFile(p) \in Resource
  /\ \A c \in Conn : Socket(c) \in Resource
  /\ \A r \in Resource : /\ r.kind = "file" => r.pos \in Nat
                         /\ r.kind = "socket" => r.of \in Conn
                         /\ r = Closed => r.kind = "closed"
<1>1. \A p \in Nat : OpenFile(p) \in [kind : {"file"}, pos : Nat]
  BY DEF OpenFile
<1>2. ASSUME NEW r \in Resource
      PROVE  /\ r.kind = "file" => r.pos \in Nat
             /\ r.kind = "socket" => r.of \in Conn
             /\ r = Closed => r.kind = "closed"
  <2>1. CASE r \in {Closed, Tty, Listen}
    BY <2>1 DEF Closed, Tty, Listen
  <2>2. CASE \E c \in Conn : r = Socket(c)
    <3>1. PICK c \in Conn : r = [kind |-> "socket", of |-> c]
      BY <2>2 DEF Socket
    <3>2. r.kind = "socket" /\ r.of = c
      BY <3>1
    <3> QED
      BY <3>2 DEF Closed
  <2>3. CASE r \in [kind : {"file"}, pos : Nat]
    BY <2>3 DEF Closed
  <2> QED
    BY <2>1, <2>2, <2>3 DEF Resource
<1> QED
  BY <1>1, <1>2 DEF Resource

LEMMA FiniteCounts ==
  ASSUME NEW S, S \subseteq Conn
  PROVE  /\ IsFiniteSet(S) /\ Cardinality(S) \in Nat /\ Cardinality(S) <= Cardinality(Conn)
         /\ \A T : T \subseteq S => Cardinality(T) <= Cardinality(S)
         /\ \A c \in Conn \ S : /\ Cardinality(S) < Cardinality(Conn)
                                /\ Cardinality(S \cup {c}) = Cardinality(S) + 1
<1>1. /\ IsFiniteSet(S) /\ Cardinality(S) <= Cardinality(Conn)
  BY ThreadAssumption, FS_Subset
<1>2. Cardinality(S) \in Nat /\ \A T : T \subseteq S => Cardinality(T) <= Cardinality(S)
  BY <1>1, FS_Subset, FS_CardinalityType
<1>3. ASSUME NEW c \in Conn \ S
      PROVE  /\ Cardinality(S \cup {c}) = Cardinality(S) + 1
             /\ Cardinality(S) < Cardinality(Conn)
  <2>1. Cardinality(S \cup {c}) = Cardinality(S) + 1
    BY <1>1, <1>3, FS_AddElement
  <2>2. Cardinality(S \cup {c}) <= Cardinality(Conn)
    BY ThreadAssumption, FS_Subset
  <2> QED
    BY <1>2, <2>1, <2>2, Table
<1> QED
  BY <1>1, <1>2, <1>3

\* A call that opens a descriptor finds one.
LEMMA FreeDescriptor ==
  ASSUME fds \in [Fd -> Resource], Cardinality(Used) < Cardinality(Fd)
  PROVE  LowestFree \in Fd /\ fds[LowestFree] = Closed
<1> DEFINE free == {n \in Fd : fds[n] = Closed}
<1>1. free # {}
  <2>1. ASSUME free = {} PROVE FALSE
    <3>1. Used = Fd
      BY <2>1 DEF Used
    <3> QED
      BY <3>1, Table
  <2> QED
    BY <2>1
<1>2. free \subseteq Nat
  BY Table
<1>3. \E n \in free : \A m \in free : n <= m
  <2> HIDE DEF free
  <2> QED
    BY <1>1, <1>2, LeastElement
<1>4. LowestFree \in free
  BY <1>3 DEF LowestFree, Min
<1> QED
  BY <1>4

\* Opening one uses one more, and closing or using one uses no more.
LEMMA UsedAfter ==
  ASSUME fds \in [Fd -> Resource], NEW n \in Fd, NEW r \in Resource,
         fds' = [fds EXCEPT ![n] = r]
  PROVE  /\ fds' \in [Fd -> Resource]
         /\ IsFiniteSet(Used) /\ Cardinality(Used) \in Nat /\ Cardinality(Used') \in Nat
         /\ Cardinality(Used') <= Cardinality(Used) + 1
         /\ r = Closed \/ fds[n] # Closed => Cardinality(Used') <= Cardinality(Used)
<1>1. fds' \in [Fd -> Resource]
  OBVIOUS
<1>2. Used \subseteq Fd /\ Used' \subseteq Fd
  BY DEF Used
<1>3. /\ IsFiniteSet(Used) /\ Cardinality(Used) \in Nat
      /\ IsFiniteSet(Used') /\ Cardinality(Used') \in Nat
  BY <1>2, Table, FS_Subset, FS_CardinalityType
<1>4. Used' \subseteq Used \cup {n}
  BY DEF Used
<1>5. IsFiniteSet(Used \cup {n}) /\ Cardinality(Used \cup {n}) <= Cardinality(Used) + 1
  <2>1. /\ IsFiniteSet(Used \cup {n})
        /\ Cardinality(Used \cup {n}) =
             IF n \in Used THEN Cardinality(Used) ELSE Cardinality(Used) + 1
    BY <1>3, FS_AddElement
  <2> QED
    BY <1>3, <2>1
<1>6. Cardinality(Used') <= Cardinality(Used \cup {n})
  BY <1>4, <1>5, FS_Subset
<1>7. Cardinality(Used \cup {n}) \in Nat
  BY <1>5, FS_CardinalityType
<1>8. r = Closed \/ fds[n] # Closed => Used' \subseteq Used
  BY DEF Used
<1>9. r = Closed \/ fds[n] # Closed => Cardinality(Used') <= Cardinality(Used)
  BY <1>3, <1>8, FS_Subset
<1> QED
  BY <1>1, <1>3, <1>5, <1>6, <1>7, <1>9

\* What a step may do to the descriptor table.
TableStep ==
  \/ UNCHANGED fds
  \/ fds' \in [Fd -> Resource] /\ \A n \in Fd : fds'[n] = Closed
  \/ \E n \in Fd : \E r \in Resource :
       /\ fds' = [fds EXCEPT ![n] = r]
       /\ \/ r = Closed \/ fds[n] # Closed
          \/ Listens' # Listens \/ Came' # Came \/ Opened' # Opened

LEMMA RoomKept ==
  ASSUME fds \in [Fd -> Resource], RoomInv, TableStep, Listens <= Listens',
         Came \subseteq Came', Opened \subseteq Opened'
  PROVE  fds' \in [Fd -> Resource] /\ RoomInv'
<1> DEFINE came == Cardinality(Came)
           opened == Cardinality(Opened)
           came_ == Cardinality(Came')
           opened_ == Cardinality(Opened')
           listens == Listens
           listens_ == Listens'
           used == Cardinality(Used)
           used_ == Cardinality(Used')
<1>1. Came \subseteq Conn /\ Opened \subseteq Conn /\ Came' \subseteq Conn /\ Opened' \subseteq Conn
  BY DEF Came, Opened
<1>2. /\ came \in Nat /\ opened \in Nat /\ came_ \in Nat /\ opened_ \in Nat
      /\ came <= came_ /\ opened <= opened_
  BY <1>1, FiniteCounts
<1>3. /\ Came' # Came => came + 1 <= came_
      /\ Opened' # Opened => opened + 1 <= opened_
  <2>1. ASSUME NEW S, NEW T, S \subseteq T, T \subseteq Conn, S # T
        PROVE  Cardinality(S) + 1 <= Cardinality(T)
    <3>1. PICK c \in Conn : c \in T \ S
      BY <2>1
    <3>2. Cardinality(S \cup {c}) = Cardinality(S) + 1
      BY <2>1, <3>1, FiniteCounts
    <3>3. Cardinality(S \cup {c}) <= Cardinality(T)
      BY <2>1, <3>1, FiniteCounts
    <3> QED
      BY <3>2, <3>3
  <2> QED
    BY <1>1, <2>1
<1>4. /\ listens \in Nat /\ listens_ \in Nat /\ listens <= listens_
      /\ Listens' # Listens => listens + 1 <= listens_
  BY DEF Listens
<1>5. used <= 3 + listens + came + opened
  BY DEF RoomInv
<1> HIDE DEF came, opened, listens, came_, opened_, listens_
<1>6. CASE UNCHANGED fds
  <2>1. used_ = used /\ used \in Nat
    <3>1. Used' = Used
      BY <1>6 DEF Used
    <3>2. Used \subseteq Fd
      BY DEF Used
    <3> QED
      BY <3>1, <3>2, Table, FS_Subset, FS_CardinalityType
  <2> HIDE DEF used, used_
  <2>2. used_ <= 3 + listens_ + came_ + opened_
    BY <1>2, <1>4, <1>5, <2>1
  <2> QED
    BY <1>6, <2>2 DEF RoomInv, used_, listens_, came_, opened_
<1>7. CASE fds' \in [Fd -> Resource] /\ \A n \in Fd : fds'[n] = Closed
  <2>1. used_ = 0
    <3>1. Used' = {}
      BY <1>7 DEF Used
    <3> QED
      BY <3>1, FS_EmptySet
  <2> HIDE DEF used, used_
  <2>2. used_ <= 3 + listens_ + came_ + opened_
    BY <1>2, <1>4, <2>1
  <2> QED
    BY <1>7, <2>2 DEF RoomInv, used_, listens_, came_, opened_
<1>8. ASSUME NEW n \in Fd, NEW r \in Resource, fds' = [fds EXCEPT ![n] = r],
             \/ r = Closed \/ fds[n] # Closed
             \/ Listens' # Listens \/ Came' # Came \/ Opened' # Opened
      PROVE  fds' \in [Fd -> Resource] /\ RoomInv'
  <2>1. /\ fds' \in [Fd -> Resource] /\ used \in Nat /\ used_ \in Nat /\ used_ <= used + 1
        /\ r = Closed \/ fds[n] # Closed => used_ <= used
    BY <1>8, UsedAfter
  <2> HIDE DEF used, used_
  <2>2. used_ <= 3 + listens_ + came_ + opened_
    BY <1>2, <1>3, <1>4, <1>5, <1>8, <2>1
  <2> QED
    BY <2>1, <2>2 DEF RoomInv, used_, listens_, came_, opened_
<1> QED
  BY <1>6, <1>7, <1>8 DEF TableStep

\* As long as one of these has not opened its descriptor there is a free one.
LEMMA RoomLeft ==
  ASSUME ServerInv, Listens = 0 \/ Came # Conn \/ Opened # Conn
  PROVE  LowestFree \in Fd
<1> DEFINE opened == Cardinality(Opened)
           came == Cardinality(Came)
           room == Cardinality(Conn)
           listens == Listens
           used == Cardinality(Used)
<1>1. Opened \subseteq Conn /\ Came \subseteq Conn
  BY DEF Opened, Came
<1>2. /\ opened \in Nat /\ came \in Nat /\ room \in Nat
      /\ opened <= room /\ came <= room
      /\ Opened # Conn => opened < room
      /\ Came # Conn => came < room
  <2>1. ASSUME NEW S, S \subseteq Conn, S # Conn PROVE Cardinality(S) < room
    <3>1. PICK c \in Conn : c \notin S
      BY <2>1
    <3> QED
      BY <2>1, <3>1, FiniteCounts
  <2> QED
    BY <1>1, <2>1, FiniteCounts, Table
<1>3. listens \in {0, 1} /\ used \in Nat
  <2>1. Used \subseteq Fd
    BY DEF Used
  <2> QED
    BY <2>1, Table, FS_Subset, FS_CardinalityType DEF Listens
<1>4. used <= 3 + listens + came + opened
  BY DEF ServerInv, RoomInv
<1>5. listens = 0 \/ came < room \/ opened < room
  BY <1>2
<1>6. used < 4 + 2 * room
  <2> HIDE DEF opened, came, room, listens, used
  <2> QED
    BY <1>2, <1>3, <1>4, <1>5
<1>7. fds \in [Fd -> Resource]
  BY DEF ServerInv, DataTypes, FileTypes
<1> QED
  BY <1>6, <1>7, Table, FreeDescriptor

\* Steps that start, list and join no thread.
LEMMA PlainKeepsRoom ==
  ASSUME ServerInv, Plain, TableStep, Listens <= Listens'
  PROVE  fds' \in [Fd -> Resource] /\ RoomInv'
<1>1. Came \subseteq Came' /\ Opened \subseteq Opened'
  BY DEF Plain, Came, Opened
<1> QED
  BY <1>1, RoomKept DEF ServerInv, DataTypes, FileTypes

LEMMA PlainKeepsLocal ==
  ASSUME ThreadInv, LocalInv, Plain,
         \A c \in Conn : client_sockfd'[c] = client_sockfd[c] \/ pc'[c] = "exited",
         \A c \in Conn : pc'[c] \in {"lock", "write", "send"} => buffer'[c] \in Chunk,
         pc'[Stamper] \in {"lock", "write"} => stamps' < MaxStamps
  PROVE  LocalInv'
<1>1. \A c \in Conn : Started(c)' /\ pc'[c] # "exited" => Started(c) /\ pc[c] # "exited"
  BY DEF Plain, Started
<1>2. \A c \in Conn : Started(c)' /\ pc'[c] # "exited" => client_sockfd'[c] \in Fd
  BY <1>1 DEF LocalInv
<1>3. ASSUME pc'[Main] = "create" PROVE client_sockfd'[new_thread'] \in Fd
  <2>1. pc[Main] = "create" /\ new_thread' = new_thread
    BY <1>3 DEF Plain, threads, SetUpPlaces
  <2>2. new_thread \in Conn /\ pc[new_thread] = "unborn"
    BY <2>1 DEF ThreadInv, MainInv
  <2>3. pc'[new_thread] = "unborn"
    BY <2>2 DEF Plain
  <2> QED
    BY <2>1, <2>2, <2>3 DEF LocalInv
<1> QED
  BY <1>2, <1>3 DEF LocalInv

\* send or write to a socket.
LEMMA Delivered ==
  ASSUME DataTypes, NEW d \in Conn, NEW chunk \in Chunk, Deliver(d, chunk)
  PROVE  got' \in [Conn -> Seq(Chunk)] /\ proc' \in {"running", "exited", "killed"}
<1>1. got \in [Conn -> Seq(Chunk)]
  BY DEF DataTypes, ConnTypes
<1>2. got' = [got EXCEPT ![d] = Append(got[d], chunk)]
  BY DEF Deliver
<1>3. Append(got[d], chunk) \in Seq(Chunk)
  BY <1>1
<1> QED
  BY <1>1, <1>2, <1>3 DEF Deliver

\* write to what datafd stands for.
LEMMA Written ==
  ASSUME DataTypes, NEW chunk \in Chunk, WriteData(chunk)
  PROVE  /\ data' \in Seq(Chunk) /\ got' \in [Conn -> Seq(Chunk)]
         /\ proc' \in {"running", "exited", "killed"} \cup {proc}
         /\ \/ UNCHANGED fds
            \/ /\ fds[datafd] # Closed
               /\ \E r \in Resource : fds' = [fds EXCEPT ![datafd] = r]
<1>1. /\ fds \in [Fd -> Resource] /\ datafd \in Fd /\ data \in Seq(Chunk)
      /\ got \in [Conn -> Seq(Chunk)]
  BY DEF DataTypes, FileTypes, ConnTypes
<1>2. fds[datafd] \in Resource
  BY <1>1
<1>3. CASE /\ fds[datafd].kind = "file" /\ data' = Stored(chunk)
           /\ fds' = [fds EXCEPT ![datafd] = OpenFile(Len(data'))] /\ UNCHANGED <<proc, got>>
  <2>1. data' = Append(data, chunk)
    BY <1>3 DEF Stored
  <2>2. data' \in Seq(Chunk) /\ Len(data') \in Nat
    BY <1>1, <2>1
  <2>3. OpenFile(Len(data')) \in Resource /\ fds[datafd] # Closed
    BY <1>2, <1>3, <2>2, Resources
  <2> QED
    BY <1>1, <1>3, <2>2, <2>3
<1>4. CASE /\ fds[datafd].kind = "socket" /\ Deliver(fds[datafd].of, chunk)
           /\ UNCHANGED <<fds, data>>
  <2>1. fds[datafd].of \in Conn
    BY <1>2, <1>4, Resources
  <2> QED
    BY <1>1, <1>4, <2>1, Delivered
<1> QED
  BY <1>3, <1>4 DEF WriteData

\* What a step of handle_connection does besides moving the thread on.
WorkerStep ==
  /\ FileTypes' /\ ConnTypes'
  /\ TableStep
  /\ \A c \in Conn : client_sockfd'[c] = client_sockfd[c] \/ pc'[c] = "exited"
  /\ \A c \in Conn : pc'[c] \in {"lock", "write", "send"} => buffer'[c] \in Chunk

\* Where a step leaves the connections' threads.
LEMMA WorkerMoved ==
  ASSUME ThreadTypes, NEW c \in Conn, NEW place, Goto(c, place)
  PROVE  \A d \in Conn : pc'[d] = IF d = c THEN place ELSE pc[d]
BY ThreadKinds DEF ThreadTypes, Goto

\* Steps that touch no data: the types are as they were.
LEMMA DataUntouched ==
  ASSUME ServerInv, NEW c \in Conn, UNCHANGED <<files, locals, sent, outbox, got>>,
         proc' \in {"running", "exited", "killed"}, signal_exit' = signal_exit,
         mutex' \in Thread \cup {NoThread},
         \/ UNCHANGED pc
         \/ pc[c] = "lock" /\ Goto(c, "write")
         \/ \E place : place \notin {"lock", "write", "send"} /\ Goto(c, place)
  PROVE  WorkerStep
<1>1. FileTypes' /\ ConnTypes' /\ TableStep
  BY DEF ServerInv, DataTypes, FileTypes, ConnTypes, files, locals, TableStep
<1>2. \A d \in Conn : client_sockfd'[d] = client_sockfd[d] /\ buffer'[d] = buffer[d]
  BY DEF locals
<1>3. \A d \in Conn : pc'[d] \in {"lock", "write", "send"} => pc[d] \in {"lock", "write", "send"}
  BY WorkerMoved DEF ServerInv, ThreadInv
<1> QED
  BY <1>1, <1>2, <1>3 DEF WorkerStep, ServerInv, LocalInv

LEMMA ServeStep ==
  ASSUME ServerInv, NEW c \in Conn, Serve(c)
  PROVE  WorkerStep
<1>1. /\ fds \in [Fd -> Resource] /\ client_sockfd \in [Conn -> Fd \cup {-1}]
      /\ on \in [Conn -> Resource] /\ buffer \in [Conn -> Chunk \cup {Zeroed}]
      /\ outbox \in [Conn -> Seq(Chunk)] /\ got \in [Conn -> Seq(Chunk)]
      /\ mutex \in Thread \cup {NoThread} /\ proc \in {"running", "exited", "killed"}
      /\ ThreadTypes
  BY DEF ServerInv, DataTypes, FileTypes, ConnTypes, ThreadInv
<1>2. CASE OpenFails(c) \/ RecvEnds(c)
  BY <1>1, <1>2, DataUntouched DEF OpenFails, RecvEnds, flags, clients
<1>3. CASE CallRecv(c)
  <2>1. /\ pc[c] = "recv" /\ Goto(c, "receiving")
        /\ on' = [on EXCEPT ![c] = fds[client_sockfd[c]]]
        /\ buffer' = [buffer EXCEPT ![c] = Zeroed]
        /\ UNCHANGED <<proc, files, flags, client_sockfd, clients>>
    BY <1>3 DEF CallRecv, At
  <2>2. fds[client_sockfd[c]] \in Resource
    BY <1>1, <2>1 DEF ServerInv, LocalInv, Started
  <2>3. on' \in [Conn -> Resource] /\ buffer' \in [Conn -> Chunk \cup {Zeroed}]
    BY <1>1, <2>1, <2>2
  <2>4. FileTypes' /\ ConnTypes' /\ TableStep
    BY <2>1, <2>3
       DEF ServerInv, DataTypes, FileTypes, ConnTypes, files, flags, clients, TableStep
  <2>5. /\ \A d \in Conn : pc'[d] = IF d = c THEN "receiving" ELSE pc[d]
        /\ \A d \in Conn : d # c => buffer'[d] = buffer[d]
    BY <1>1, <2>1, WorkerMoved
  <2> QED
    BY <2>1, <2>4, <2>5 DEF WorkerStep, ServerInv, LocalInv
<1>4. CASE Receive(c)
  <2> DEFINE d == on[c].of
  <2>1. /\ on[c].kind = "socket" /\ outbox[d] # <<>>
        /\ buffer' = [buffer EXCEPT ![c] = Head(outbox[d])]
        /\ outbox' = [outbox EXCEPT ![d] = Tail(outbox[d])]
        /\ got' = [got EXCEPT ![c] = <<>>]
        /\ \E place : Goto(c, place)
        /\ UNCHANGED <<proc, files, flags, client_sockfd, on, sent>>
    BY <1>4 DEF Receive
  <2>2. d \in Conn
    BY <1>1, <2>1, Resources
  <2> HIDE DEF d
  <2>3. Head(outbox[d]) \in Chunk /\ Tail(outbox[d]) \in Seq(Chunk)
    BY <1>1, <2>1, <2>2, Popped
  <2>4. /\ buffer' \in [Conn -> Chunk \cup {Zeroed}] /\ buffer'[c] \in Chunk
        /\ \A e \in Conn : e # c => buffer'[e] = buffer[e]
        /\ outbox' \in [Conn -> Seq(Chunk)] /\ got' \in [Conn -> Seq(Chunk)]
    BY <1>1, <2>1, <2>2, <2>3
  <2>5. FileTypes' /\ ConnTypes' /\ TableStep
    BY <2>1, <2>4 DEF ServerInv, DataTypes, FileTypes, ConnTypes, files, flags, TableStep
  <2>6. \A e \in Conn : e # c => pc'[e] = pc[e]
    BY <1>1, <2>1, WorkerMoved
  <2> QED
    BY <2>1, <2>4, <2>5, <2>6 DEF WorkerStep, ServerInv, LocalInv
<1>5. CASE Send(c)
  <2> DEFINE to == fds[client_sockfd[c]]
  <2>1. /\ pc[c] = "send" /\ Goto(c, "read")
        /\ to.kind = "socket" => Deliver(to.of, buffer[c])
        /\ to.kind # "socket" => UNCHANGED <<proc, got>>
        /\ UNCHANGED <<files, flags, locals, sent, outbox>>
    BY <1>5 DEF Send, At
  <2>2. to \in Resource /\ buffer[c] \in Chunk
    BY <1>1, <2>1 DEF ServerInv, LocalInv, Started
  <2> HIDE DEF to
  <2>3. got' \in [Conn -> Seq(Chunk)] /\ proc' \in {"running", "exited", "killed"}
    BY <1>1, <2>1, <2>2, Resources, Delivered DEF ServerInv
  <2>4. FileTypes' /\ ConnTypes' /\ TableStep
    BY <2>1, <2>3
       DEF ServerInv, DataTypes, FileTypes, ConnTypes, files, flags, locals, TableStep
  <2>5. \A d \in Conn : pc'[d] \in {"lock", "write", "send"} => pc'[d] = pc[d]
    BY <1>1, <2>1, WorkerMoved
  <2> QED
    BY <2>1, <2>4, <2>5 DEF WorkerStep, ServerInv, LocalInv, locals
<1>6. CASE CloseSocket(c)
  <2> DEFINE n == client_sockfd[c]
  <2>1. /\ pc[c] = "close_socket" /\ Goto(c, "done") /\ fds' = [fds EXCEPT ![n] = Closed]
        /\ UNCHANGED <<proc, sockfd, datafd, data, exists, flags, locals, clients>>
    BY <1>6 DEF CloseSocket, Close, At
  <2>2. n \in Fd
    BY <2>1 DEF ServerInv, LocalInv, Started
  <2> HIDE DEF n
  <2>3. fds' \in [Fd -> Resource] /\ TableStep
    BY <1>1, <2>1, <2>2, Resources DEF TableStep
  <2>4. FileTypes' /\ ConnTypes'
    BY <2>1, <2>3
       DEF ServerInv, DataTypes, FileTypes, ConnTypes, flags, locals, clients
  <2>5. \A d \in Conn : pc'[d] \in {"lock", "write", "send"} => pc'[d] = pc[d]
    BY <1>1, <2>1, WorkerMoved
  <2> QED
    BY <2>1, <2>3, <2>4, <2>5 DEF WorkerStep, ServerInv, LocalInv, locals
<1>7. CASE WorkDone(c)
  <2>1. /\ Goto(c, "exited") /\ client_sockfd' = [client_sockfd EXCEPT ![c] = -1]
        /\ on' = [on EXCEPT ![c] = Closed] /\ buffer' = [buffer EXCEPT ![c] = Zeroed]
        /\ UNCHANGED <<proc, files, flags, clients>>
    BY <1>7 DEF WorkDone
  <2>2. /\ client_sockfd' \in [Conn -> Fd \cup {-1}] /\ on' \in [Conn -> Resource]
        /\ buffer' \in [Conn -> Chunk \cup {Zeroed}]
        /\ \A d \in Conn : d # c => /\ client_sockfd'[d] = client_sockfd[d]
                                    /\ buffer'[d] = buffer[d]
    BY <1>1, <2>1, Resources
  <2>3. FileTypes' /\ ConnTypes' /\ TableStep
    BY <2>1, <2>2
       DEF ServerInv, DataTypes, FileTypes, ConnTypes, files, flags, clients, TableStep
  <2>4. \A d \in Conn : pc'[d] = IF d = c THEN "exited" ELSE pc[d]
    BY <1>1, <2>1, WorkerMoved
  <2> QED
    BY <2>2, <2>3, <2>4 DEF WorkerStep, ServerInv, LocalInv
<1> QED
  BY <1>2, <1>3, <1>4, <1>5, <1>6, <1>7 DEF Serve

LEMMA OnFileStep ==
  ASSUME ServerInv, NEW c \in Conn, OnFile(c)
  PROVE  WorkerStep
<1>1. /\ fds \in [Fd -> Resource] /\ datafd \in Fd /\ data \in Seq(Chunk)
      /\ buffer \in [Conn -> Chunk \cup {Zeroed}]
      /\ outbox \in [Conn -> Seq(Chunk)] /\ got \in [Conn -> Seq(Chunk)]
      /\ mutex \in Thread \cup {NoThread} /\ proc \in {"running", "exited", "killed"}
      /\ ThreadTypes
  BY DEF ServerInv, DataTypes, FileTypes, ConnTypes, ThreadInv
<1>2. CASE Open(c)
  <2>1. /\ pc[c] = "open"
        /\ Goto(c, "recv") \/ Goto(c, "cleanup")
        /\ fds' = [fds EXCEPT ![LowestFree] = OpenFile(0)] /\ datafd' = LowestFree
        /\ exists' = TRUE
        /\ UNCHANGED <<proc, sockfd, data, flags, locals, clients>>
    BY <1>2 DEF Open, At
  <2>2. \A d \in Conn : pc'[d] = IF d = c THEN pc'[c] ELSE pc[d]
    BY <1>1, <2>1, WorkerMoved
  <2>3. pc'[c] \in {"recv", "cleanup"}
    BY <1>1, <2>1, WorkerMoved
  <2>4. Opened' # Opened
    BY <2>1, <2>3 DEF Opened
  <2>5. LowestFree \in Fd
    <3>1. c \notin Opened
      BY <2>1 DEF Opened
    <3> QED
      BY <3>1, RoomLeft
  <2>6. OpenFile(0) \in Resource
    BY Resources
  <2>7. fds' \in [Fd -> Resource] /\ TableStep
    BY <1>1, <2>1, <2>4, <2>5, <2>6 DEF TableStep
  <2>8. FileTypes' /\ ConnTypes'
    BY <2>1, <2>5, <2>7
       DEF ServerInv, DataTypes, FileTypes, ConnTypes, flags, locals, clients
  <2> QED
    BY <2>1, <2>2, <2>3, <2>7, <2>8 DEF WorkerStep, ServerInv, LocalInv, locals
<1>3. CASE Lock(c) \/ Unlock(c) \/ Fails(c) \/ ReadEnds(c)
  <2>1. c \in Thread /\ c # Stamper /\ NoThread \in Thread \cup {NoThread}
    BY ThreadKinds
  <2>2. CASE Lock(c)
    BY <1>1, <2>1, <2>2, DataUntouched DEF Lock, At, clients
  <2>3. CASE Unlock(c)
    <3>1. Answer(c) \notin {"lock", "write", "send"}
      BY DEF Answer
    <3>2. Goto(c, Answer(c)) /\ mutex' = NoThread
      BY <2>1, <2>3 DEF Unlock
    <3> QED
      BY <1>1, <2>1, <2>3, <3>1, <3>2, DataUntouched DEF Unlock, clients
  <2>4. CASE Fails(c) \/ ReadEnds(c)
    BY <1>1, <2>4, DataUntouched DEF Fails, ReadEnds, flags, clients
  <2> QED
    BY <1>3, <2>2, <2>3, <2>4
<1>4. CASE Write(c)
  <2>1. /\ pc[c] = "write" /\ WriteData(buffer[c]) /\ Goto(c, "unlock")
        /\ UNCHANGED <<sockfd, datafd, exists, flags, locals, sent, outbox>>
    BY <1>4 DEF Write, At
  <2>2. buffer[c] \in Chunk
    BY <2>1 DEF ServerInv, LocalInv
  <2>3. /\ data' \in Seq(Chunk) /\ got' \in [Conn -> Seq(Chunk)]
        /\ proc' \in {"running", "exited", "killed"}
        /\ \/ UNCHANGED fds
           \/ /\ fds[datafd] # Closed
              /\ \E r \in Resource : fds' = [fds EXCEPT ![datafd] = r]
    BY <1>1, <2>1, <2>2, Written DEF ServerInv
  <2>4. fds' \in [Fd -> Resource] /\ TableStep
    BY <1>1, <2>3 DEF TableStep
  <2>5. FileTypes' /\ ConnTypes'
    BY <2>1, <2>3, <2>4 DEF ServerInv, DataTypes, FileTypes, ConnTypes, flags, locals
  <2>6. \A d \in Conn : pc'[d] \in {"lock", "write", "send"} => pc'[d] = pc[d]
    BY <1>1, <2>1, WorkerMoved
  <2> QED
    BY <2>1, <2>4, <2>5, <2>6 DEF WorkerStep, ServerInv, LocalInv, locals
<1>5. CASE Rewind(c) \/ CloseData(c)
  <2>1. /\ Goto(c, "read") \/ Goto(c, "close_socket")
        /\ \/ UNCHANGED fds
           \/ fds[datafd].kind = "file" /\ fds' = [fds EXCEPT ![datafd] = OpenFile(0)]
           \/ fds' = [fds EXCEPT ![datafd] = Closed]
        /\ UNCHANGED <<proc, sockfd, datafd, data, exists, flags, locals, clients>>
    BY <1>5 DEF Rewind, CloseData, Close
  <2>2. fds[datafd].kind = "file" => fds[datafd] # Closed
    BY <1>1, Resources
  <2>3. OpenFile(0) \in Resource /\ Closed \in Resource
    BY Resources
  <2>4. fds' \in [Fd -> Resource] /\ TableStep
    BY <1>1, <2>1, <2>2, <2>3 DEF TableStep
  <2>5. FileTypes' /\ ConnTypes'
    BY <2>1, <2>4
       DEF ServerInv, DataTypes, FileTypes, ConnTypes, flags, locals, clients
  <2>6. \A d \in Conn : pc'[d] \in {"lock", "write", "send"} => pc'[d] = pc[d]
    BY <1>1, <2>1, WorkerMoved
  <2> QED
    BY <2>1, <2>4, <2>5, <2>6 DEF WorkerStep, ServerInv, LocalInv, locals
<1>6. CASE Read(c)
  <2>1. /\ Goto(c, "send")
        /\ UNCHANGED <<proc, sockfd, datafd, data, exists, flags, client_sockfd, on, sent, got>>
    BY <1>6 DEF Read
  <2>2. /\ fds' \in [Fd -> Resource] /\ TableStep /\ outbox' \in [Conn -> Seq(Chunk)]
        /\ \E chunk \in Chunk : buffer' = [buffer EXCEPT ![c] = chunk]
    <3>1. fds[datafd] \in Resource
      BY <1>1
    <3>2. CASE /\ fds[datafd].kind = "file" /\ fds[datafd].pos < Len(data)
               /\ buffer' = [buffer EXCEPT ![c] = data[fds[datafd].pos + 1]]
               /\ fds' = [fds EXCEPT ![datafd] = OpenFile(fds[datafd].pos + 1)]
               /\ UNCHANGED outbox
      <4>1. /\ fds[datafd].pos \in Nat /\ fds[datafd].pos + 1 \in 1 .. Len(data)
            /\ fds[datafd] # Closed
        BY <1>1, <3>1, <3>2, Resources
      <4>2. data[fds[datafd].pos + 1] \in Chunk /\ OpenFile(fds[datafd].pos + 1) \in Resource
        BY <1>1, <4>1, Resources
      <4> QED
        BY <1>1, <3>2, <4>1, <4>2 DEF TableStep
    <3>3. CASE /\ fds[datafd].kind = "socket" /\ outbox[fds[datafd].of] # <<>>
               /\ buffer' = [buffer EXCEPT ![c] = Head(outbox[fds[datafd].of])]
               /\ outbox' = [outbox EXCEPT ![fds[datafd].of] = Tail(outbox[fds[datafd].of])]
               /\ UNCHANGED fds
      <4> DEFINE d == fds[datafd].of
      <4>1. d \in Conn
        BY <3>1, <3>3, Resources
      <4> HIDE DEF d
      <4>2. outbox[d] \in Seq(Chunk) /\ outbox[d] # <<>>
        BY <1>1, <3>3, <4>1 DEF d
      <4>3. Head(outbox[d]) \in Chunk /\ Tail(outbox[d]) \in Seq(Chunk)
        BY <4>2, Popped
      <4>4. /\ buffer' = [buffer EXCEPT ![c] = Head(outbox[d])]
            /\ outbox' = [outbox EXCEPT ![d] = Tail(outbox[d])]
        BY <3>3 DEF d
      <4>5. outbox' \in [Conn -> Seq(Chunk)]
        BY <1>1, <4>3, <4>4
      <4>6. fds' \in [Fd -> Resource] /\ TableStep
        BY <1>1, <3>3 DEF TableStep
      <4> QED
        BY <4>3, <4>4, <4>5, <4>6
    <3> QED
      BY <1>6, <3>2, <3>3 DEF Read
  <2>3. /\ buffer' \in [Conn -> Chunk \cup {Zeroed}] /\ buffer'[c] \in Chunk
        /\ \A d \in Conn : d # c => buffer'[d] = buffer[d]
    BY <1>1, <2>2
  <2>4. FileTypes' /\ ConnTypes'
    BY <2>1, <2>2, <2>3 DEF ServerInv, DataTypes, FileTypes, ConnTypes, flags
  <2>5. \A d \in Conn : d # c => pc'[d] = pc[d]
    BY <1>1, <2>1, WorkerMoved
  <2> QED
    BY <2>1, <2>2, <2>3, <2>4, <2>5 DEF WorkerStep, ServerInv, LocalInv
<1> QED
  BY <1>2, <1>3, <1>4, <1>5, <1>6 DEF OnFile

----------------------------------------------------------------------------
(* Every step keeps the types.                                             *)

\* Steps that start, list and join no thread.
LEMMA PlainKeepsServer ==
  ASSUME ServerInv, Plain, TableStep, Listens <= Listens',
         FileTypes', ConnTypes', HistoryTypes',
         \A c \in Conn : client_sockfd'[c] = client_sockfd[c] \/ pc'[c] = "exited",
         \A c \in Conn : pc'[c] \in {"lock", "write", "send"} => buffer'[c] \in Chunk,
         pc'[Stamper] \in {"lock", "write"} => stamps' < MaxStamps
  PROVE  ServerInv'
<1>1. ThreadInv'
  BY PlainKeepsThreads DEF ServerInv
<1>2. RoomInv'
  BY PlainKeepsRoom
<1>3. LocalInv'
  BY PlainKeepsLocal DEF ServerInv
<1> QED
  BY <1>1, <1>2, <1>3 DEF ServerInv, DataTypes

LEMMA WorkerKeepsServer ==
  ASSUME ServerInv, NEW c \in Conn, Worker(c)
  PROVE  ServerInv'
<1>1. WorkerStep
  BY ServeStep, OnFileStep DEF Worker
<1>2. Plain
  BY WorkerIsPlain DEF ServerInv, ThreadInv
<1>3. UNCHANGED history /\ \E place : Goto(c, place) \/ UNCHANGED pc
  <2>1. CASE Serve(c)
    BY <2>1 DEF Serve, OpenFails, CallRecv, Receive, RecvEnds, Send, CloseSocket, WorkDone
  <2>2. CASE OnFile(c)
    BY <2>2 DEF OnFile, Open, Lock, Write, Fails, Unlock, Rewind, Read, ReadEnds, CloseData
  <2> QED
    BY <2>1, <2>2 DEF Worker
<1>4. pc'[Main] = pc[Main] /\ pc'[Stamper] = pc[Stamper]
  BY <1>3, ThreadKinds DEF Goto, ServerInv, ThreadInv, ThreadTypes
<1>5. Listens <= Listens'
  BY <1>4 DEF Listens
<1>6. HistoryTypes' /\ stamps' = stamps
  BY <1>3 DEF history, HistoryTypes, ServerInv, DataTypes
<1>7. pc'[Stamper] \in {"lock", "write"} => stamps' < MaxStamps
  BY <1>4, <1>6 DEF ServerInv, LocalInv
<1> QED
  BY <1>1, <1>2, <1>5, <1>6, <1>7, PlainKeepsServer DEF WorkerStep

LEMMA ClientKeepsServer ==
  ASSUME ServerInv, NEW c \in Conn, ClientSends(c) \/ ClientCloses(c)
  PROVE  ServerInv'
<1>1. Plain
  BY OthersArePlain DEF ServerInv, ThreadInv
<1>2. /\ UNCHANGED <<proc, files, flags, pc, locals, got, history>>
      /\ \/ UNCHANGED <<sent, outbox>>
         \/ /\ sent[c] < MaxChunks /\ sent' = [sent EXCEPT ![c] = @ + 1]
            /\ \E kind \in Kind :
                 outbox' = [outbox EXCEPT ![c] =
                              Append(@, [from |-> c, n |-> sent[c] + 1, kind |-> kind])]
  BY DEF ClientSends, ClientCloses
<1>3. sent \in [Conn -> 0 .. MaxChunks] /\ outbox \in [Conn -> Seq(Chunk)]
  BY DEF ServerInv, DataTypes, ConnTypes
<1>4. sent' \in [Conn -> 0 .. MaxChunks] /\ outbox' \in [Conn -> Seq(Chunk)]
  <2>1. CASE UNCHANGED <<sent, outbox>>
    BY <1>3, <2>1
  <2>2. CASE ~UNCHANGED <<sent, outbox>>
    <3>1. PICK kind \in Kind :
            outbox' = [outbox EXCEPT ![c] =
                         Append(@, [from |-> c, n |-> sent[c] + 1, kind |-> kind])]
      BY <1>2, <2>2
    <3> DEFINE chunk == [from |-> c, n |-> sent[c] + 1, kind |-> kind]
    <3>2. sent' = [sent EXCEPT ![c] = sent[c] + 1] /\ sent[c] < MaxChunks
      BY <1>2, <2>2
    <3>3. sent[c] + 1 \in 0 .. MaxChunks /\ sent[c] + 1 \in Nat
      BY <1>3, <3>2, BoundAssumption
    <3>4. chunk \in Chunk
      BY <3>3, ParameterAssumption DEF Chunk
    <3>5. outbox' = [outbox EXCEPT ![c] = Append(outbox[c], chunk)]
      BY <3>1
    <3> HIDE DEF chunk
    <3>6. Append(outbox[c], chunk) \in Seq(Chunk)
      BY <1>3, <3>4
    <3> QED
      BY <1>3, <3>2, <3>3, <3>5, <3>6
  <2> QED
    BY <2>1, <2>2
<1>5. FileTypes' /\ ConnTypes' /\ HistoryTypes'
  BY <1>2, <1>4 DEF ServerInv, DataTypes, FileTypes, ConnTypes, HistoryTypes, files, flags,
                    locals, history
<1>6. TableStep /\ Listens <= Listens'
  BY <1>2 DEF files, TableStep, Listens
<1> QED
  BY <1>1, <1>2, <1>5, <1>6, PlainKeepsServer DEF ServerInv, LocalInv, locals, history

LEMMA StamperKeepsServer ==
  ASSUME ServerInv, StamperStep
  PROVE  ServerInv'
<1>1. Plain
  BY StamperIsPlain DEF ServerInv, ThreadInv
<1>2. /\ fds \in [Fd -> Resource] /\ datafd \in Fd /\ data \in Seq(Chunk)
      /\ got \in [Conn -> Seq(Chunk)] /\ stamps \in 0 .. MaxStamps
      /\ mutex \in Thread \cup {NoThread} /\ proc \in {"running", "exited", "killed"}
      /\ ThreadTypes
  BY DEF ServerInv, DataTypes, FileTypes, ConnTypes, HistoryTypes, ThreadInv
<1>3. \E place : Goto(Stamper, place)
  BY DEF StamperStep, LockToStamp, Lock, Stamp, Unlock, Wake
<1>4. \A t \in Thread : t # Stamper => pc'[t] = pc[t]
  BY <1>2, <1>3 DEF Goto, ThreadTypes
<1>5. Listens <= Listens'
  BY <1>4, ThreadKinds DEF Listens
<1>6. /\ data' \in Seq(Chunk) /\ got' \in [Conn -> Seq(Chunk)]
      /\ proc' \in {"running", "exited", "killed"} /\ stamps' \in 0 .. MaxStamps
      /\ fds' \in [Fd -> Resource] /\ TableStep
      /\ UNCHANGED <<sockfd, datafd, exists, signal_exit, locals, sent, outbox, starts, ended>>
      /\ mutex' \in Thread \cup {NoThread}
      /\ pc'[Stamper] \in {"lock", "write"} => stamps' < MaxStamps
  <2>1. CASE LockToStamp \/ Unlock(Stamper) \/ Wake
    <3>1. /\ UNCHANGED <<proc, files, signal_exit, locals, clients, history>>
          /\ \/ mutex' = Stamper /\ pc[Stamper] = "lock"
             \/ mutex' = NoThread /\ Goto(Stamper, "sleep")
             \/ UNCHANGED mutex /\ Goto(Stamper, "exited")
             \/ UNCHANGED mutex /\ stamps < MaxStamps
      BY <2>1 DEF LockToStamp, Lock, Unlock, Wake, At, flags
    <3>2. pc'[Stamper] \in {"lock", "write"} => stamps < MaxStamps
      BY <1>2, <3>1, ThreadKinds DEF Goto, ThreadTypes, ServerInv, LocalInv
    <3> QED
      BY <1>2, <3>1, <3>2, ThreadKinds DEF files, clients, history, TableStep
  <2>2. CASE Stamp
    <3> DEFINE chunk == [from |-> Stamper, n |-> stamps + 1, kind |-> "line"]
    <3>1. /\ pc[Stamper] = "write" /\ Goto(Stamper, "unlock") /\ stamps' = stamps + 1
          /\ \/ WriteData(chunk)
             \/ UNCHANGED <<fds, data, got>> /\ proc' \in {"killed", proc}
          /\ UNCHANGED <<sockfd, datafd, exists, flags, locals, sent, outbox, starts, ended>>
      BY <2>2 DEF Stamp, At
    <3>2. stamps < MaxStamps
      BY <3>1 DEF ServerInv, LocalInv
    <3>3. stamps' \in 0 .. MaxStamps /\ chunk \in Chunk
      BY <1>2, <3>1, <3>2, BoundAssumption DEF Chunk
    <3> HIDE DEF chunk
    <3>4. /\ data' \in Seq(Chunk) /\ got' \in [Conn -> Seq(Chunk)]
          /\ proc' \in {"running", "exited", "killed"}
          /\ \/ UNCHANGED fds
             \/ /\ fds[datafd] # Closed
                /\ \E r \in Resource : fds' = [fds EXCEPT ![datafd] = r]
      BY <1>2, <3>1, <3>3, Written DEF ServerInv
    <3>5. fds' \in [Fd -> Resource] /\ TableStep
      BY <1>2, <3>4 DEF TableStep
    <3>6. pc'[Stamper] = "unlock"
      BY <1>2, <3>1, ThreadKinds DEF Goto, ThreadTypes
    <3> QED
      BY <1>2, <3>1, <3>3, <3>4, <3>5, <3>6 DEF flags
  <2> QED
    BY <2>1, <2>2 DEF StamperStep
<1>7. FileTypes' /\ ConnTypes' /\ HistoryTypes'
  BY <1>6 DEF ServerInv, DataTypes, FileTypes, ConnTypes, HistoryTypes, locals
<1> QED
  BY <1>1, <1>4, <1>5, <1>6, <1>7, ThreadKinds, PlainKeepsServer
     DEF ServerInv, LocalInv, locals

LEMMA SetUpKeepsServer ==
  ASSUME ServerInv, SetUp \/ Signal
  PROVE  ServerInv'
<1>1. Plain
  BY SetUpIsPlain DEF ServerInv, ThreadInv
<1>2. /\ fds \in [Fd -> Resource] /\ sockfd \in Fd \cup {-1}
      /\ stamps \in 0 .. MaxStamps
      /\ proc \in {"running", "exited", "killed"} /\ ThreadTypes
  BY DEF ServerInv, DataTypes, FileTypes, HistoryTypes, ThreadInv
<1>3. /\ UNCHANGED <<data, datafd, exists, flags, locals, clients, history>>
      /\ proc' \in {"running", "exited", "killed"}
  BY <1>2 DEF SetUp, Start, CreateSocket, Bind, ListenOn, CreateStamper, Signal, files
<1>4. \A t \in Thread \ {Main, Stamper} : pc'[t] = pc[t]
  BY <1>2 DEF SetUp, Start, CreateSocket, Bind, ListenOn, CreateStamper, Signal, At, Goto,
              ThreadTypes
<1>5. pc'[Stamper] \in {"lock", "write"} => stamps' < MaxStamps
  <2>1. CASE CreateStamper
    BY <1>2, <1>3, <2>1, ThreadKinds, BoundAssumption
       DEF CreateStamper, Goto, ThreadTypes, history, ServerInv, LocalInv
  <2>2. CASE ~CreateStamper
    <3>1. pc'[Stamper] = pc[Stamper]
      BY <1>2, <2>2, ThreadKinds
         DEF SetUp, Start, CreateSocket, Bind, ListenOn, Signal, Goto, ThreadTypes
    <3> QED
      BY <1>3, <3>1 DEF history, ServerInv, LocalInv
  <2> QED
    BY <2>1, <2>2
<1>6. Listens <= Listens' /\ (CreateSocket => pc[Main] = "socket" /\ Listens' # Listens)
  <2>1. \A place : Goto(Main, place) => pc'[Main] = place
    BY <1>2, ThreadKinds DEF Goto, ThreadTypes
  <2>2. CASE Start
    BY <2>1, <2>2 DEF Start, At, CreateSocket, Listens
  <2>3. CASE CreateSocket
    BY <2>1, <2>3 DEF CreateSocket, At, Listens
  <2>4. CASE Bind \/ ListenOn
    BY <2>1, <2>4 DEF Bind, ListenOn, At, CreateSocket, Listens
  <2>5. CASE CreateStamper
    <3>1. pc'[Main] \in {"accept", "cleanup"} /\ pc[Main] = "stamper"
      BY <1>2, <2>1, <2>5, ThreadKinds DEF CreateStamper, At, ThreadTypes
    <3> QED
      BY <3>1 DEF CreateSocket, At, Listens
  <2>6. CASE Signal
    <3>1. pc'[Main] = pc[Main] \/ pc'[Main] = "cleanup"
      BY <2>1, <2>6 DEF Signal
    <3>2. CreateSocket => pc[Main] = "socket" /\ pc'[Main] \in {"bind", "cleanup"}
      BY <2>1 DEF CreateSocket, At
    <3> QED
      BY <3>1, <3>2 DEF Listens
  <2> QED
    BY <2>2, <2>3, <2>4, <2>5, <2>6 DEF SetUp
<1>7. TableStep /\ fds' \in [Fd -> Resource] /\ sockfd' \in Fd \cup {-1}
  <2>1. CASE Start
    <3>1. sockfd' = sockfd /\ (UNCHANGED fds \/ fds' = [n \in Fd |-> Closed])
      BY <2>1 DEF Start
    <3>2. Closed \in Resource
      BY Resources
    <3> QED
      BY <1>2, <3>1, <3>2 DEF TableStep
  <2>2. CASE CreateSocket
    <3>1. \/ UNCHANGED fds /\ sockfd' = -1
          \/ fds' = [fds EXCEPT ![LowestFree] = Listen] /\ sockfd' = LowestFree
      BY <2>2 DEF CreateSocket
    <3>2. LowestFree \in Fd
      BY <1>6, <2>2, RoomLeft DEF Listens
    <3>3. Listen \in Resource
      BY Resources
    <3> QED
      BY <1>2, <1>6, <2>2, <3>1, <3>2, <3>3 DEF TableStep
  <2>3. CASE ListenOn
    <3>1. sockfd' = sockfd /\ (UNCHANGED fds \/ fds' = [fds EXCEPT ![sockfd] = Closed])
      BY <2>3 DEF ListenOn, Close
    <3>2. Closed \in Resource
      BY Resources
    <3>3. sockfd \notin Fd => UNCHANGED fds
      BY <1>2, <3>1
    <3> QED
      BY <1>2, <3>1, <3>2, <3>3 DEF TableStep
  <2>4. CASE Bind \/ CreateStamper \/ Signal
    BY <1>2, <2>4 DEF Bind, CreateStamper, Signal, files, TableStep
  <2> QED
    BY <2>1, <2>2, <2>3, <2>4 DEF SetUp
<1>8. FileTypes' /\ ConnTypes' /\ HistoryTypes'
  BY <1>3, <1>7 DEF ServerInv, DataTypes, FileTypes, ConnTypes, HistoryTypes, flags, locals,
                    clients, history
<1>9. /\ \A c \in Conn : client_sockfd'[c] = client_sockfd[c]
      /\ \A c \in Conn : pc'[c] \in {"lock", "write", "send"} => buffer'[c] \in Chunk
  BY <1>3, <1>4, ThreadKinds DEF locals, ServerInv, LocalInv
<1> QED
  BY <1>1, <1>5, <1>6, <1>7, <1>8, <1>9, PlainKeepsServer

\* A process that ends, and no step.
LEMMA EndKeepsServer ==
  ASSUME ServerInv,
         \/ \E t \in Conn \cup {Main} : RemoveHeadCrashes(t) \/ JoinFails(t) \/ Exit(t)
         \/ UNCHANGED vars
  PROVE  ServerInv'
<1>1. Plain
  BY OthersArePlain DEF ServerInv, ThreadInv
<1>2. /\ UNCHANGED <<fds, sockfd, datafd, data, mutex, pc, locals, clients, history>>
      /\ proc' \in {"running", "exited", "killed"}
      /\ exists' \in BOOLEAN /\ signal_exit' \in BOOLEAN
  BY ParameterAssumption
     DEF RemoveHeadCrashes, JoinFails, Exit, vars, files, flags, ServerInv, DataTypes,
         FileTypes
<1>3. FileTypes' /\ ConnTypes' /\ HistoryTypes'
  BY <1>2 DEF ServerInv, DataTypes, FileTypes, ConnTypes, HistoryTypes, locals, clients, history
<1>4. TableStep /\ Listens <= Listens'
  BY <1>2 DEF TableStep, Listens
<1> QED
  BY <1>1, <1>2, <1>3, <1>4, PlainKeepsServer DEF ServerInv, LocalInv, locals, history

\* A connection is accepted: it gets a descriptor of its own.
LEMMA AcceptKeepsServer ==
  ASSUME ServerInv, NEW c \in Conn, Accept(c)
  PROVE  ServerInv'
<1>1. ThreadInv'
  BY AcceptKeepsThreads DEF ServerInv
<1>2. /\ pc[Main] = "accept" /\ client[c] = "away" /\ new_thread' = c
      /\ client' = [client EXCEPT ![c] = "open"]
      /\ fds' = [fds EXCEPT ![LowestFree] = Socket(c)]
      /\ client_sockfd' = [client_sockfd EXCEPT ![c] = LowestFree]
      /\ Goto(Main, "create") \/ Goto(Main, "cleanup")
      /\ UNCHANGED <<proc, sockfd, datafd, data, exists, flags, on, buffer, sent, outbox,
                     got, history>>
  BY DEF Accept, At
<1>3. /\ fds \in [Fd -> Resource] /\ client_sockfd \in [Conn -> Fd \cup {-1}]
      /\ client \in [Conn -> {"away", "open", "closed"}] /\ ThreadTypes
  BY DEF ServerInv, DataTypes, FileTypes, ConnTypes, ThreadInv, ThreadTypes
<1>4. /\ \A t \in Thread : t # Main => pc'[t] = pc[t]
      /\ pc'[Main] \in {"create", "cleanup"}
  BY <1>2, <1>3, ThreadKinds DEF Goto, ThreadTypes
<1>5. \A d \in Conn : pc'[d] = pc[d]
  BY <1>4, ThreadKinds
<1>6. pc[c] = "unborn" /\ client'[c] = "open"
  BY <1>2, <1>3 DEF ServerInv, ThreadInv, ListInv
<1>7. /\ Came \subseteq Came' /\ Opened \subseteq Opened'
      /\ c \in Came' /\ c \notin Came
  BY <1>2, <1>3, <1>5, <1>6 DEF Came, Opened
<1>8. LowestFree \in Fd
  BY <1>7, RoomLeft
<1>9. Socket(c) \in Resource
  BY Resources
<1>10. TableStep
  BY <1>2, <1>7, <1>8, <1>9 DEF TableStep
<1>11. Listens <= Listens'
  BY <1>4 DEF Listens
<1>12. fds' \in [Fd -> Resource] /\ RoomInv'
  BY <1>3, <1>7, <1>10, <1>11, RoomKept DEF ServerInv
<1>13. /\ client_sockfd' \in [Conn -> Fd \cup {-1}] /\ client_sockfd'[c] \in Fd
       /\ \A d \in Conn : d # c => client_sockfd'[d] = client_sockfd[d]
  BY <1>2, <1>3, <1>8
<1>14. DataTypes'
  BY <1>2, <1>12, <1>13
     DEF ServerInv, DataTypes, FileTypes, ConnTypes, HistoryTypes, flags, history
<1>15. LocalInv'
  <2>1. pc'[Stamper] = pc[Stamper]
    BY <1>4, ThreadKinds
  <2> QED
    BY <1>2, <1>5, <1>13, <2>1 DEF ServerInv, LocalInv, Started, history
<1> QED
  BY <1>1, <1>12, <1>14, <1>15 DEF ServerInv

\* Its thread begins with that descriptor.
LEMMA CreateKeepsServer ==
  ASSUME ServerInv, Create
  PROVE  ServerInv'
<1>1. ThreadInv'
  BY CreateKeepsThreads DEF ServerInv
<1>2. /\ pc[Main] = "create" /\ UNCHANGED <<proc, files, flags, new_thread, locals, clients, history>>
      /\ \/ pc' = [pc EXCEPT ![Main] = "insert", ![new_thread] = "open"]
         \/ pc' = [pc EXCEPT ![Main] = "cleanup"]
  BY DEF Create, At, Goto, threads
<1>3. new_thread \in Conn /\ pc[new_thread] = "unborn" /\ ThreadTypes
  BY <1>2 DEF ServerInv, ThreadInv, MainInv
<1>4. /\ pc'[Main] \in {"insert", "cleanup"} /\ pc'[Stamper] = pc[Stamper]
      /\ pc'[new_thread] \in {"unborn", "open"}
      /\ \A d \in Conn : d # new_thread => pc'[d] = pc[d]
  BY <1>2, <1>3, ThreadKinds DEF ThreadTypes
<1>5. DataTypes'
  BY <1>2 DEF ServerInv, DataTypes, FileTypes, ConnTypes, HistoryTypes, files, flags, locals,
              clients, history
<1>6. LocalInv'
  BY <1>2, <1>3, <1>4 DEF ServerInv, LocalInv, Started, locals, history
<1>7. Came \subseteq Came' /\ Opened \subseteq Opened'
  BY <1>2, <1>3, <1>4 DEF Came, Opened, clients
<1>8. TableStep /\ Listens <= Listens'
  BY <1>2, <1>4 DEF TableStep, Listens, files
<1>9. RoomInv'
  BY <1>7, <1>8, RoomKept DEF ServerInv, DataTypes, FileTypes
<1> QED
  BY <1>1, <1>5, <1>6, <1>9 DEF ServerInv

\* The list and the cleanups only move threads about.
LEMMA ListStepKeepsServer ==
  ASSUME ServerInv,
         \/ Insert \/ Scan \/ Join \/ RemoveJoined
         \/ \E t \in Conn \cup {Main} :
              TestList(t) \/ TakeFirst(t) \/ RemoveHead(t) \/ JoinThread(t)
  PROVE  ServerInv'
<1>1. ThreadInv'
  BY InsertKeepsThreads, ScanKeepsThreads, JoinKeepsThreads, RemoveKeepsThreads,
     TestKeepsThreads, TakeKeepsThreads, RemoveHeadKeepsThreads,
     CleanupJoinKeepsThreads DEF ServerInv
<1> DEFINE from == {"insert", "scan", "join", "remove", "cleanup", "cleanup_first",
                    "cleanup_pop", "cleanup_join"}
           to   == {"accept", "scan", "join", "remove", "cleanup", "cleanup_first",
                    "cleanup_pop", "cleanup_join"}
<1>2. /\ UNCHANGED <<files, mutex, locals, clients, history>>
      /\ proc' \in {proc, "running", "killed"} /\ signal_exit' \in {signal_exit, TRUE}
      /\ \/ UNCHANGED pc
         \/ \E t \in Conn \cup {Main} : \E place \in to : pc[t] \in from /\ Goto(t, place)
  <2>1. CASE Insert
    BY <2>1 DEF Insert, At, flags
  <2>2. CASE Scan
    BY <2>2 DEF Scan, AfterUseOf, At, flags
  <2>3. CASE Join
    BY <2>3 DEF Join, At, flags
  <2>4. CASE RemoveJoined
    BY <2>4 DEF RemoveJoined, AfterUseOf, At, flags
  <2>5. ASSUME NEW t \in Conn \cup {Main},
               TestList(t) \/ TakeFirst(t) \/ RemoveHead(t) \/ JoinThread(t)
        PROVE  /\ UNCHANGED <<files, mutex, locals, clients, history>>
               /\ proc' \in {proc, "running", "killed"} /\ signal_exit' \in {signal_exit, TRUE}
               /\ \E place \in to : pc[t] \in from /\ Goto(t, place)
    BY <2>5 DEF TestList, TakeFirst, RemoveHead, JoinThread, AfterUseOf, At, flags
  <2> QED
    BY <2>1, <2>2, <2>3, <2>4, <2>5
<1>3. /\ \A t \in Conn \cup {Main} : pc'[t] = pc[t] \/ (pc[t] \in from /\ pc'[t] \in to)
      /\ pc'[Stamper] = pc[Stamper]
  BY <1>2, ThreadKinds DEF Goto, ServerInv, ThreadInv, ThreadTypes
<1>4. DataTypes'
  BY <1>2 DEF ServerInv, DataTypes, FileTypes, ConnTypes, HistoryTypes, files, locals, clients,
              history
<1>5. pc'[Main] = "create" => pc'[Main] = pc[Main] /\ UNCHANGED new_thread
  <2>1. CASE UNCHANGED new_thread
    BY <1>3, <2>1
  <2>2. CASE ~UNCHANGED new_thread
    BY <2>2 DEF Insert, Scan, Join, RemoveJoined, TestList, TakeFirst, RemoveHead,
                JoinThread, threads
  <2> QED
    BY <2>1, <2>2
<1>6. LocalInv'
  BY <1>2, <1>3, <1>5 DEF ServerInv, LocalInv, Started, locals, history
<1>7. Came \subseteq Came' /\ Opened \subseteq Opened'
  BY <1>2, <1>3 DEF Came, Opened, clients
<1>8. TableStep /\ Listens <= Listens'
  BY <1>2, <1>3 DEF TableStep, Listens, files
<1>9. RoomInv'
  BY <1>7, <1>8, RoomKept DEF ServerInv, DataTypes, FileTypes
<1> QED
  BY <1>1, <1>4, <1>6, <1>9 DEF ServerInv

\* A process begins with the descriptors of its shell.
LEMMA StandardRoom ==
  /\ Standard \in [Fd -> Resource]
  /\ Cardinality({n \in Fd : Standard[n] # Closed}) <= 3
<1>1. Standard \in [Fd -> Resource]
  BY Resources DEF Standard
<1> DEFINE used == {n \in Fd : Standard[n] # Closed}
<1>2. used \subseteq 0 .. 2
  <2>1. ASSUME NEW n \in used PROVE n \in 0 .. 2
    <3>1. n \in Nat /\ n < 3
      BY <2>1, Table DEF Standard
    <3> QED
      BY <3>1
  <2> QED
    BY <2>1
<1>3. IsFiniteSet(0 .. 2) /\ Cardinality(0 .. 2) = 3
  <2> DEFINE top == 2
  <2> HIDE DEF top
  <2>1. top \in Int /\ top >= 0 /\ top - 0 + 1 = 3
    BY DEF top
  <2>2. IsFiniteSet(0 .. top) /\ Cardinality(0 .. top) = top - 0 + 1
    BY <2>1, FS_Interval
  <2> QED
    BY <2>1, <2>2 DEF top
<1>4. Cardinality(used) <= Cardinality(0 .. 2)
  BY <1>2, <1>3, FS_Subset
<1> QED
  BY <1>1, <1>3, <1>4

LEMMA InitIsServer ==
  ASSUME Init
  PROVE  ServerInv
<1>1. ThreadInv
  BY InitHasThreads
<1>2. FileTypes
  BY StandardRoom, ThreadKinds, Table, ParameterAssumption DEF Init, FileTypes
<1>3. ConnTypes /\ HistoryTypes
  BY Resources, BoundAssumption DEF Init, ConnTypes, HistoryTypes
<1>4. /\ pc[Main] = "start" /\ pc[Stamper] = "unborn" /\ \A c \in Conn : pc[c] = "unborn"
  BY ThreadKinds DEF Init
<1>5. LocalInv
  BY <1>4 DEF LocalInv, Started
<1>6. RoomInv
  <2> DEFINE came == Cardinality(Came)
             opened == Cardinality(Opened)
             used == Cardinality(Used)
             listens == Listens
  <2>1. came \in Nat /\ opened \in Nat
    BY FiniteCounts DEF Came, Opened
  <2>2. used <= 3
    BY StandardRoom DEF Init, Used
  <2>3. listens = 0
    BY <1>4 DEF Listens
  <2>4. used \in Nat
    BY Table, FS_Subset, FS_CardinalityType DEF Used
  <2>5. used <= 3 + listens + came + opened
    <3> HIDE DEF came, opened, used, listens
    <3> QED
      BY <2>1, <2>2, <2>3, <2>4
  <2> QED
    BY <2>5 DEF RoomInv
<1> QED
  BY <1>1, <1>2, <1>3, <1>5, <1>6 DEF ServerInv, DataTypes

LEMMA RestartKeepsServer ==
  ASSUME ServerInv, Restart
  PROVE  ServerInv'
<1>1. ThreadInv'
  BY RestartKeepsThreads
<1>2. /\ proc \in {"running", "exited", "killed"} /\ data \in Seq(Chunk)
      /\ exists \in BOOLEAN /\ stamps \in 0 .. MaxStamps /\ starts \in 1 .. MaxStarts
  BY DEF ServerInv, DataTypes, FileTypes, HistoryTypes
<1>3. data' \in Seq(Chunk)
  BY <1>2 DEF Restart, Left
<1>4. FileTypes'
  BY <1>2, <1>3, StandardRoom, ThreadKinds, Table DEF Restart, FileTypes
<1>5. ConnTypes'
  BY Resources, BoundAssumption DEF Restart, ConnTypes
<1>6. HistoryTypes'
  BY <1>2, BoundAssumption DEF Restart, HistoryTypes
<1>7. /\ pc'[Main] = "start" /\ pc'[Stamper] = "unborn"
      /\ \A c \in Conn : pc'[c] \in {"unborn", "gone"}
  BY ThreadKinds DEF Restart
<1>8. LocalInv'
  BY <1>7 DEF LocalInv, Started
<1>9. RoomInv'
  <2> DEFINE came == Cardinality(Came')
             opened == Cardinality(Opened')
             used == Cardinality(Used')
             listens == Listens'
  <2>1. came \in Nat /\ opened \in Nat
    <3>1. Came' \subseteq Conn /\ Opened' \subseteq Conn
      BY DEF Came, Opened
    <3> QED
      BY <3>1, FiniteCounts
  <2>2. used <= 3
    <3>1. Used' = {n \in Fd : Standard[n] # Closed}
      BY DEF Restart, Used
    <3> QED
      BY <3>1, StandardRoom
  <2>3. listens = 0
    BY <1>7 DEF Listens
  <2>4. used \in Nat
    <3>1. Used' \subseteq Fd
      BY DEF Used
    <3> QED
      BY <3>1, Table, FS_Subset, FS_CardinalityType
  <2>5. used <= 3 + listens + came + opened
    <3> HIDE DEF came, opened, used, listens
    <3> QED
      BY <2>1, <2>2, <2>3, <2>4
  <2> QED
    BY <2>5 DEF RoomInv
<1> QED
  BY <1>1, <1>4, <1>5, <1>6, <1>8, <1>9 DEF ServerInv, DataTypes

LEMMA StepKeepsServer ==
  ASSUME ServerInv, [Next]_vars
  PROVE  ServerInv'
<1>1. CASE \E c \in Conn : Accept(c) \/ ClientSends(c) \/ ClientCloses(c) \/ Worker(c)
  BY <1>1, AcceptKeepsServer, ClientKeepsServer, WorkerKeepsServer
<1>2. CASE SetUp \/ Signal \/ StamperStep \/ Restart \/ Create
  BY <1>2, SetUpKeepsServer, StamperKeepsServer, RestartKeepsServer, CreateKeepsServer
<1>3. CASE \/ Insert \/ Scan \/ Join \/ RemoveJoined
           \/ \E t \in Conn \cup {Main} :
              TestList(t) \/ TakeFirst(t) \/ RemoveHead(t) \/ JoinThread(t)
  BY <1>3, ListStepKeepsServer
<1>4. CASE \/ \E t \in Conn \cup {Main} : RemoveHeadCrashes(t) \/ JoinFails(t) \/ Exit(t)
           \/ UNCHANGED vars
  BY <1>4, EndKeepsServer
<1> QED
  BY <1>1, <1>2, <1>3, <1>4 DEF Next, Client, MainStep, Cleanup, Rest

LEMMA ServerKept == Spec => []ServerInv
<1>1. Init => ServerInv
  BY InitIsServer
<1>2. ServerInv /\ [Next]_vars => ServerInv'
  BY StepKeepsServer
<1> QED
  BY <1>1, <1>2, PTL DEF Spec

\* Every variable of the server keeps its type whatever fails, hangs up or is
\* signalled: "datafd = open(...)" and accept (aesdsocket.c:144 and 332) are given
\* numbers of a table of two descriptors for each connection.
THEOREM ServerTypes == Spec => []TypeOK
<1>1. ServerInv => TypeOK
  <2> SUFFICES ASSUME ServerInv PROVE TypeOK
    OBVIOUS
  <2>1. /\ pc[Main] \in MainPlaces \cup CleanupPlaces /\ pc[Stamper] \in StamperPlaces
        /\ \A c \in Conn : pc[c] \in WorkerPlaces \cup CleanupPlaces
    BY ThreadKinds DEF ServerInv, ThreadInv, ThreadTypes
  <2> QED
    BY <2>1 DEF ServerInv, ThreadInv, ThreadTypes, DataTypes, FileTypes, ConnTypes,
                HistoryTypes, TypeOK
<1> QED
  BY <1>1, ServerKept, PTL
=============================================================================
