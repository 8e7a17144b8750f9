------------------------------ MODULE BoxProofs ------------------------------
(***************************************************************************)
(* Proofs about Box, for any number of calls, a pipe of any length and     *)
(* answers of any lengths: the types, that nothing is dropped and, until a *)
(* call is cut short, that nobody waits for an answer or for room that is  *)
(* not to come.  As long as fewer identifiers were given than the wire can *)
(* tell apart, too, both ends mean the same statement, their queues agree  *)
(* and every answer reaches the call it is for.                            *)
(*                                                                         *)
(* Both queues are in the order of the calls that prepared their members,  *)
(* so that each is known by the numbers of these calls, its keys.  The     *)
(* inductive invariant follows the server's keys through the requests that *)
(* are still in the pipe: what is alive behind the last of them is what    *)
(* the client holds.  Until a call is cut short at most one answer is      *)
(* under way, that of the request that is waited for, so that it has room  *)
(* and the length that is read.                                            *)
(***************************************************************************)
EXTENDS Box, SequenceTheorems, WellFoundedInduction, TLAPS

Request == [op : Operations, id : Nat, key : Nat, no : Nat]
Answer == [no : Nat, id : Nat, key : Nat, size : Nat, left : Nat]

\* The members of a queue, by key alone and with their identifiers.
In(q, k) == \E i \in 1..Len(q) : q[i].key = k
Holds(q, id, k) == \E i \in 1..Len(q) : q[i].id = id /\ q[i].key = k
Sorted(q) == \A i, j \in 1..Len(q) : i < j => q[i].key < q[j].key

-----------------------------------------------------------------------------
(* Queues. *)

\* Removing the member at position k.
LEMMA RemoveAtElements ==
  ASSUME NEW S, NEW q \in Seq(S), NEW k \in 1..Len(q)
  PROVE  /\ RemoveAt(q, k) \in Seq(S)
         /\ Len(RemoveAt(q, k)) = Len(q) - 1
         /\ \A i \in 1..Len(q) - 1 :
              RemoveAt(q, k)[i] = IF i < k THEN q[i] ELSE q[i + 1]
<1> DEFINE s1 == SubSeq(q, 1, k - 1)
           s2 == SubSeq(q, k + 1, Len(q))
<1>1. Len(q) \in Nat /\ k \in Nat /\ 1 <= k /\ k <= Len(q)
  BY LenProperties
<1>2. \A i \in 1..Len(q) : q[i] \in S
  BY ElementOfSeq
<1>3. /\ s1 \in Seq(S) /\ Len(s1) = k - 1
      /\ \A i \in 1..k - 1 : s1[i] = q[i]
  <2>1. \A i \in 1..k - 1 : q[i] \in S
    BY <1>1, <1>2
  <2>2. QED
    BY <1>1, <2>1, SubSeqProperties
<1>4. /\ s2 \in Seq(S)
      /\ Len(s2) = IF k + 1 <= Len(q) THEN Len(q) - (k + 1) + 1 ELSE 0
      /\ \A i \in 1..Len(q) - (k + 1) + 1 : s2[i] = q[(k + 1) + i - 1]
  <2>1. \A i \in k + 1..Len(q) : q[i] \in S
    BY <1>1, <1>2
  <2>2. k + 1 \in Int /\ Len(q) \in Int
    BY <1>1
  <2>3. QED
    BY <2>1, <2>2, SubSeqProperties
<1> HIDE DEF s1, s2
<1>5. Len(s2) = Len(q) - k
  BY <1>1, <1>4
<1>6. /\ s1 \o s2 \in Seq(S)
      /\ Len(s1 \o s2) = Len(s1) + Len(s2)
      /\ \A i \in 1..Len(s1) + Len(s2) :
           (s1 \o s2)[i] = IF i <= Len(s1) THEN s1[i] ELSE s2[i - Len(s1)]
  BY <1>3, <1>4, ConcatProperties
<1>7. Len(s1) + Len(s2) = Len(q) - 1
  BY <1>1, <1>3, <1>5
<1>8. ASSUME NEW i \in 1..Len(q) - 1
      PROVE  (s1 \o s2)[i] = IF i < k THEN q[i] ELSE q[i + 1]
  <2>1. CASE i < k
    <3>1. i \in 1..k - 1 /\ i <= Len(s1) /\ i \in 1..Len(s1) + Len(s2)
      BY <1>1, <1>3, <1>7, <2>1
    <3>2. QED
      BY <1>3, <1>6, <2>1, <3>1
  <2>2. CASE ~(i < k)
    <3>1. i - Len(s1) \in 1..Len(q) - (k + 1) + 1
      BY <1>1, <1>3, <2>2
    <3>2. (k + 1) + (i - Len(s1)) - 1 = i + 1
      BY <1>1, <1>3
    <3>3. (s1 \o s2)[i] = s2[i - Len(s1)]
      BY <1>1, <1>3, <1>6, <1>7, <2>2
    <3>4. s2[i - Len(s1)] = q[(k + 1) + (i - Len(s1)) - 1]
      BY <1>4, <3>1
    <3>5. QED
      BY <2>2, <3>2, <3>3, <3>4
  <2>3. QED
    BY <2>1, <2>2
<1>9. RemoveAt(q, k) = s1 \o s2
  BY DEF RemoveAt, s1, s2
<1>10. QED
  BY <1>6, <1>7, <1>8, <1>9

\* The smallest of some numbers.
LEMMA MinFacts ==
  ASSUME NEW S, S \subseteq Nat, S # {}
  PROVE  Min(S) \in S /\ \A i \in S : Min(S) <= i
<1> DEFINE R == OpToRel(<, Nat)
<1>1. \A x, y \in Nat : <<y, x>> \in R <=> y < x
  BY DEF OpToRel
<1>2. IsWellFoundedOn(R, Nat)
  BY NatLessThanWellFounded
<1> HIDE DEF R
<1>4. PICK x \in S : \A y \in S : ~(<<y, x>> \in R)
  BY <1>2, WFMin
<1>5. ASSUME NEW y \in S PROVE x <= y
  <2>1. x \in Nat /\ y \in Nat /\ ~(<<y, x>> \in R)
    BY <1>4
  <2>2. ~(y < x)
    BY <1>1, <2>1
  <2>3. QED
    BY <2>1, <2>2
<1>6. QED
  BY <1>5 DEF Min

\* What a queue is asked for it finds.
LEMMA FindFacts ==
  ASSUME NEW q \in Seq(Statement), NEW id \in Nat
  PROVE  /\ Find(q, id) \in 0..Len(q)
         /\ id = 0 => Find(q, id) = Len(q)
         /\ id # 0 /\ Find(q, id) # 0 => q[Find(q, id)].id = id
         /\ id # 0 /\ Find(q, id) = 0 => \A i \in 1..Len(q) : q[i].id # id
<1>1. Len(q) \in Nat
  OBVIOUS
<1>2. CASE id = 0
  BY <1>1, <1>2 DEF Find
<1>3. CASE id # 0
  <2> DEFINE at == {i \in 1..Len(q) : q[i].id = id}
  <2>1. Find(q, id) = IF at # {} THEN Min(at) ELSE 0
    BY <1>3 DEF Find, SelectInSeq
  <2>2. CASE at = {}
    BY <1>1, <1>3, <2>1, <2>2
  <2>3. CASE at # {}
    <3>1. Min(at) \in at
      <4>1. at \subseteq Nat
        BY <1>1
      <4> HIDE DEF at
      <4>2. QED
        BY <2>3, <4>1, MinFacts
    <3>2. Find(q, id) = Min(at)
      BY <2>1, <2>3
    <3> HIDE DEF at
    <3>3. Find(q, id) \in at
      BY <3>1, <3>2
    <3>4. QED
      BY <1>1, <1>3, <3>3 DEF at
  <2>4. QED
    BY <2>2, <2>3
<1>4. QED
  BY <1>2, <1>3

LEMMA QueueFacts ==
  ASSUME NEW q \in Seq(Statement)
  PROVE  /\ Len(q) \in Nat
         /\ \A i \in 1..Len(q) : q[i] \in Statement /\ q[i].id \in Nat /\ q[i].key \in 1..MaxCalls
         /\ \A k : In(q, k) => k \in 1..MaxCalls /\ \E id \in Nat : Holds(q, id, k)
         /\ \A id, k : Holds(q, id, k) => In(q, k) /\ id \in Nat
<1>1. Len(q) \in Nat /\ \A i \in 1..Len(q) : q[i] \in Statement
  BY ElementOfSeq
<1>2. \A i \in 1..Len(q) : q[i].id \in Nat /\ q[i].key \in 1..MaxCalls
  BY <1>1 DEF Statement
<1>3. QED
  BY <1>1, <1>2 DEF In, Holds

\* A member that is newer than all others is added.
LEMMA AppendFacts ==
  ASSUME NEW q \in Seq(Statement), NEW id \in Nat, NEW key \in 1..MaxCalls,
         Sorted(q), \A k \in Nat : In(q, k) => k < key
  PROVE  LET r == Append(q, [id |-> id, key |-> key]) IN
         /\ r \in Seq(Statement) /\ Sorted(r)
         /\ \A k : In(r, k) <=> In(q, k) \/ k = key
         /\ \A i, k : Holds(r, i, k) <=> Holds(q, i, k) \/ (i = id /\ k = key)
<1> DEFINE st == [id |-> id, key |-> key]
           r == Append(q, st)
<1>1. st \in Statement /\ st.id = id /\ st.key = key
  BY DEF Statement
<1> HIDE DEF st
<1>2. /\ r \in Seq(Statement) /\ Len(r) = Len(q) + 1 /\ Len(q) \in Nat
      /\ \A i \in 1..Len(q) : r[i] = q[i]
      /\ r[Len(q) + 1] = st
  BY <1>1
<1> HIDE DEF r
<1>3. \A i \in 1..Len(q) : q[i].key < key /\ q[i].key \in Nat
  BY QueueFacts DEF In
<1>4. key \in Nat
  OBVIOUS
<1>5. Sorted(r)
  <2> SUFFICES ASSUME NEW i \in 1..Len(r), NEW j \in 1..Len(r), i < j
               PROVE  r[i].key < r[j].key
    BY DEF Sorted
  <2>1. i \in 1..Len(q) /\ r[i] = q[i]
    BY <1>2
  <2>2. CASE j \in 1..Len(q)
    BY <1>2, <2>1, <2>2 DEF Sorted
  <2>3. CASE j = Len(q) + 1
    BY <1>1, <1>2, <1>3, <2>1, <2>3
  <2>4. QED
    BY <1>2, <2>2, <2>3
<1>6. \A i \in 1..Len(r) : i \in 1..Len(q) \/ i = Len(q) + 1
  BY <1>2
<1>7. 1..Len(q) \subseteq 1..Len(r) /\ Len(q) + 1 \in 1..Len(r)
  BY <1>2
<1>8. \A k : In(r, k) <=> In(q, k) \/ k = key
  BY <1>1, <1>2, <1>6, <1>7 DEF In
<1>9. \A i, k : Holds(r, i, k) <=> Holds(q, i, k) \/ (i = id /\ k = key)
  BY <1>1, <1>2, <1>6, <1>7 DEF Holds
<1>10. QED
  BY <1>2, <1>5, <1>8, <1>9 DEF r, st

\* A member is removed.
LEMMA RemoveFacts ==
  ASSUME NEW q \in Seq(Statement), NEW p \in 1..Len(q), Sorted(q)
  PROVE  LET r == RemoveAt(q, p) IN
         /\ r \in Seq(Statement) /\ Sorted(r)
         /\ \A k : In(r, k) <=> In(q, k) /\ k # q[p].key
         /\ \A i, k : Holds(r, i, k) <=> Holds(q, i, k) /\ k # q[p].key
<1> DEFINE r == RemoveAt(q, p)
<1>1. /\ r \in Seq(Statement) /\ Len(r) = Len(q) - 1 /\ Len(q) \in Nat
      /\ \A i \in 1..Len(q) - 1 : r[i] = IF i < p THEN q[i] ELSE q[i + 1]
  BY RemoveAtElements
<1> HIDE DEF r
<1>2. \A i \in 1..Len(q) : q[i].key \in Nat
  BY QueueFacts
<1>3. \A i, j \in 1..Len(q) : q[i].key = q[j].key => i = j
  <2> SUFFICES ASSUME NEW i \in 1..Len(q), NEW j \in 1..Len(q), q[i].key = q[j].key PROVE i = j
    OBVIOUS
  <2>1. ~(i < j) /\ ~(j < i)
    BY <1>2 DEF Sorted
  <2>2. QED
    BY <2>1
<1>4. \A i \in 1..Len(r) : \E j \in 1..Len(q) : j # p /\ r[i] = q[j]
  <2> SUFFICES ASSUME NEW i \in 1..Len(r) PROVE \E j \in 1..Len(q) : j # p /\ r[i] = q[j]
    OBVIOUS
  <2>1. CASE i < p
    <3>1. i \in 1..Len(q) /\ i # p /\ r[i] = q[i]
      BY <1>1, <2>1
    <3>2. QED
      BY <3>1
  <2>2. CASE ~(i < p)
    <3>1. i + 1 \in 1..Len(q) /\ i + 1 # p /\ r[i] = q[i + 1]
      BY <1>1, <2>2
    <3>2. QED
      BY <3>1
  <2>3. QED
    BY <2>1, <2>2
<1>5. \A j \in 1..Len(q) : j # p => \E i \in 1..Len(r) : r[i] = q[j]
  <2> SUFFICES ASSUME NEW j \in 1..Len(q), j # p PROVE \E i \in 1..Len(r) : r[i] = q[j]
    OBVIOUS
  <2>1. CASE j < p
    <3>1. j \in 1..Len(r) /\ r[j] = q[j]
      BY <1>1, <2>1
    <3>2. QED
      BY <3>1
  <2>2. CASE ~(j < p)
    <3>1. j - 1 \in 1..Len(r) /\ ~(j - 1 < p) /\ j - 1 + 1 = j
      BY <1>1, <2>2
    <3>2. r[j - 1] = q[j]
      BY <1>1, <3>1
    <3>3. QED
      BY <3>1, <3>2
  <2>3. QED
    BY <2>1, <2>2
<1>6. Sorted(r)
  <2> SUFFICES ASSUME NEW i \in 1..Len(r), NEW j \in 1..Len(r), i < j
               PROVE  r[i].key < r[j].key
    BY DEF Sorted
  <2> DEFINE a == IF i < p THEN i ELSE i + 1
             b == IF j < p THEN j ELSE j + 1
  <2>1. a \in 1..Len(q) /\ b \in 1..Len(q) /\ a < b /\ r[i] = q[a] /\ r[j] = q[b]
    BY <1>1
  <2> HIDE DEF a, b
  <2>2. QED
    BY <2>1 DEF Sorted
<1>7. ASSUME NEW k PROVE In(r, k) <=> In(q, k) /\ k # q[p].key
  <2>1. ASSUME In(r, k) PROVE In(q, k) /\ k # q[p].key
    <3>1. PICK i \in 1..Len(r) : r[i].key = k
      BY <2>1 DEF In
    <3>2. PICK j \in 1..Len(q) : j # p /\ r[i] = q[j]
      BY <1>4
    <3>3. QED
      BY <1>3, <3>1, <3>2 DEF In
  <2>2. ASSUME In(q, k), k # q[p].key PROVE In(r, k)
    <3>1. PICK j \in 1..Len(q) : q[j].key = k
      BY <2>2 DEF In
    <3>2. PICK i \in 1..Len(r) : r[i] = q[j]
      BY <1>5, <2>2, <3>1
    <3>3. QED
      BY <3>1, <3>2 DEF In
  <2>3. QED
    BY <2>1, <2>2
<1>8. ASSUME NEW n, NEW k PROVE Holds(r, n, k) <=> Holds(q, n, k) /\ k # q[p].key
  <2>1. ASSUME Holds(r, n, k) PROVE Holds(q, n, k) /\ k # q[p].key
    <3>1. PICK i \in 1..Len(r) : r[i].id = n /\ r[i].key = k
      BY <2>1 DEF Holds
    <3>2. PICK j \in 1..Len(q) : j # p /\ r[i] = q[j]
      BY <1>4
    <3>3. QED
      BY <1>3, <3>1, <3>2 DEF Holds
  <2>2. ASSUME Holds(q, n, k), k # q[p].key PROVE Holds(r, n, k)
    <3>1. PICK j \in 1..Len(q) : q[j].id = n /\ q[j].key = k
      BY <2>2 DEF Holds
    <3>2. PICK i \in 1..Len(r) : r[i] = q[j]
      BY <1>5, <2>2, <3>1
    <3>3. QED
      BY <3>1, <3>2 DEF Holds
  <2>3. QED
    BY <2>1, <2>2
<1>9. QED
  BY <1>1, <1>6, <1>7, <1>8 DEF r

\* Queues with the same keys are alike, place by place.
LEMMA SameKeys ==
  ASSUME NEW q \in Seq(Statement), NEW r \in Seq(Statement), Sorted(q), Sorted(r),
         \A k \in Nat : In(q, k) <=> In(r, k)
  PROVE  Len(q) = Len(r) /\ \A i \in 1..Len(q) : q[i].key = r[i].key
<1> DEFINE Differ == {i \in Nat \ {0} :
                        /\ i <= Len(q) \/ i <= Len(r)
                        /\ ~(i <= Len(q) /\ i <= Len(r) /\ q[i].key = r[i].key)}
<1>1. Len(q) \in Nat /\ Len(r) \in Nat
  OBVIOUS
<1>2. (\A i \in 1..Len(q) : q[i].key \in Nat) /\ (\A i \in 1..Len(r) : r[i].key \in Nat)
  BY QueueFacts
<1>3. ASSUME Differ # {} PROVE FALSE
  <2> DEFINE m == Min(Differ)
  <2>1. m \in Differ /\ \A i \in Differ : m <= i
    BY <1>3, MinFacts
  <2>2. m \in Nat \ {0} /\ (m <= Len(q) \/ m <= Len(r))
        /\ ~(m <= Len(q) /\ m <= Len(r) /\ q[m].key = r[m].key)
    BY <2>1
  <2>3. \A i \in Nat \ {0} : i < m /\ (i <= Len(q) \/ i <= Len(r)) =>
          i <= Len(q) /\ i <= Len(r) /\ q[i].key = r[i].key
    BY <2>1, <2>2
  <2> HIDE DEF m, Differ
  <2>4. m <= Len(q) => \E j \in 1..Len(r) : m <= j /\ r[j].key = q[m].key
    <3> SUFFICES ASSUME m <= Len(q) PROVE \E j \in 1..Len(r) : m <= j /\ r[j].key = q[m].key
      OBVIOUS
    <3>1. m \in 1..Len(q) /\ q[m].key \in Nat
      BY <1>1, <1>2, <2>2
    <3>2. PICK j \in 1..Len(r) : r[j].key = q[m].key
      BY <3>1 DEF In
    <3>3. ASSUME j < m PROVE FALSE
      <4>1. j \in 1..Len(q) /\ q[j].key = r[j].key
        BY <1>1, <2>2, <2>3, <3>3
      <4>2. q[j].key < q[m].key
        BY <3>1, <3>3, <4>1 DEF Sorted
      <4>3. QED
        BY <3>1, <3>2, <4>1, <4>2
    <3>4. QED
      BY <2>2, <3>2, <3>3
  <2>5. m <= Len(r) => \E j \in 1..Len(q) : m <= j /\ q[j].key = r[m].key
    <3> SUFFICES ASSUME m <= Len(r) PROVE \E j \in 1..Len(q) : m <= j /\ q[j].key = r[m].key
      OBVIOUS
    <3>1. m \in 1..Len(r) /\ r[m].key \in Nat
      BY <1>1, <1>2, <2>2
    <3>2. PICK j \in 1..Len(q) : q[j].key = r[m].key
      BY <3>1 DEF In
    <3>3. ASSUME j < m PROVE FALSE
      <4>1. j \in 1..Len(r) /\ q[j].key = r[j].key
        BY <1>1, <2>2, <2>3, <3>3
      <4>2. r[j].key < r[m].key
        BY <3>1, <3>3, <4>1 DEF Sorted
      <4>3. QED
        BY <3>1, <3>2, <4>1, <4>2
    <3>4. QED
      BY <2>2, <3>2, <3>3
  <2>6. m <= Len(q) /\ m <= Len(r)
    BY <1>1, <2>2, <2>4, <2>5
  <2>7. m \in 1..Len(q) /\ m \in 1..Len(r)
    BY <1>1, <2>2, <2>6
  <2>8. PICK a \in 1..Len(r) : m <= a /\ r[a].key = q[m].key
    BY <2>4, <2>6
  <2>9. PICK b \in 1..Len(q) : m <= b /\ q[b].key = r[m].key
    BY <2>5, <2>6
  <2>10. r[m].key <= r[a].key
    BY <1>2, <2>7, <2>8 DEF Sorted
  <2>11. q[m].key <= q[b].key
    BY <1>2, <2>7, <2>9 DEF Sorted
  <2>12. q[m].key = r[m].key
    BY <1>2, <2>7, <2>8, <2>9, <2>10, <2>11
  <2>13. QED
    BY <2>2, <2>6, <2>12
<1>4. Differ = {}
  BY <1>3
<1>5. \A i \in Nat \ {0} : i <= Len(q) \/ i <= Len(r) =>
        i <= Len(q) /\ i <= Len(r) /\ q[i].key = r[i].key
  BY <1>4
<1> HIDE DEF Differ
<1>6. Len(q) = Len(r)
  <2>1. ASSUME Len(q) < Len(r) PROVE FALSE
    BY <1>1, <1>5, <2>1
  <2>2. ASSUME Len(r) < Len(q) PROVE FALSE
    BY <1>1, <1>5, <2>2
  <2>3. QED
    BY <1>1, <2>1, <2>2
<1>7. QED
  BY <1>1, <1>5, <1>6

-----------------------------------------------------------------------------
(* What holds whatever happens. *)

Types ==
  /\ cq \in Seq(Statement) /\ sq \in Seq(Statement)
  /\ call \in [op : Synchronous \cup {"idle"}, no : Nat, key : Nat, due : Nat]
  /\ sent \in Nat /\ handled \in Nat /\ lastid \in Nat
  /\ c2s \in Seq(Request) /\ s2c \in Seq(Answer)
  /\ up \in BOOLEAN /\ failing \in BOOLEAN
  /\ failed \in BOOLEAN /\ freed \in BOOLEAN /\ stuck \in BOOLEAN
  /\ cut \in Nat /\ cut <= Cuts

\* While the server is up a request is handled or in the pipe.
Counts ==
  /\ sent <= MaxCalls /\ lastid <= handled /\ handled <= sent
  /\ up => sent = handled + Len(c2s)
  /\ ~up => c2s = <<>> /\ (failing \/ handled = sent)
  /\ Len(c2s) <= MaxPipe /\ Len(s2c) <= MaxPipe

\* The queues are in the order of the calls, and identifiers are distinct.
Ordered ==
  /\ Sorted(cq) /\ Sorted(sq)
  /\ \A k \in Nat : (In(cq, k) => k <= sent) /\ (In(sq, k) => k <= handled)
  /\ \A id \in Nat, k \in Nat : Holds(sq, id, k) => 1 <= id /\ id <= lastid
  /\ \A id \in Nat, j \in Nat, k \in Nat : Holds(sq, id, j) /\ Holds(sq, id, k) => j = k

\* Requests, answers and the call that waits.
RequestsInv ==
  \A i \in 1..Len(c2s) :
    c2s[i].no = handled + i /\ c2s[i].key <= sent /\ c2s[i].id <= MaxCalls

AnswersInv ==
  \A i \in 1..Len(s2c) :
    /\ 1 <= s2c[i].no /\ s2c[i].no <= sent /\ s2c[i].id <= MaxCalls /\ s2c[i].key <= sent
    /\ 1 <= s2c[i].left /\ s2c[i].left <= s2c[i].size /\ s2c[i].size <= Longest

CallInv ==
  /\ call = Idle \/ call.op \in Synchronous
  /\ call.due <= Basis
  /\ stuck => call = Idle
  /\ call.op \in Synchronous => call.no = sent /\ 1 <= sent /\ call.key <= sent
  /\ call.op = "prepare" => call.key = sent /\ \A k \in Nat : In(cq, k) => k < sent

Base == Types /\ Counts /\ Ordered /\ RequestsInv /\ AnswersInv /\ CallInv

LEMMA Constants ==
  /\ MaxCalls \in Nat /\ MaxPipe \in Nat /\ MaxPipe >= 1 /\ Wire \in Nat /\ Wire >= 1
  /\ Basis \in Nat /\ Basis > 2 /\ Longest \in Nat /\ Basis <= Longest /\ Cuts \in Nat
  /\ Idle.op = "idle" /\ Idle.no = 0 /\ Idle.key = 0 /\ Idle.due = 0
  /\ Idle \in [op : {"idle"}, no : {0}, key : {0}, due : {0}] /\ Idle.op \notin Synchronous
  /\ Synchronous \subseteq Operations /\ "idle" \notin Synchronous
BY BoxAssumption DEF Idle, Synchronous, Operations

\* What the calls read.
LEMMA WantsFacts ==
  ASSUME NEW op
  PROVE  /\ Wants(op) \in Nat /\ 1 <= Wants(op) /\ Wants(op) <= Basis
         /\ op = "step" => Wants(op) = Basis
         /\ op = "lastid" => Wants(op) = 2
         /\ op # "step" /\ op # "lastid" => Wants(op) = 1
<1>1. Basis \in Nat /\ Basis > 2
  BY Constants
<1>2. CASE op = "step"
  BY <1>1, <1>2 DEF Wants
<1>3. CASE op = "lastid"
  BY <1>1, <1>3 DEF Wants
<1>4. CASE op # "step" /\ op # "lastid"
  BY <1>1, <1>4 DEF Wants
<1>5. QED
  BY <1>2, <1>3, <1>4

LEMMA InitBase == Init => Base
<1> SUFFICES ASSUME Init PROVE Base
  OBVIOUS
<1> USE DEF Init
<1>1. Types
  <2>1. Idle \in [op : Synchronous \cup {"idle"}, no : Nat, key : Nat, due : Nat]
    BY DEF Idle
  <2>2. <<>> \in Seq(Statement) /\ <<>> \in Seq(Request) /\ <<>> \in Seq(Answer)
    OBVIOUS
  <2>3. cut \in Nat /\ cut <= Cuts
    BY Constants
  <2>4. QED
    BY <2>1, <2>2, <2>3 DEF Types
<1>2. Counts
  BY Constants DEF Counts
<1>3. Ordered
  BY DEF Ordered, Sorted, In, Holds
<1>4. RequestsInv /\ AnswersInv
  BY DEF RequestsInv, AnswersInv
<1>5. CallInv
  BY Constants DEF CallInv, Synchronous
<1>6. QED
  BY <1>1, <1>2, <1>3, <1>4, <1>5 DEF Base

-----------------------------------------------------------------------------
(* Steps of the client. *)

LEMMA WriteFacts ==
  ASSUME Base, Calling, NEW op \in Operations, NEW id \in 0..MaxCalls, NEW key \in Nat,
         Write(op, id, key)
  PROVE  /\ up /\ call = Idle
         /\ sent' = sent + 1 /\ sent' \in Nat /\ sent' <= MaxCalls /\ key \in Nat
         /\ [op |-> op, id |-> id, key |-> key, no |-> sent + 1] \in Request
         /\ c2s' = Append(c2s, [op |-> op, id |-> id, key |-> key, no |-> sent + 1])
         /\ c2s' \in Seq(Request) /\ Len(c2s') = Len(c2s) + 1 /\ Len(c2s') <= MaxPipe
         /\ c2s'[Len(c2s) + 1] = [op |-> op, id |-> id, key |-> key, no |-> sent + 1]
         /\ \A i \in 1..Len(c2s) : c2s'[i] = c2s[i]
         /\ Len(c2s) \in Nat /\ sent = handled + Len(c2s)
         /\ op \in Synchronous => call' = [op |-> op, no |-> sent + 1, key |-> key, due |-> Wants(op)]
         /\ op \notin Synchronous => call' = Idle
         /\ stuck' = FALSE
<1>1. /\ up /\ call = Idle /\ Len(c2s) < MaxPipe /\ sent < MaxCalls
      /\ sent' = sent + 1
      /\ c2s' = Append(c2s, [op |-> op, id |-> id, key |-> key, no |-> sent'])
      /\ call' = IF op \in Synchronous
                   THEN [op |-> op, no |-> sent', key |-> key, due |-> Wants(op)] ELSE Idle
      /\ stuck' = FALSE
  BY DEF Calling, Write
<1>2. sent \in Nat /\ c2s \in Seq(Request) /\ MaxCalls \in Nat /\ MaxPipe \in Nat /\ Len(c2s) \in Nat
  BY Constants DEF Base, Types
<1>3. sent' \in Nat /\ sent' <= MaxCalls /\ id \in Nat
  BY <1>1, <1>2
<1> DEFINE r == [op |-> op, id |-> id, key |-> key, no |-> sent + 1]
<1>4. r \in Request
  BY <1>1, <1>3 DEF Request
<1>5. c2s' = Append(c2s, r)
  BY <1>1
<1>6. call' = IF op \in Synchronous
                THEN [op |-> op, no |-> sent + 1, key |-> key, due |-> Wants(op)] ELSE Idle
  BY <1>1
<1>7. sent = handled + Len(c2s)
  BY <1>1 DEF Base, Counts
<1> HIDE DEF r
<1>8. /\ c2s' \in Seq(Request) /\ Len(c2s') = Len(c2s) + 1 /\ c2s'[Len(c2s) + 1] = r
      /\ \A i \in 1..Len(c2s) : c2s'[i] = c2s[i]
  BY <1>2, <1>4, <1>5
<1>9. Len(c2s') <= MaxPipe
  BY <1>1, <1>2, <1>8
<1>10. QED
  BY <1>1, <1>2, <1>3, <1>4, <1>5, <1>6, <1>7, <1>8, <1>9 DEF r

LEMMA WriteKeepsBase ==
  ASSUME Base, Calling, NEW op \in Operations, NEW id \in 0..MaxCalls, NEW key \in Nat,
         Write(op, id, key), key <= sent + 1, op = "prepare" => key = sent + 1,
         UNCHANGED <<failed, freed, cut, s2c, servervars>>,
         cq' \in Seq(Statement), Sorted(cq'),
         \A k \in Nat : In(cq', k) => In(cq, k) \/ (k = sent + 1 /\ op # "prepare")
  PROVE  Base'
<1> DEFINE r == [op |-> op, id |-> id, key |-> key, no |-> sent + 1]
<1>1. /\ up /\ call = Idle
      /\ sent' = sent + 1 /\ sent' \in Nat /\ sent' <= MaxCalls /\ key \in Nat
      /\ c2s' \in Seq(Request) /\ Len(c2s') = Len(c2s) + 1 /\ Len(c2s') <= MaxPipe
      /\ c2s'[Len(c2s) + 1] = r
      /\ \A i \in 1..Len(c2s) : c2s'[i] = c2s[i]
      /\ Len(c2s) \in Nat /\ sent = handled + Len(c2s)
      /\ op \in Synchronous => call' = [op |-> op, no |-> sent + 1, key |-> key, due |-> Wants(op)]
      /\ op \notin Synchronous => call' = Idle
      /\ stuck' = FALSE
  BY WriteFacts
<1>2. r.op = op /\ r.id = id /\ r.key = key /\ r.no = sent + 1
  OBVIOUS
<1> HIDE DEF r
<1>3. UNCHANGED <<failed, freed, cut, s2c, up, failing, sq, lastid, handled>>
  BY DEF servervars
<1>4. Types /\ Counts /\ Ordered /\ RequestsInv /\ AnswersInv
  BY DEF Base
<1>5. /\ sent \in Nat /\ handled \in Nat /\ lastid \in Nat /\ MaxCalls \in Nat
      /\ lastid <= handled /\ handled <= sent
  BY <1>4, Constants DEF Types, Counts
<1>6. Types'
  <2>1. call' \in [op : Synchronous \cup {"idle"}, no : Nat, key : Nat, due : Nat]
    <3>1. CASE op \in Synchronous
      BY <1>1, <1>5, <3>1, WantsFacts
    <3>2. CASE op \notin Synchronous
      BY <1>1, <3>2, Constants
    <3>3. QED
      BY <3>1, <3>2
  <2>2. QED
    BY <1>1, <1>3, <1>4, <2>1 DEF Types
<1>7. Counts'
  <2>1. sent' <= MaxCalls /\ lastid' <= handled' /\ handled' <= sent'
    BY <1>1, <1>3, <1>5
  <2>2. sent' = handled' + Len(c2s')
    BY <1>1, <1>3, <1>5
  <2>3. Len(s2c') <= MaxPipe
    BY <1>3, <1>4 DEF Counts
  <2>4. QED
    BY <1>1, <1>3, <2>1, <2>2, <2>3 DEF Counts
<1>8. Ordered'
  <2>1. \A k \in Nat : In(cq', k) => k <= sent'
    BY <1>1, <1>4, <1>5 DEF Ordered
  <2>2. QED
    BY <1>3, <1>4, <2>1 DEF Ordered
<1>9. RequestsInv'
  <2> SUFFICES ASSUME NEW i \in 1..Len(c2s')
               PROVE  c2s'[i].no = handled' + i /\ c2s'[i].key <= sent' /\ c2s'[i].id <= MaxCalls
    BY DEF RequestsInv
  <2>1. CASE i \in 1..Len(c2s)
    <3>1. c2s[i].no = handled + i /\ c2s[i].key <= sent /\ c2s[i].id <= MaxCalls /\ c2s[i].key \in Nat
      <4>1. c2s[i] \in Request
        BY <1>4, <2>1 DEF Types
      <4>2. QED
        BY <1>4, <2>1, <4>1 DEF RequestsInv, Request
    <3>2. c2s'[i] = c2s[i] /\ handled' = handled
      BY <1>1, <1>3, <2>1
    <3>3. \A m \in Nat : m <= sent => m <= sent'
      <4>1. sent \in Nat /\ sent' = sent + 1
        BY <1>1, <1>5
      <4>2. QED
        BY <4>1
    <3>4. c2s[i].key <= sent'
      BY <3>1, <3>3
    <3>5. QED
      BY <3>1, <3>2, <3>4
  <2>2. CASE i = Len(c2s) + 1
    <3>1. c2s'[i] = r /\ handled' = handled
      BY <1>1, <1>3, <2>2
    <3>2. sent + 1 = handled + i
      BY <1>1, <1>5, <2>2
    <3>3. key <= sent' /\ id <= MaxCalls
      BY <1>1, <1>5
    <3>4. QED
      BY <1>2, <3>1, <3>2, <3>3
  <2>3. QED
    BY <1>1, <2>1, <2>2
<1>10. AnswersInv'
  <2> SUFFICES ASSUME NEW i \in 1..Len(s2c)
               PROVE  /\ 1 <= s2c[i].no /\ s2c[i].no <= sent' /\ s2c[i].id <= MaxCalls /\ s2c[i].key <= sent'
                      /\ 1 <= s2c[i].left /\ s2c[i].left <= s2c[i].size /\ s2c[i].size <= Longest
    BY <1>3 DEF AnswersInv
  <2>1. s2c[i].no \in Nat /\ s2c[i].key \in Nat
    <3>1. s2c[i] \in Answer
      BY <1>4 DEF Types
    <3>2. QED
      BY <3>1 DEF Answer
  <2>2. /\ 1 <= s2c[i].no /\ s2c[i].no <= sent /\ s2c[i].id <= MaxCalls /\ s2c[i].key <= sent
        /\ 1 <= s2c[i].left /\ s2c[i].left <= s2c[i].size /\ s2c[i].size <= Longest
    BY <1>4 DEF AnswersInv
  <2>3. \A m \in Nat : m <= sent => m <= sent'
    <3>1. sent \in Nat /\ sent' = sent + 1
      BY <1>1, <1>5
    <3>2. QED
      BY <3>1
  <2>4. QED
    BY <2>1, <2>2, <2>3
<1>11. CallInv'
  <2>1. CASE op \in Synchronous
    <3>1. call'.op = op /\ call'.no = sent' /\ call'.key = key
      BY <1>1, <2>1
    <3>2. 1 <= sent' /\ key <= sent'
      BY <1>1, <1>3, <1>5
    <3>3. op = "prepare" => key = sent' /\ \A k \in Nat : In(cq', k) => k < sent'
      BY <1>1, <1>4, <1>5 DEF Ordered
    <3>4. call'.due <= Basis /\ ~stuck'
      BY <1>1, <2>1, WantsFacts
    <3>5. QED
      BY <2>1, <3>1, <3>2, <3>3, <3>4 DEF CallInv
  <2>2. CASE op \notin Synchronous
    <3>1. call' = Idle /\ Idle.op \notin Synchronous /\ Idle.op # "prepare" /\ Idle.due <= Basis
      BY <1>1, <2>2, Constants
    <3>2. QED
      BY <3>1 DEF CallInv
  <2>3. QED
    BY <2>1, <2>2
<1>12. QED
  BY <1>6, <1>7, <1>8, <1>9, <1>10, <1>11 DEF Base

\* The statement a call names, in the client's queue.
LEMMA NamedFacts ==
  ASSUME Base, NEW id \in 0..MaxCalls, Find(cq, id) # 0
  PROVE  /\ Find(cq, id) \in 1..Len(cq)
         /\ cq[Find(cq, id)].key \in Nat /\ cq[Find(cq, id)].key <= sent
<1>1. cq \in Seq(Statement) /\ id \in Nat /\ Len(cq) \in Nat
  BY Constants DEF Base, Types
<1>2. Find(cq, id) \in 1..Len(cq)
  BY <1>1, FindFacts
<1>3. cq[Find(cq, id)].key \in 1..MaxCalls
  BY <1>1, <1>2, QueueFacts
<1>4. In(cq, cq[Find(cq, id)].key)
  BY <1>2 DEF In
<1>5. QED
  BY <1>2, <1>3, <1>4 DEF Base, Ordered

LEMMA CallsKeepBase ==
  ASSUME Base, Writes
  PROVE  Base'
<1>1. /\ cq \in Seq(Statement) /\ Sorted(cq) /\ sent \in Nat /\ 0 \in 0..MaxCalls
      /\ \A k \in Nat : In(cq, k) => k <= sent
  BY Constants DEF Base, Types, Ordered
<1>2. ASSUME Prepare PROVE Base'
  <2>1. /\ Calling /\ Write("prepare", 0, sent + 1) /\ cq' = cq
        /\ UNCHANGED <<failed, freed, cut, s2c, servervars>>
    BY <1>2 DEF Prepare
  <2>2. "prepare" \in Operations /\ sent + 1 \in Nat /\ sent + 1 <= sent + 1
    BY <1>1 DEF Operations, Synchronous
  <2>3. cq' \in Seq(Statement) /\ Sorted(cq') /\ \A k \in Nat : In(cq', k) => In(cq, k)
    BY <1>1, <2>1
  <2>4. QED
    BY <1>1, <2>1, <2>2, <2>3, WriteKeepsBase
<1>3. ASSUME PrepareAsync PROVE Base'
  <2>1. /\ Calling /\ Write("prepare_async", 0, sent + 1)
        /\ cq' = Append(cq, [id |-> 0, key |-> sent + 1])
        /\ UNCHANGED <<failed, freed, cut, s2c, servervars>>
    BY <1>3 DEF PrepareAsync
  <2>2. "prepare_async" \in Operations /\ sent + 1 \in Nat /\ sent + 1 <= sent + 1
    BY <1>1 DEF Operations, Synchronous
  <2>3. sent + 1 \in 1..MaxCalls
    <3>1. sent' = sent + 1 /\ sent' <= MaxCalls
      BY <1>1, <2>1, <2>2, WriteFacts
    <3>2. QED
      BY <1>1, <3>1, Constants
  <2>4. \A k \in Nat : In(cq, k) => k < sent + 1
    BY <1>1
  <2>5. cq' \in Seq(Statement) /\ Sorted(cq') /\ \A k \in Nat : In(cq', k) => In(cq, k) \/ k = sent + 1
    <3>1. 0 \in Nat
      OBVIOUS
    <3>2. QED
      BY <1>1, <2>1, <2>3, <2>4, <3>1, AppendFacts
  <2>6. QED
    BY <1>1, <2>1, <2>2, <2>5, WriteKeepsBase
<1>4. ASSUME NEW op \in {"lastid", "ask", "tell"}, Other(op) PROVE Base'
  <2>1. /\ Calling /\ Write(op, 0, 0) /\ cq' = cq
        /\ UNCHANGED <<failed, freed, cut, s2c, servervars>>
    BY <1>4 DEF Other
  <2>2. op \in Operations /\ op # "prepare" /\ 0 \in Nat /\ 0 <= sent + 1
    BY <1>1 DEF Operations, Synchronous
  <2>3. cq' \in Seq(Statement) /\ Sorted(cq') /\ \A k \in Nat : In(cq', k) => In(cq, k)
    BY <1>1, <2>1
  <2>4. QED
    BY <1>1, <2>1, <2>2, <2>3, WriteKeepsBase
<1>5. ASSUME NEW id \in 0..MaxCalls, Finalise(id) PROVE Base'
  <2> DEFINE p == Find(cq, id)
             key == cq[p].key
  <2>1. /\ Calling /\ p # 0 /\ Write("final", id, key) /\ cq' = RemoveAt(cq, p)
        /\ UNCHANGED <<failed, freed, cut, s2c, servervars>>
    BY <1>5 DEF Finalise
  <2>2. p \in 1..Len(cq) /\ key \in Nat /\ key <= sent
    BY <2>1, NamedFacts
  <2>3. cq' \in Seq(Statement) /\ Sorted(cq') /\ \A k \in Nat : In(cq', k) => In(cq, k)
    BY <1>1, <2>1, <2>2, RemoveFacts
  <2> HIDE DEF p, key
  <2>4. "final" \in Operations /\ key <= sent + 1
    BY <1>1, <2>2 DEF Operations, Synchronous
  <2>5. QED
    BY <2>1, <2>2, <2>3, <2>4, WriteKeepsBase
<1>6. ASSUME NEW id \in 0..MaxCalls, NEW op \in {"rebind", "step"}, Use(op, id) PROVE Base'
  <2> DEFINE p == Find(cq, id)
             key == cq[p].key
  <2>1. /\ Calling /\ p # 0 /\ Write(op, id, key) /\ cq' = cq
        /\ UNCHANGED <<failed, freed, cut, s2c, servervars>>
    BY <1>6 DEF Use
  <2>2. p \in 1..Len(cq) /\ key \in Nat /\ key <= sent
    BY <2>1, NamedFacts
  <2>3. cq' \in Seq(Statement) /\ Sorted(cq') /\ \A k \in Nat : In(cq', k) => In(cq, k)
    BY <1>1, <2>1
  <2> HIDE DEF p, key
  <2>4. op \in Operations /\ op # "prepare" /\ key <= sent + 1
    BY <1>1, <2>2 DEF Operations, Synchronous
  <2>5. QED
    BY <2>1, <2>2, <2>3, <2>4, WriteKeepsBase
<1>7. QED
  BY <1>2, <1>3, <1>4, <1>5, <1>6 DEF Writes

\* The answer that comes next has been read, or a part.
LEMMA ConsumedFacts ==
  ASSUME Base, s2c # <<>>, NEW n \in Nat, n <= Head(s2c).left, s2c' = Consumed(n), sent' = sent
  PROVE  s2c' \in Seq(Answer) /\ Len(s2c') <= Len(s2c) /\ AnswersInv'
<1>1. /\ s2c \in Seq(Answer) /\ AnswersInv /\ Len(s2c) \in Nat /\ Head(s2c) = s2c[1]
      /\ 1 \in 1..Len(s2c) /\ s2c[1] \in Answer
  BY DEF Base, Types
<1>2. CASE s2c' = Tail(s2c)
  <2>1. /\ Tail(s2c) \in Seq(Answer) /\ Len(Tail(s2c)) = Len(s2c) - 1
        /\ \A i \in 1..Len(Tail(s2c)) : i + 1 \in 1..Len(s2c) /\ Tail(s2c)[i] = s2c[i + 1]
    BY <1>1
  <2>2. QED
    BY <1>1, <1>2, <2>1 DEF AnswersInv
<1>3. CASE n # s2c[1].left /\ s2c' = [s2c EXCEPT ![1].left = @ - n]
  <2>1. /\ s2c[1].left \in Nat /\ 1 <= s2c[1].left /\ s2c[1].left <= s2c[1].size
        /\ s2c[1].size \in Nat
    BY <1>1 DEF AnswersInv, Answer
  <2>2. s2c[1].left - n \in Nat /\ 1 <= s2c[1].left - n /\ s2c[1].left - n <= s2c[1].size
    BY <1>1, <1>3, <2>1
  <2> DEFINE a == [s2c[1] EXCEPT !.left = s2c[1].left - n]
  <2>3. /\ a \in Answer /\ a.left = s2c[1].left - n /\ a.size = s2c[1].size
        /\ a.no = s2c[1].no /\ a.id = s2c[1].id /\ a.key = s2c[1].key
    BY <1>1, <2>2 DEF Answer
  <2>4. s2c' = [s2c EXCEPT ![1] = a]
    BY <1>3
  <2> HIDE DEF a
  <2>5. s2c' \in Seq(Answer) /\ Len(s2c') = Len(s2c) /\ s2c'[1] = a
        /\ \A i \in 1..Len(s2c) : i # 1 => s2c'[i] = s2c[i]
    BY <1>1, <2>3, <2>4
  <2>6. ASSUME NEW i \in 1..Len(s2c')
        PROVE  /\ 1 <= s2c'[i].no /\ s2c'[i].no <= sent /\ s2c'[i].id <= MaxCalls /\ s2c'[i].key <= sent
               /\ 1 <= s2c'[i].left /\ s2c'[i].left <= s2c'[i].size /\ s2c'[i].size <= Longest
    <3>1. CASE i = 1
      BY <1>1, <2>2, <2>3, <2>5, <3>1 DEF AnswersInv
    <3>2. CASE i # 1
      BY <1>1, <2>5, <3>2 DEF AnswersInv
    <3>3. QED
      BY <3>1, <3>2
  <2>7. QED
    BY <1>1, <2>5, <2>6 DEF AnswersInv
<1>4. QED
  BY <1>1, <1>2, <1>3 DEF Consumed

\* A call returns, right or wrong.
LEMMA ReturnsKeepsBase ==
  ASSUME Base, call # Idle, NEW id \in Nat, NEW bad \in BOOLEAN, Returns(id, bad),
         s2c' \in Seq(Answer), Len(s2c') <= Len(s2c), AnswersInv',
         UNCHANGED <<sent, freed, cut, stuck, c2s, servervars>>
  PROVE  Base'
<1>1. /\ call' = Idle
      /\ failed' = (failed \/ bad)
      /\ cq' = IF call.op = "prepare" /\ ~bad THEN Append(cq, [id |-> id, key |-> call.key]) ELSE cq
      /\ UNCHANGED <<sent, freed, cut, stuck, c2s, up, failing, sq, lastid, handled>>
  BY DEF Returns, servervars
<1>2. Types /\ Counts /\ Ordered /\ RequestsInv /\ CallInv
  BY DEF Base
<1>3. call.op \in Synchronous /\ call.key \in Nat /\ sent \in Nat /\ sent <= MaxCalls
  BY <1>2 DEF CallInv, Types, Counts
<1>4. 1 <= sent /\ (call.op = "prepare" => call.key = sent /\ \A k \in Nat : In(cq, k) => k < sent)
  BY <1>2, <1>3 DEF CallInv
<1>5. cq' \in Seq(Statement) /\ Sorted(cq') /\ \A k \in Nat : In(cq', k) => k <= sent
  <2>1. CASE cq' = cq
    BY <1>2, <2>1 DEF Types, Ordered
  <2>2. CASE call.op = "prepare" /\ cq' = Append(cq, [id |-> id, key |-> call.key])
    <3>1. call.key = sent /\ call.key \in 1..MaxCalls /\ \A k \in Nat : In(cq, k) => k < call.key
      BY <1>3, <1>4, <2>2, Constants
    <3>2. /\ cq' \in Seq(Statement) /\ Sorted(cq')
          /\ \A k : In(cq', k) <=> In(cq, k) \/ k = call.key
      BY <1>2, <2>2, <3>1, AppendFacts DEF Types, Ordered
    <3>3. QED
      BY <1>3, <3>1, <3>2
  <2>3. QED
    BY <1>1, <2>1, <2>2
<1>6. failed' \in BOOLEAN
  BY <1>1, <1>2 DEF Types
<1>7. /\ call' \in [op : Synchronous \cup {"idle"}, no : Nat, key : Nat, due : Nat]
      /\ call'.op \notin Synchronous /\ call'.op # "prepare" /\ call'.due <= Basis
  BY <1>1, Constants
<1>8. Types'
  BY <1>1, <1>2, <1>5, <1>6, <1>7 DEF Types
<1>9. Counts'
  <2>1. Len(s2c') <= MaxPipe
    <3>1. Len(s2c) \in Nat /\ Len(s2c') \in Nat /\ MaxPipe \in Nat /\ Len(s2c) <= MaxPipe
      BY <1>2, Constants DEF Types, Counts
    <3>2. QED
      BY <3>1
  <2>2. QED
    BY <1>1, <1>2, <1>6, <2>1 DEF Counts
<1>10. Ordered'
  BY <1>1, <1>2, <1>5 DEF Ordered
<1>11. RequestsInv'
  BY <1>1, <1>2 DEF RequestsInv
<1>12. CallInv'
  BY <1>1, <1>7 DEF CallInv
<1>13. QED
  BY <1>8, <1>9, <1>10, <1>11, <1>12 DEF Base

LEMMA AnsweredKeepsBase ==
  ASSUME Base, Answered
  PROVE  Base'
<1>1. /\ call # Idle /\ s2c # <<>> /\ s2c' = Tail(s2c)
      /\ UNCHANGED <<sent, freed, cut, stuck, c2s, servervars>>
  BY DEF Answered, Readable
<1>2. PICK bad \in BOOLEAN : Returns(Head(s2c).id % Wire, bad)
  BY DEF Answered
<1>3. Head(s2c) \in Answer /\ s2c \in Seq(Answer)
  BY <1>1 DEF Base, Types
<1>4. Head(s2c).id % Wire \in Nat /\ Head(s2c).left \in Nat
  BY <1>3, Constants DEF Answer
<1>5. s2c' = Consumed(Head(s2c).left) /\ sent' = sent
  BY <1>1 DEF Consumed
<1>6. s2c' \in Seq(Answer) /\ Len(s2c') <= Len(s2c) /\ AnswersInv'
  BY <1>1, <1>4, <1>5, ConsumedFacts
<1>7. QED
  BY <1>1, <1>2, <1>4, <1>6, ReturnsKeepsBase

\* A call waits on with less to come.
LEMMA WaitsOnKeepsBase ==
  ASSUME Base, call # Idle, NEW due \in Nat, due <= Basis, call' = [call EXCEPT !.due = due],
         s2c' \in Seq(Answer), Len(s2c') <= Len(s2c), AnswersInv',
         UNCHANGED <<cq, failed, sent, freed, cut, stuck, c2s, servervars>>
  PROVE  Base'
<1>1. Types /\ Counts /\ Ordered /\ RequestsInv /\ CallInv
  BY DEF Base
<1>2. UNCHANGED <<cq, failed, sent, freed, cut, stuck, c2s, up, failing, sq, lastid, handled>>
  BY DEF servervars
<1>3. /\ call' \in [op : Synchronous \cup {"idle"}, no : Nat, key : Nat, due : Nat]
      /\ call'.op = call.op /\ call'.no = call.no /\ call'.key = call.key /\ call'.due = due
  BY <1>1 DEF Types
<1>4. Types'
  BY <1>1, <1>2, <1>3 DEF Types
<1>5. Counts'
  <2>1. Len(s2c') <= MaxPipe
    <3>1. Len(s2c') \in Nat
      OBVIOUS
    <3>2. Len(s2c) \in Nat /\ MaxPipe \in Nat /\ Len(s2c) <= MaxPipe
      BY <1>1, Constants DEF Types, Counts
    <3>3. QED
      BY <3>1, <3>2
  <2>2. QED
    BY <1>1, <1>2, <2>1 DEF Counts
<1>6. Ordered' /\ RequestsInv'
  BY <1>1, <1>2 DEF Ordered, RequestsInv
<1>7. CallInv'
  BY <1>1, <1>2, <1>3 DEF CallInv
<1>8. QED
  BY <1>4, <1>5, <1>6, <1>7 DEF Base

LEMMA MisreadKeepsBase ==
  ASSUME Base, Misread
  PROVE  Base'
<1>1. /\ call # Idle /\ s2c # <<>>
      /\ UNCHANGED <<sent, freed, cut, stuck, c2s, servervars>> /\ sent' = sent
  BY DEF Misread, Readable
<1>2. Head(s2c) \in Answer /\ s2c \in Seq(Answer)
  BY <1>1 DEF Base, Types
<1>3. Head(s2c).left \in Nat /\ call.due \in Nat /\ call.due <= Basis /\ Basis \in Nat /\ Basis > 2
  BY <1>2, Constants DEF Answer, Base, Types, CallInv
<1>4. CASE /\ call.due > Head(s2c).left
           /\ s2c' = Tail(s2c)
           /\ call' = [call EXCEPT !.due = @ - Head(s2c).left]
           /\ UNCHANGED <<cq, failed>>
  <2>1. s2c' = Consumed(Head(s2c).left)
    BY <1>4 DEF Consumed
  <2>2. s2c' \in Seq(Answer) /\ Len(s2c') <= Len(s2c) /\ AnswersInv'
    BY <1>1, <1>3, <2>1, ConsumedFacts
  <2>3. PICK due \in Nat : due = call.due - Head(s2c).left /\ due <= Basis
    BY <1>3, <1>4
  <2>4. QED
    BY <1>1, <1>4, <2>2, <2>3, WaitsOnKeepsBase
<1>5. CASE call.due <= Head(s2c).left /\ s2c' = Consumed(call.due)
  <2>1. s2c' \in Seq(Answer) /\ Len(s2c') <= Len(s2c) /\ AnswersInv'
    BY <1>1, <1>3, <1>5, ConsumedFacts
  <2>2. CASE call' = [call EXCEPT !.due = 1] /\ UNCHANGED <<cq, failed>>
    <3>1. 1 \in Nat /\ 1 <= Basis
      BY <1>3
    <3>2. QED
      BY <1>1, <2>1, <2>2, <3>1, WaitsOnKeepsBase
  <2>3. CASE \E id \in 0..MaxCalls, bad \in BOOLEAN : Returns(id, bad)
    BY <1>1, <2>1, <2>3, ReturnsKeepsBase, Constants
  <2>4. QED
    BY <1>3, <1>5, <2>2, <2>3 DEF Misread
<1>6. QED
  BY <1>4, <1>5 DEF Misread

\* The other ends of a call, and calls that write nothing or not yet.
LEMMA QuietKeepsBase ==
  ASSUME Base,
         \/ Hangup \/ Interrupted \/ Free \/ NotWritten \/ WriteBlocks
         \/ \E id \in 0..MaxCalls : NotHeld(id)
  PROVE  Base'
<1>1. Types /\ Counts /\ Ordered /\ RequestsInv /\ AnswersInv /\ CallInv
  BY DEF Base
<1>2. ASSUME call' = Idle, UNCHANGED <<cq, sent, c2s, up, failing, sq, lastid, handled>>,
             failed' \in BOOLEAN, freed' \in BOOLEAN, cut' \in Nat, cut' <= Cuts, stuck' \in BOOLEAN,
             s2c' \in Seq(Answer), Len(s2c') <= Len(s2c), AnswersInv'
      PROVE  Base'
  <2>1. /\ call' \in [op : Synchronous \cup {"idle"}, no : Nat, key : Nat, due : Nat]
        /\ call'.op \notin Synchronous /\ call'.op # "prepare" /\ call'.due <= Basis
    BY <1>2, Constants
  <2>2. Types'
    BY <1>1, <1>2, <2>1 DEF Types
  <2>3. Len(s2c') <= MaxPipe
    <3>1. Len(s2c) \in Nat /\ Len(s2c') \in Nat /\ MaxPipe \in Nat /\ Len(s2c) <= MaxPipe
      BY <1>1, <1>2, Constants DEF Types, Counts
    <3>2. QED
      BY <1>2, <3>1
  <2>4. Counts' /\ Ordered' /\ RequestsInv'
    BY <1>1, <1>2, <2>3 DEF Counts, Ordered, RequestsInv
  <2>5. CallInv'
    BY <1>2, <2>1 DEF CallInv
  <2>6. QED
    BY <1>2, <2>2, <2>4, <2>5 DEF Base
<1>3. /\ failed \in BOOLEAN /\ freed \in BOOLEAN /\ stuck \in BOOLEAN
      /\ cut \in Nat /\ cut <= Cuts /\ Cuts \in Nat
      /\ s2c \in Seq(Answer) /\ Len(s2c) <= Len(s2c)
  BY <1>1, Constants DEF Types
<1>4. ASSUME s2c' = s2c, sent' = sent
      PROVE  s2c' \in Seq(Answer) /\ Len(s2c') <= Len(s2c) /\ AnswersInv'
  BY <1>1, <1>3, <1>4 DEF AnswersInv
<1>5. ASSUME Hangup PROVE Base'
  <2>1. /\ call' = Idle /\ UNCHANGED <<cq, sent, c2s, s2c, up, failing, sq, lastid, handled>>
        /\ failed' = TRUE /\ freed' = freed /\ cut' = cut /\ stuck' = stuck
    BY <1>5 DEF Hangup, servervars
  <2>2. QED
    BY <1>2, <1>3, <1>4, <2>1
<1>6. ASSUME Interrupted PROVE Base'
  <2>1. /\ call' = Idle /\ UNCHANGED <<cq, sent, c2s, up, failing, sq, lastid, handled>>
        /\ failed' = TRUE /\ freed' = freed /\ cut' = cut + 1 /\ cut < Cuts /\ stuck' = stuck
    BY <1>6 DEF Interrupted, servervars
  <2>2. CASE s2c' = s2c
    BY <1>2, <1>3, <1>4, <2>1, <2>2
  <2>3. CASE s2c # <<>> /\ \E n \in 1..Head(s2c).left : s2c' = Consumed(n)
    <3>1. PICK n \in 1..Head(s2c).left : s2c' = Consumed(n)
      BY <2>3
    <3>2. Head(s2c).left \in Nat
      <4>1. Head(s2c) \in Answer
        BY <1>3, <2>3
      <4>2. QED
        BY <4>1 DEF Answer
    <3>3. n \in Nat /\ n <= Head(s2c).left
      BY <3>2
    <3>4. s2c' \in Seq(Answer) /\ Len(s2c') <= Len(s2c) /\ AnswersInv'
      BY <2>1, <2>3, <3>1, <3>3, ConsumedFacts
    <3>5. QED
      BY <1>2, <1>3, <2>1, <3>4
  <2>4. QED
    BY <1>6, <2>2, <2>3 DEF Interrupted, Readable
<1>7. ASSUME Free PROVE Base'
  <2>1. /\ call' = Idle /\ UNCHANGED <<cq, sent, c2s, s2c, up, failing, sq, lastid, handled>>
        /\ failed' = failed /\ freed' = TRUE /\ cut' = cut /\ stuck' = stuck
    BY <1>7 DEF Free, Calling, servervars
  <2>2. QED
    BY <1>2, <1>3, <1>4, <2>1
<1>8. ASSUME NEW id \in 0..MaxCalls, NotHeld(id) PROVE Base'
  <2>1. /\ call' = Idle /\ UNCHANGED <<cq, sent, c2s, s2c, up, failing, sq, lastid, handled>>
        /\ failed' = TRUE /\ freed' = freed /\ cut' = cut /\ stuck' = stuck
    BY <1>8 DEF NotHeld, Calling, servervars
  <2>2. QED
    BY <1>2, <1>3, <1>4, <2>1
<1>9. ASSUME WriteBlocks PROVE Base'
  <2>1. /\ call' = Idle /\ UNCHANGED <<cq, sent, c2s, s2c, up, failing, sq, lastid, handled>>
        /\ failed' = failed /\ freed' = freed /\ cut' = cut /\ stuck' = TRUE
    BY <1>9 DEF WriteBlocks, Calling, servervars
  <2>2. QED
    BY <1>2, <1>3, <1>4, <2>1
<1>10. ASSUME NotWritten PROVE Base'
  <2>1. /\ call = Idle /\ failed' = TRUE /\ stuck' = FALSE
        /\ UNCHANGED <<call, sent, freed, cut, c2s, s2c, up, failing, sq, lastid, handled>>
    BY <1>10 DEF NotWritten, Calling, servervars
  <2>2. cq' \in Seq(Statement) /\ Sorted(cq') /\ \A k \in Nat : In(cq', k) => k <= sent
    <3>1. cq \in Seq(Statement) /\ Sorted(cq) /\ \A k \in Nat : In(cq, k) => k <= sent
      BY <1>1 DEF Types, Ordered
    <3>2. CASE cq' = cq
      BY <3>1, <3>2
    <3>3. CASE \E id \in {k \in 0..MaxCalls : Find(cq, k) # 0} : cq' = RemoveAt(cq, Find(cq, id))
      <4>1. PICK id \in 0..MaxCalls : Find(cq, id) # 0 /\ cq' = RemoveAt(cq, Find(cq, id))
        BY <3>3
      <4>2. Find(cq, id) \in 1..Len(cq)
        BY <4>1, NamedFacts
      <4>3. cq' \in Seq(Statement) /\ Sorted(cq') /\ \A k \in Nat : In(cq', k) => In(cq, k)
        BY <3>1, <4>1, <4>2, RemoveFacts
      <4>4. QED
        BY <3>1, <4>3
    <3>4. QED
      BY <1>10, <3>2, <3>3 DEF NotWritten
  <2>3. Types'
    BY <1>1, <2>1, <2>2 DEF Types
  <2>4. Counts' /\ Ordered' /\ RequestsInv' /\ AnswersInv'
    BY <1>1, <2>1, <2>2 DEF Counts, Ordered, RequestsInv, AnswersInv
  <2>5. CallInv'
    <3>1. call' = Idle /\ call'.op \notin Synchronous /\ call'.op # "prepare" /\ call'.due <= Basis
      BY <2>1, Constants
    <3>2. QED
      BY <3>1 DEF CallInv
  <2>6. QED
    BY <2>3, <2>4, <2>5 DEF Base
<1>11. QED
  BY <1>5, <1>6, <1>7, <1>8, <1>9, <1>10

-----------------------------------------------------------------------------
(* Steps of the server. *)

\* What a handler finds and leaves; the queue and the answer are its own.
LEMMA HandleFacts ==
  ASSUME Base, NEW ops, Handle(ops)
  PROVE  /\ up /\ c2s # <<>> /\ Len(c2s) \in Nat /\ Len(c2s) >= 1 /\ 1 \in 1..Len(c2s)
         /\ Head(c2s) = c2s[1] /\ c2s[1] \in Request /\ c2s[1].op \in ops
         /\ c2s[1].no = handled + 1 /\ c2s[1].no <= sent
         /\ c2s[1].key \in Nat /\ c2s[1].key <= sent
         /\ c2s[1].id \in Nat /\ c2s[1].id <= MaxCalls
         /\ handled' = handled + 1 /\ handled' \in Nat /\ handled' <= sent
         /\ c2s' \in Seq(Request) /\ Len(c2s') = Len(c2s) - 1
         /\ \A i \in 1..Len(c2s') : i + 1 \in 1..Len(c2s) /\ c2s'[i] = c2s[i + 1]
<1>1. up /\ c2s # <<>> /\ Head(c2s).op \in ops /\ c2s' = Tail(c2s) /\ handled' = handled + 1
  BY DEF Handle
<1>2. c2s \in Seq(Request) /\ handled \in Nat /\ sent \in Nat /\ sent = handled + Len(c2s)
  BY <1>1 DEF Base, Types, Counts
<1>3. Len(c2s) \in Nat /\ Len(c2s) >= 1 /\ 1 \in 1..Len(c2s) /\ Head(c2s) = c2s[1]
  BY <1>1, <1>2
<1>4. c2s[1] \in Request
  BY <1>2, <1>3
<1>5. c2s[1].key \in Nat /\ c2s[1].id \in Nat
  BY <1>4 DEF Request
<1>6. c2s[1].no = handled + 1 /\ c2s[1].key <= sent /\ c2s[1].id <= MaxCalls
  BY <1>3 DEF Base, RequestsInv
<1>7. handled' \in Nat /\ handled' <= sent
  BY <1>1, <1>2, <1>3
<1>8. /\ Tail(c2s) \in Seq(Request) /\ Len(Tail(c2s)) = Len(c2s) - 1
      /\ \A i \in 1..Len(c2s) - 1 : i + 1 \in 1..Len(c2s) /\ Tail(c2s)[i] = c2s[i + 1]
  BY <1>1, <1>2
<1>9. QED
  BY <1>1, <1>2, <1>3, <1>4, <1>5, <1>6, <1>7, <1>8

\* What handlers have in common.
LEMMA HandleKeepsBase ==
  ASSUME Base, NEW ops, Handle(ops), UNCHANGED <<clientvars, up, failing>>,
         lastid' \in {lastid, lastid + 1},
         sq' \in Seq(Statement), Sorted(sq'),
         \A k \in Nat : In(sq', k) => k <= handled + 1,
         \A id \in Nat, k \in Nat : Holds(sq', id, k) => 1 <= id /\ id <= lastid',
         \A id \in Nat, j \in Nat, k \in Nat : Holds(sq', id, j) /\ Holds(sq', id, k) => j = k,
         \/ s2c' = s2c
         \/ \E id \in Nat, key \in Nat, size \in 1..Longest :
              id <= MaxCalls /\ key <= sent /\ Reply(id, key, size)
  PROVE  Base'
<1>1. /\ up /\ c2s # <<>> /\ Len(c2s) \in Nat /\ Len(c2s) >= 1
      /\ Head(c2s) = c2s[1] /\ c2s[1].no = handled + 1 /\ c2s[1].no <= sent
      /\ handled' = handled + 1 /\ handled' \in Nat /\ handled' <= sent
      /\ c2s' \in Seq(Request) /\ Len(c2s') = Len(c2s) - 1
      /\ \A i \in 1..Len(c2s') : i + 1 \in 1..Len(c2s) /\ c2s'[i] = c2s[i + 1]
  BY HandleFacts
<1>2. UNCHANGED <<cq, call, sent, failed, freed, cut, stuck, up, failing>>
  BY DEF clientvars
<1>3. Types /\ Counts /\ Ordered /\ RequestsInv /\ AnswersInv /\ CallInv
  BY DEF Base
<1>4. /\ sent \in Nat /\ handled \in Nat /\ lastid \in Nat /\ MaxCalls \in Nat
      /\ sent <= MaxCalls /\ lastid <= handled /\ sent = handled + Len(c2s) /\ Len(c2s) <= MaxPipe
  BY <1>1, <1>3, Constants DEF Types, Counts
<1>5. lastid' \in Nat /\ lastid' <= handled' /\ lastid' <= MaxCalls
  BY <1>1, <1>4
<1>6. /\ s2c' \in Seq(Answer) /\ Len(s2c') <= MaxPipe
      /\ \A i \in 1..Len(s2c') :
           /\ 1 <= s2c'[i].no /\ s2c'[i].no <= sent /\ s2c'[i].id <= MaxCalls /\ s2c'[i].key <= sent
           /\ 1 <= s2c'[i].left /\ s2c'[i].left <= s2c'[i].size /\ s2c'[i].size <= Longest
  <2>1. CASE s2c' = s2c
    BY <1>3, <2>1 DEF Types, Counts, AnswersInv
  <2>2. CASE \E id \in Nat, key \in Nat, size \in 1..Longest :
               id <= MaxCalls /\ key <= sent /\ Reply(id, key, size)
    <3>1. PICK id \in Nat, key \in Nat, size \in 1..Longest :
            id <= MaxCalls /\ key <= sent /\ Reply(id, key, size)
      BY <2>2
    <3> DEFINE a == [no |-> handled + 1, id |-> id, key |-> key, size |-> size, left |-> size]
    <3>2. /\ a \in Answer /\ a.no = handled + 1 /\ a.id = id /\ a.key = key
          /\ a.size = size /\ a.left = size
      BY <1>4, Constants DEF Answer
    <3>3. s2c' = Append(s2c, a) /\ Len(s2c) < MaxPipe
      BY <1>1, <3>1 DEF Reply
    <3> HIDE DEF a
    <3>4. /\ s2c' \in Seq(Answer) /\ Len(s2c') = Len(s2c) + 1 /\ s2c'[Len(s2c) + 1] = a
          /\ Len(s2c) \in Nat /\ \A i \in 1..Len(s2c) : s2c'[i] = s2c[i]
      BY <1>3, <3>2, <3>3 DEF Types
    <3>5. /\ 1 <= a.no /\ a.no <= sent /\ a.id <= MaxCalls /\ a.key <= sent
          /\ 1 <= a.left /\ a.left <= a.size /\ a.size <= Longest
      BY <1>1, <1>4, <1>5, <3>1, <3>2, Constants
    <3>6. \A i \in 1..Len(s2c') : i \in 1..Len(s2c) \/ i = Len(s2c) + 1
      BY <3>4
    <3>7. Len(s2c') <= MaxPipe
      BY <3>3, <3>4, Constants
    <3>8. QED
      BY <1>3, <3>4, <3>5, <3>6, <3>7 DEF AnswersInv
  <2>3. QED
    BY <2>1, <2>2
<1>7. Types'
  BY <1>1, <1>2, <1>3, <1>5, <1>6 DEF Types
<1>8. Counts'
  <2>1. sent = handled' + Len(c2s') /\ Len(c2s') <= MaxPipe
    <3>1. MaxPipe \in Nat
      BY Constants
    <3>2. QED
      BY <1>1, <1>4, <3>1
  <2>2. QED
    BY <1>1, <1>2, <1>3, <1>5, <1>6, <2>1 DEF Counts
<1>9. Ordered'
  BY <1>1, <1>2, <1>3 DEF Ordered
<1>10. RequestsInv'
  <2> SUFFICES ASSUME NEW i \in 1..Len(c2s')
               PROVE  c2s'[i].no = handled' + i /\ c2s'[i].key <= sent /\ c2s'[i].id <= MaxCalls
    BY <1>2 DEF RequestsInv
  <2>1. i + 1 \in 1..Len(c2s) /\ c2s'[i] = c2s[i + 1]
    BY <1>1
  <2>2. c2s[i + 1].no = handled + (i + 1) /\ c2s[i + 1].key <= sent /\ c2s[i + 1].id <= MaxCalls
    BY <1>3, <2>1 DEF RequestsInv
  <2>3. handled + (i + 1) = handled' + i
    BY <1>1, <1>4, <2>1
  <2>4. QED
    BY <2>1, <2>2, <2>3
<1>11. AnswersInv'
  BY <1>2, <1>6 DEF AnswersInv
<1>12. CallInv'
  BY <1>2, <1>3 DEF CallInv
<1>13. QED
  BY <1>7, <1>8, <1>9, <1>10, <1>11, <1>12 DEF Base

\* The statement a request names, in the server's queue.
LEMMA FoundFacts ==
  ASSUME Base, c2s # <<>>, Find(sq, Head(c2s).id) # 0
  PROVE  LET p == Find(sq, Head(c2s).id) IN
         /\ p \in 1..Len(sq) /\ sq[p].key \in Nat /\ sq[p].key <= handled
         /\ In(sq, sq[p].key)
<1> DEFINE p == Find(sq, Head(c2s).id)
<1>1. sq \in Seq(Statement) /\ Len(sq) \in Nat /\ Head(c2s).id \in Nat
  <2>1. sq \in Seq(Statement) /\ c2s \in Seq(Request)
    BY DEF Base, Types
  <2>2. Head(c2s) \in Request
    BY <2>1
  <2>3. QED
    BY <2>1, <2>2 DEF Request
<1>2. p \in 1..Len(sq)
  BY <1>1, FindFacts
<1>3. sq[p].key \in 1..MaxCalls
  BY <1>1, <1>2, QueueFacts
<1>4. In(sq, sq[p].key)
  BY <1>2 DEF In
<1>5. QED
  BY <1>2, <1>3, <1>4 DEF Base, Ordered

LEMMA HandlersKeepBase ==
  ASSUME Base, OpPrepare \/ OpFinalise \/ OpUse \/ OpLastid \/ OpOther
  PROVE  Base'
<1>1. /\ sq \in Seq(Statement) /\ Sorted(sq) /\ sent \in Nat /\ handled \in Nat /\ lastid \in Nat
      /\ \A k \in Nat : In(sq, k) => k <= handled
      /\ \A id \in Nat, k \in Nat : Holds(sq, id, k) => 1 <= id /\ id <= lastid
      /\ \A id \in Nat, j \in Nat, k \in Nat : Holds(sq, id, j) /\ Holds(sq, id, k) => j = k
      /\ handled <= sent /\ sent <= MaxCalls /\ MaxCalls \in Nat /\ lastid <= handled
      /\ 1 \in 1..Longest /\ 2 \in 1..Longest /\ Basis..Longest \subseteq 1..Longest
  BY Constants DEF Base, Types, Ordered, Counts
<1>2. ASSUME OpPrepare PROVE Base'
  <2> DEFINE ops == {"prepare", "prepare_async"}
  <2>1. Handle(ops) /\ UNCHANGED <<clientvars, up, failing>> /\ lastid' = lastid + 1
    BY <1>2 DEF OpPrepare
  <2> HIDE DEF ops
  <2>2. Head(c2s).no = handled + 1 /\ handled + 1 <= sent
    BY <2>1, HandleFacts
  <2>3. handled + 1 \in 1..MaxCalls /\ lastid + 1 \in Nat
    BY <1>1, <2>2
  <2>4. sq' = Append(sq, [id |-> lastid + 1, key |-> handled + 1])
    BY <1>2, <2>1, <2>2 DEF OpPrepare
  <2>5. \A k \in Nat : In(sq, k) => k < handled + 1
    BY <1>1
  <2>6. /\ sq' \in Seq(Statement) /\ Sorted(sq')
        /\ \A k : In(sq', k) <=> In(sq, k) \/ k = handled + 1
        /\ \A i, k : Holds(sq', i, k) <=> Holds(sq, i, k) \/ (i = lastid + 1 /\ k = handled + 1)
    BY <1>1, <2>3, <2>4, <2>5, AppendFacts
  <2>7. \A k \in Nat : In(sq', k) => k <= handled + 1
    BY <1>1, <2>6
  <2>8. \A id \in Nat, k \in Nat : Holds(sq', id, k) => 1 <= id /\ id <= lastid'
    BY <1>1, <2>1, <2>6
  <2>9. \A id \in Nat, j \in Nat, k \in Nat : Holds(sq', id, j) /\ Holds(sq', id, k) => j = k
    <3> SUFFICES ASSUME NEW id \in Nat, NEW j \in Nat, NEW k \in Nat,
                        Holds(sq', id, j), Holds(sq', id, k)
                 PROVE  j = k
      OBVIOUS
    <3>1. CASE id = lastid + 1
      <4>1. ~Holds(sq, id, j) /\ ~Holds(sq, id, k)
        BY <1>1, <3>1
      <4>2. QED
        BY <2>6, <4>1
    <3>2. CASE id # lastid + 1
      BY <1>1, <2>6, <3>2
    <3>3. QED
      BY <3>1, <3>2
  <2>10. s2c' = s2c \/ \E id \in Nat, key \in Nat, size \in 1..Longest :
                      id <= MaxCalls /\ key <= sent /\ Reply(id, key, size)
    <3>1. s2c' = s2c \/ Reply(lastid', Head(c2s).no, 1)
      BY <1>2 DEF OpPrepare
    <3>2. lastid' \in Nat /\ Head(c2s).no \in Nat /\ lastid' <= MaxCalls /\ Head(c2s).no <= sent
      BY <1>1, <2>1, <2>2
    <3>3. QED
      BY <1>1, <3>1, <3>2
  <2>11. QED
    BY <2>1, <2>6, <2>7, <2>8, <2>9, <2>10, HandleKeepsBase
<1>3. ASSUME OpFinalise PROVE Base'
  <2> DEFINE p == Find(sq, Head(c2s).id)
  <2>1. /\ Handle({"final"}) /\ p # 0 /\ sq' = RemoveAt(sq, p)
        /\ UNCHANGED <<clientvars, up, failing>> /\ lastid' = lastid /\ s2c' = s2c
    BY <1>3 DEF OpFinalise
  <2>2. p \in 1..Len(sq)
    BY <2>1, FoundFacts DEF Handle
  <2> HIDE DEF p
  <2>3. /\ sq' \in Seq(Statement) /\ Sorted(sq')
        /\ \A k : In(sq', k) => In(sq, k)
        /\ \A i, k : Holds(sq', i, k) => Holds(sq, i, k)
    BY <1>1, <2>1, <2>2, RemoveFacts
  <2>4. \A k \in Nat : In(sq', k) => k <= handled + 1
    BY <1>1, <2>3
  <2>5. QED
    BY <1>1, <2>1, <2>3, <2>4, HandleKeepsBase
<1>4. ASSUME OpUse PROVE Base'
  <2> DEFINE p == Find(sq, Head(c2s).id)
  <2>1. /\ Handle({"rebind", "step"}) /\ p # 0 /\ sq' = sq
        /\ UNCHANGED <<clientvars, up, failing>> /\ lastid' = lastid
        /\ s2c' = s2c \/ \E size \in Basis..Longest : Reply(0, sq[p].key, size)
    BY <1>4 DEF OpUse
  <2>2. sq[p].key \in Nat /\ sq[p].key <= handled
    BY <2>1, FoundFacts DEF Handle
  <2> HIDE DEF p
  <2>3. \A k \in Nat : In(sq', k) => k <= handled + 1
    BY <1>1, <2>1
  <2>4. s2c' = s2c \/ \E id \in Nat, key \in Nat, size \in 1..Longest :
                      id <= MaxCalls /\ key <= sent /\ Reply(id, key, size)
    <3>1. 0 \in Nat /\ 0 <= MaxCalls /\ sq[p].key <= sent
      BY <1>1, <2>1, <2>2
    <3>2. QED
      BY <1>1, <2>1, <2>2, <3>1
  <2>5. QED
    BY <1>1, <2>1, <2>3, <2>4, HandleKeepsBase
<1>5. ASSUME OpLastid PROVE Base'
  <2>1. /\ Handle({"lastid"}) /\ sq' = sq /\ Reply(0, 0, 2)
        /\ UNCHANGED <<clientvars, up, failing>> /\ lastid' = lastid
    BY <1>5 DEF OpLastid
  <2>2. \A k \in Nat : In(sq', k) => k <= handled + 1
    BY <1>1, <2>1
  <2>3. \E id \in Nat, key \in Nat, size \in 1..Longest :
          id <= MaxCalls /\ key <= sent /\ Reply(id, key, size)
    <3>1. 0 \in Nat /\ 0 <= MaxCalls /\ 0 <= sent
      BY <1>1
    <3>2. QED
      BY <1>1, <2>1, <3>1
  <2>4. QED
    BY <1>1, <2>1, <2>2, <2>3, HandleKeepsBase
<1>6. ASSUME OpOther PROVE Base'
  <2>1. /\ Handle({"ask", "tell"}) /\ sq' = sq
        /\ UNCHANGED <<clientvars, up, failing>> /\ lastid' \in {lastid, lastid + 1}
    BY <1>6 DEF OpOther
  <2>2. \A k \in Nat : In(sq', k) => k <= handled + 1
    BY <1>1, <2>1
  <2>3. s2c' = s2c \/ \E id \in Nat, key \in Nat, size \in 1..Longest :
                      id <= MaxCalls /\ key <= sent /\ Reply(id, key, size)
    <3>1. ASSUME NEW id \in {lastid'} \cup {k \in {0, 1} : lastid' = lastid}
          PROVE  id \in Nat /\ id <= MaxCalls
      <4>1. handled + 1 <= sent
        BY <1>1, <2>1, HandleFacts
      <4>2. lastid + 1 <= MaxCalls /\ 1 <= MaxCalls /\ lastid <= MaxCalls
        BY <1>1, <4>1
      <4>3. lastid' \in Nat /\ lastid' <= MaxCalls
        BY <1>1, <2>1, <4>2
      <4>4. id = lastid' \/ id = 0 \/ id = 1
        OBVIOUS
      <4>5. QED
        BY <1>1, <4>2, <4>3, <4>4
    <3>2. s2c' = s2c \/ \E id \in {lastid'} \cup {k \in {0, 1} : lastid' = lastid} : Reply(id, 0, 1)
      BY <1>6 DEF OpOther
    <3>3. 0 \in Nat /\ 0 <= sent
      BY <1>1
    <3>4. QED
      BY <1>1, <3>1, <3>2, <3>3
  <2>4. \A id \in Nat, k \in Nat : Holds(sq', id, k) => 1 <= id /\ id <= lastid'
    BY <1>1, <2>1
  <2>5. QED
    BY <1>1, <2>1, <2>2, <2>3, <2>4, HandleKeepsBase
<1>7. QED
  BY <1>2, <1>3, <1>4, <1>5, <1>6

LEMMA StopKeepsBase ==
  ASSUME Base, EndOfFile \/ Die \/ OpNotFound \/ OpNotWritten
  PROVE  Base'
<1>1. Types /\ Counts /\ Ordered /\ RequestsInv /\ AnswersInv /\ CallInv
  BY DEF Base
<1>2. /\ up /\ up' = FALSE /\ c2s' = <<>>
      /\ UNCHANGED <<cq, call, sent, failed, freed, cut, stuck, s2c, sq, lastid, handled>>
      /\ failing' \in BOOLEAN /\ (failing' \/ (c2s = <<>> /\ failing' = failing))
  BY <1>1 DEF EndOfFile, Die, OpNotFound, OpNotWritten, Stop, clientvars, Types
<1>3. Types'
  <2>1. <<>> \in Seq(Request)
    OBVIOUS
  <2>2. QED
    BY <1>1, <1>2, <2>1 DEF Types
<1>4. Counts'
  <2>1. MaxPipe \in Nat /\ Len(c2s') = 0 /\ 0 <= MaxPipe
    BY <1>2, Constants
  <2>2. handled \in Nat /\ (failing' \/ handled = sent)
    <3>1. handled \in Nat /\ sent = handled + Len(c2s)
      BY <1>1, <1>2 DEF Types, Counts
    <3>2. c2s = <<>> => handled = sent
      BY <3>1
    <3>3. QED
      BY <1>2, <3>1, <3>2
  <2>3. QED
    BY <1>1, <1>2, <2>1, <2>2 DEF Counts
<1>5. Ordered' /\ AnswersInv' /\ CallInv'
  BY <1>1, <1>2 DEF Ordered, AnswersInv, CallInv
<1>6. RequestsInv'
  BY <1>2 DEF RequestsInv
<1>7. QED
  BY <1>3, <1>4, <1>5, <1>6 DEF Base

LEMMA StepKeepsBase == Base /\ [Next]_vars => Base'
<1> SUFFICES ASSUME Base, [Next]_vars PROVE Base'
  OBVIOUS
<1>1. CASE Client
  BY <1>1, CallsKeepBase, AnsweredKeepsBase, MisreadKeepsBase, QuietKeepsBase DEF Client, Reads
<1>2. CASE Server \/ Die
  BY <1>2, HandlersKeepBase, StopKeepsBase DEF Server
<1>3. CASE UNCHANGED vars
  BY <1>3 DEF vars, clientvars, servervars, Base, Types, Counts, Ordered, RequestsInv, AnswersInv, CallInv
<1>4. CASE Over
  BY <1>3, <1>4 DEF Over
<1>5. QED
  BY <1>1, <1>2, <1>3, <1>4 DEF Next

LEMMA AlwaysBase == Spec => []Base
BY InitBase, StepKeepsBase, PTL DEF Spec

-----------------------------------------------------------------------------
(* What follows from it alone. *)

\* The pipe holds what the socket takes, and numbers stay below those given.
THEOREM TypeCorrect == Spec => []TypeOK
<1>1. Base => TypeOK
  <2> SUFFICES ASSUME Base PROVE TypeOK
    OBVIOUS
  <2>1. Types /\ Counts /\ Ordered /\ RequestsInv /\ AnswersInv /\ CallInv
    BY DEF Base
  <2>2. /\ sent \in Nat /\ handled \in Nat /\ lastid \in Nat /\ MaxCalls \in Nat
        /\ sent <= MaxCalls /\ lastid <= handled /\ handled <= sent
    BY <2>1, Constants DEF Types, Counts
  <2>3. /\ sent \in 0..MaxCalls /\ handled \in 0..sent /\ lastid \in 0..handled
    BY <2>2
  <2>4. call \in [op : Synchronous \cup {"idle"}, no : 0..sent, key : 0..sent, due : 0..Basis]
    <3>1. call \in [op : Synchronous \cup {"idle"}, no : Nat, key : Nat, due : Nat]
      BY <2>1 DEF Types
    <3>2. CASE call = Idle
      <4>1. 0 \in 0..sent /\ 0 \in 0..Basis
        BY <2>2, Constants
      <4>2. QED
        BY <3>2, <4>1 DEF Idle
    <3>3. CASE call.op \in Synchronous
      <4>1. call.no = sent /\ call.key <= sent
        BY <2>1, <3>3 DEF CallInv
      <4>2. call.no \in 0..sent /\ call.key \in 0..sent
        <5>1. call.no \in Nat /\ call.key \in Nat
          BY <3>1
        <5>2. QED
          BY <2>2, <4>1, <5>1
      <4>3. call.due \in 0..Basis
        BY <2>1, <3>1, Constants DEF CallInv
      <4>4. QED
        BY <3>1, <4>2, <4>3
    <3>4. QED
      BY <2>1, <3>2, <3>3 DEF CallInv
  <2>5. c2s \in Seq([op : Operations, id : 0..MaxCalls, key : 0..sent, no : 1..sent])
    <3> DEFINE R == [op : Operations, id : 0..MaxCalls, key : 0..sent, no : 1..sent]
    <3>1. c2s \in Seq(Request) /\ Len(c2s) \in Nat
      BY <2>1 DEF Types
    <3>2. ASSUME NEW i \in 1..Len(c2s) PROVE c2s[i] \in R
      <4>1. c2s[i] \in Request
        BY <3>1
      <4>2. c2s[i].no = handled + i /\ c2s[i].key <= sent /\ c2s[i].id <= MaxCalls
        BY <2>1 DEF RequestsInv
      <4>3. handled + i <= sent
        <5>1. Len(c2s) >= 1
          BY <3>1
        <5>2. sent = handled + Len(c2s)
          BY <2>1, <3>1, <5>1 DEF Counts, Types
        <5>3. QED
          BY <2>2, <3>1, <5>2
      <4>4. c2s[i].no \in 1..sent /\ c2s[i].key \in 0..sent /\ c2s[i].id \in 0..MaxCalls
        <5>1. c2s[i].key \in Nat /\ c2s[i].id \in Nat
          BY <4>1 DEF Request
        <5>2. handled + i \in 1..sent
          BY <2>2, <3>1, <4>3
        <5>3. c2s[i].key \in 0..sent
          BY <2>2, <4>2, <5>1
        <5>4. c2s[i].id \in 0..MaxCalls
          BY <2>2, <4>2, <5>1
        <5>5. QED
          BY <4>2, <5>2, <5>3, <5>4
      <4>5. QED
        BY <4>1, <4>4 DEF Request
    <3> HIDE DEF R
    <3>3. c2s \in Seq(R)
      BY <3>1, <3>2, SeqDef, LenProperties
    <3>4. QED
      BY <3>3 DEF R
  <2>6. s2c \in Seq([no : 1..sent, id : 0..MaxCalls, key : 0..sent,
                     size : 1..Longest, left : 1..Longest])
    <3> DEFINE A == [no : 1..sent, id : 0..MaxCalls, key : 0..sent,
                     size : 1..Longest, left : 1..Longest]
    <3>1. s2c \in Seq(Answer) /\ Len(s2c) \in Nat
      BY <2>1 DEF Types
    <3>2. ASSUME NEW i \in 1..Len(s2c) PROVE s2c[i] \in A
      <4>1. s2c[i] \in Answer
        BY <3>1
      <4>2. /\ 1 <= s2c[i].no /\ s2c[i].no <= sent /\ s2c[i].id <= MaxCalls /\ s2c[i].key <= sent
            /\ 1 <= s2c[i].left /\ s2c[i].left <= s2c[i].size /\ s2c[i].size <= Longest
        BY <2>1 DEF AnswersInv
      <4>3. /\ s2c[i].no \in Nat /\ s2c[i].key \in Nat /\ s2c[i].id \in Nat
            /\ s2c[i].size \in Nat /\ s2c[i].left \in Nat
        BY <4>1 DEF Answer
      <4>4. s2c[i].no \in 1..sent
        BY <2>2, <4>2, <4>3
      <4>5. s2c[i].key \in 0..sent
        BY <2>2, <4>2, <4>3
      <4>6. s2c[i].id \in 0..MaxCalls
        BY <2>2, <4>2, <4>3
      <4>7. s2c[i].size \in 1..Longest /\ s2c[i].left \in 1..Longest
        BY <4>2, <4>3, Constants
      <4>8. QED
        BY <4>1, <4>4, <4>5, <4>6, <4>7 DEF Answer
    <3> HIDE DEF A
    <3>3. s2c \in Seq(A)
      BY <3>1, <3>2, SeqDef, LenProperties
    <3>4. QED
      BY <3>3 DEF A
  <2>7. QED
    BY <2>1, <2>3, <2>4, <2>5, <2>6 DEF TypeOK, Types, Counts
<1>2. QED
  BY <1>1, AlwaysBase, PTL

\* What the client wrote is carried out although it has gone: the server ends
\* behind the last request unless it fails.
THEOREM CarriesOutAll == Spec => []NothingDropped
<1>1. Base => NothingDropped
  BY DEF Base, Counts, NothingDropped
<1>2. QED
  BY <1>1, AlwaysBase, PTL

-----------------------------------------------------------------------------
(* Nobody waits for nothing. *)

\* The request that waits for an answer is the last, and the only one.
Waiting ==
  /\ call = Idle => s2c = <<>> /\ \A i \in 1..Len(c2s) : c2s[i].op \notin Synchronous
  /\ call # Idle /\ s2c = <<>> =>
       /\ c2s # <<>>
       /\ c2s[Len(c2s)].op = call.op /\ c2s[Len(c2s)].key = call.key
       /\ \A i \in 1..Len(c2s) - 1 : c2s[i].op \notin Synchronous

\* A whole answer as long as a call of that kind reads.
FitsCall(a, op) ==
  /\ a.left = a.size
  /\ op = "step" => a.size >= Basis
  /\ op # "step" => a.size = Wants(op)

\* The answer to a call comes alone, behind all requests, and whole.
Fitting ==
  call # Idle /\ s2c # <<>> =>
    /\ c2s = <<>> /\ Len(s2c) = 1
    /\ s2c[1].no = call.no /\ FitsCall(s2c[1], call.op)

\* Until a call is cut short.
Served ==
  cut = 0 =>
    /\ call # Idle => call.due = Wants(call.op)
    /\ Fitting
    /\ up => Waiting

LEMMA InitServed == Init => Served
BY DEF Init, Served, Fitting, Waiting

LEMMA CutShort ==
  ASSUME Base, Interrupted PROVE cut' # 0
BY DEF Base, Types, Interrupted

\* What a call finds to read is its own.
LEMMA OwnAnswer ==
  ASSUME Base, Served, cut = 0, call # Idle, s2c # <<>>
  PROVE  /\ c2s = <<>> /\ Len(s2c) = 1 /\ Head(s2c) = s2c[1] /\ s2c[1] \in Answer
         /\ s2c[1].no = call.no /\ Fits /\ Tail(s2c) = <<>>
<1>1. c2s = <<>> /\ Len(s2c) = 1 /\ s2c[1].no = call.no /\ FitsCall(s2c[1], call.op)
      /\ call.due = Wants(call.op)
  BY DEF Served, Fitting
<1>2. s2c \in Seq(Answer)
  BY DEF Base, Types
<1>3. Head(s2c) = s2c[1] /\ s2c[1] \in Answer /\ Tail(s2c) = <<>>
  <2>1. 1 \in 1..Len(s2c) /\ Head(s2c) = s2c[1]
    BY <1>1, <1>2
  <2>2. Tail(s2c) \in Seq(Answer) /\ Len(Tail(s2c)) = 0
    BY <1>1, <1>2
  <2>3. Tail(s2c) = <<>>
    <3>1. \A t \in Seq(Answer) : Len(t) = 0 => t = <<>>
      OBVIOUS
    <3>2. QED
      BY ONLY <2>2, <3>1
  <2>4. s2c[1] \in Answer
    BY <1>2, <2>1
  <2>5. QED
    BY <2>1, <2>3, <2>4
<1>4. Fits
  BY <1>1, <1>3 DEF Fits, FitsCall
<1>5. QED
  BY <1>1, <1>3, <1>4

LEMMA NeverMisread ==
  ASSUME Base, Served, Misread
  PROVE  cut # 0
BY OwnAnswer DEF Misread, Readable

LEMMA WriteKeepsServed ==
  ASSUME Base, Served, Calling,
         NEW op \in Operations, NEW id \in 0..MaxCalls, NEW key \in Nat,
         Write(op, id, key), UNCHANGED <<cut, s2c, servervars>>
  PROVE  Served'
<1> DEFINE n == Len(c2s)
           a == [op |-> op, id |-> id, key |-> key, no |-> sent + 1]
<1>1. /\ up /\ up' = up /\ call = Idle
      /\ Len(c2s') = n + 1 /\ c2s'[n + 1].op = op /\ c2s'[n + 1].key = key
      /\ \A i \in 1..n : c2s'[i] = c2s[i]
      /\ n \in Nat
      /\ op \in Synchronous => call' = [op |-> op, no |-> sent + 1, key |-> key, due |-> Wants(op)]
      /\ op \notin Synchronous => call' = Idle
  <2>1. a.op = op /\ a.key = key /\ up' = up
    BY DEF servervars
  <2> HIDE DEF a
  <2>2. /\ up /\ call = Idle
        /\ Len(c2s') = n + 1 /\ c2s'[n + 1] = a
        /\ \A i \in 1..n : c2s'[i] = c2s[i]
        /\ n \in Nat
        /\ op \in Synchronous => call' = [op |-> op, no |-> sent + 1, key |-> key, due |-> Wants(op)]
        /\ op \notin Synchronous => call' = Idle
    BY WriteFacts DEF a
  <2>3. QED
    BY <2>1, <2>2
<1> HIDE DEF a
<1>2. UNCHANGED <<cut, s2c>> /\ c2s' # <<>>
  BY <1>1
<1>3. SUFFICES ASSUME cut = 0
               PROVE  (call' # Idle => call'.due = Wants(call'.op)) /\ Fitting' /\ Waiting'
  BY <1>2 DEF Served
<1>4. s2c = <<>> /\ \A i \in 1..n : c2s[i].op \notin Synchronous
  BY <1>1, <1>3 DEF Served, Waiting
<1>5. Fitting'
  BY <1>2, <1>4 DEF Fitting
<1>6. \A i \in 1..n : c2s'[i].op \notin Synchronous
  BY <1>1, <1>4
<1>7. CASE op \in Synchronous
  <2>1. call' # Idle /\ call'.op = op /\ call'.key = key /\ call'.due = Wants(op)
    BY <1>1, <1>7, Constants
  <2>2. c2s'[Len(c2s')].key = key
    BY <1>1
  <2>3. Len(c2s') - 1 = n /\ c2s'[Len(c2s')].op = op
    BY <1>1
  <2>4. Waiting'
    BY <1>2, <1>6, <2>1, <2>2, <2>3 DEF Waiting
  <2>5. QED
    BY <1>5, <2>1, <2>4
<1>8. CASE op \notin Synchronous
  <2>1. \A i \in 1..n + 1 : i \in 1..n \/ i = n + 1
    BY <1>1
  <2>2. \A i \in 1..Len(c2s') : c2s'[i].op \notin Synchronous
    BY <1>1, <1>6, <1>8, <2>1
  <2>3. Waiting'
    BY <1>1, <1>2, <1>4, <1>8, <2>2 DEF Waiting
  <2>4. QED
    BY <1>1, <1>5, <1>8, <2>3
<1>9. QED
  BY <1>7, <1>8

LEMMA CallsKeepServed ==
  ASSUME Base, Served, Writes
  PROVE  Served'
<1>1. sent + 1 \in Nat /\ 0 \in Nat /\ 0 \in 0..MaxCalls
  BY Constants DEF Base, Types
<1>2. {"prepare", "prepare_async", "lastid", "ask", "tell", "final", "rebind", "step"} \subseteq Operations
  BY DEF Operations, Synchronous
<1>3. CASE Prepare
  BY <1>1, <1>2, <1>3, WriteKeepsServed DEF Prepare
<1>4. CASE PrepareAsync
  BY <1>1, <1>2, <1>4, WriteKeepsServed DEF PrepareAsync
<1>5. ASSUME NEW op \in {"lastid", "ask", "tell"}, Other(op) PROVE Served'
  BY <1>1, <1>2, <1>5, WriteKeepsServed DEF Other
<1>6. ASSUME NEW id \in 0..MaxCalls, Finalise(id) PROVE Served'
  <2>1. /\ Calling /\ Find(cq, id) # 0 /\ Write("final", id, cq[Find(cq, id)].key)
        /\ UNCHANGED <<cut, s2c, servervars>>
    BY <1>6 DEF Finalise
  <2>2. cq[Find(cq, id)].key \in Nat
    BY <2>1, NamedFacts
  <2>3. QED
    BY <1>2, <2>1, <2>2, WriteKeepsServed
<1>7. ASSUME NEW id \in 0..MaxCalls, NEW op \in {"rebind", "step"}, Use(op, id) PROVE Served'
  <2>1. /\ Calling /\ Find(cq, id) # 0 /\ Write(op, id, cq[Find(cq, id)].key)
        /\ UNCHANGED <<cut, s2c, servervars>>
    BY <1>7 DEF Use
  <2>2. cq[Find(cq, id)].key \in Nat
    BY <2>1, NamedFacts
  <2>3. QED
    BY <1>2, <2>1, <2>2, WriteKeepsServed
<1>8. QED
  BY <1>3, <1>4, <1>5, <1>6, <1>7 DEF Writes

\* The end of a call, and calls that write nothing or not yet.
LEMMA QuietKeepsServed ==
  ASSUME Base, Served,
         \/ Reads \/ Interrupted \/ Free \/ NotWritten \/ WriteBlocks
         \/ \E id \in 0..MaxCalls : NotHeld(id)
  PROVE  Served'
<1>1. CASE Answered
  <2>1. call # Idle /\ s2c # <<>> /\ s2c' = Tail(s2c) /\ call' = Idle /\ UNCHANGED <<cut, c2s, up>>
    BY <1>1 DEF Answered, Readable, Returns, servervars
  <2>2. ASSUME cut = 0 PROVE s2c' = <<>> /\ c2s = <<>>
    BY <2>1, <2>2, OwnAnswer
  <2>3. QED
    BY <2>1, <2>2 DEF Served, Fitting, Waiting
<1>2. CASE Misread
  BY <1>2, NeverMisread DEF Misread, Served
<1>3. CASE Hangup
  <2>1. ~up' /\ cut' = cut /\ call' = Idle
    BY <1>3 DEF Hangup, servervars
  <2>2. QED
    BY <2>1 DEF Served, Fitting
<1>4. CASE Interrupted
  BY <1>4, CutShort DEF Served
<1>5. CASE Free \/ WriteBlocks \/ \E id \in 0..MaxCalls : NotHeld(id)
  <2>1. UNCHANGED <<call, cut, c2s, s2c, up>>
    BY <1>5 DEF Free, WriteBlocks, NotHeld, servervars
  <2>2. QED
    BY <2>1 DEF Served, Fitting, Waiting
<1>6. CASE NotWritten
  <2>1. ~up' /\ UNCHANGED <<call, cut, c2s, s2c>>
    BY <1>6 DEF NotWritten, servervars
  <2>2. QED
    BY <2>1 DEF Served, Fitting
<1>7. QED
  BY <1>1, <1>2, <1>3, <1>4, <1>5, <1>6 DEF Reads

\* A handler answers a request that is waited for, at the length that is read.
LEMMA HandleKeepsServed ==
  ASSUME Base, Served, NEW ops, Handle(ops), UNCHANGED <<clientvars, up, failing>>,
         c2s[1].op \notin Synchronous => s2c' = s2c,
         c2s[1].op \in Synchronous =>
           \E id, key, size : /\ Reply(id, key, size)
                              /\ c2s[1].op = "step" => size \in Basis..Longest
                              /\ c2s[1].op # "step" => size = Wants(c2s[1].op)
  PROVE  Served'
<1> DEFINE n == Len(c2s)
<1>1. /\ up /\ c2s # <<>> /\ n \in Nat /\ n >= 1 /\ 1 \in 1..n
      /\ Head(c2s) = c2s[1] /\ c2s[1].no = handled + 1
      /\ Len(c2s') = n - 1 /\ handled \in Nat /\ c2s' \in Seq(Request)
      /\ \A i \in 1..n - 1 : i + 1 \in 1..n /\ c2s'[i] = c2s[i + 1]
  BY HandleFacts DEF Base, Types
<1>2. UNCHANGED <<call, sent, cut, up>>
  BY DEF clientvars
<1>3. SUFFICES ASSUME cut = 0 PROVE Fitting' /\ Waiting'
  BY <1>2 DEF Served
<1>4. Waiting /\ Fitting
  BY <1>1, <1>3 DEF Served
<1>5. s2c = <<>>
  BY <1>1, <1>4 DEF Waiting, Fitting
<1>6. CASE call = Idle
  <2>1. \A i \in 1..n : c2s[i].op \notin Synchronous
    BY <1>4, <1>6 DEF Waiting
  <2>2. s2c' = <<>>
    BY <1>1, <1>5, <2>1
  <2>3. \A i \in 1..n - 1 : c2s'[i].op \notin Synchronous
    BY <1>1, <2>1
  <2>4. QED
    BY <1>1, <1>2, <1>6, <2>2, <2>3 DEF Waiting, Fitting
<1>7. CASE call # Idle
  <2>1. /\ c2s[n].op = call.op /\ c2s[n].key = call.key
        /\ \A i \in 1..n - 1 : c2s[i].op \notin Synchronous
    BY <1>4, <1>5, <1>7 DEF Waiting
  <2>2. call.op \in Synchronous /\ call.no = sent
    BY <1>7 DEF Base, CallInv
  <2>3. CASE n = 1
    <3>1. PICK id, key, size :
            /\ Reply(id, key, size)
            /\ c2s[1].op = "step" => size \in Basis..Longest
            /\ c2s[1].op # "step" => size = Wants(c2s[1].op)
      BY <2>1, <2>2, <2>3
    <3>2. sent = handled + 1
      BY <1>1, <2>3 DEF Base, Counts
    <3> DEFINE a == [no |-> handled + 1, id |-> id, key |-> key, size |-> size, left |-> size]
    <3>3. s2c' = <<a>> /\ a.no = handled + 1 /\ a.size = size /\ a.left = size
      BY <1>1, <1>5, <3>1 DEF Reply
    <3> HIDE DEF a
    <3>4. Len(s2c') = 1 /\ s2c'[1] = a /\ s2c' # <<>>
      BY <3>3
    <3>5. c2s' = <<>>
      <4>1. Len(c2s') = 0
        BY <1>1, <2>3
      <4>2. QED
        BY <1>1, <4>1
    <3>6. call.op = "step" => a.size >= Basis
      BY <2>1, <2>3, <3>1, <3>3, Constants
    <3>7. FitsCall(a, call.op)
      BY <2>1, <2>3, <3>1, <3>3, <3>6 DEF FitsCall
    <3>8. Fitting'
      BY <1>2, <2>2, <3>2, <3>3, <3>4, <3>5, <3>7 DEF Fitting
    <3>9. Waiting'
      BY <1>2, <1>7, <3>4 DEF Waiting
    <3>10. QED
      BY <3>8, <3>9
  <2>4. CASE n > 1
    <3>1. s2c' = <<>>
      <4>1. 1 \in 1..n - 1
        BY <1>1, <2>4
      <4>2. QED
        BY <1>5, <2>1, <4>1
    <3>2. n - 1 \in 1..n - 1 /\ n - 1 + 1 = n /\ c2s' # <<>>
      <4>1. n - 1 \in 1..n - 1 /\ n - 1 + 1 = n /\ Len(c2s') # 0
        BY <1>1, <2>4
      <4>2. QED
        BY <4>1
    <3>3. c2s'[Len(c2s')] = c2s[n]
      BY <1>1, <3>2
    <3>4. \A i \in 1..Len(c2s') - 1 : c2s'[i].op \notin Synchronous
      <4> SUFFICES ASSUME NEW i \in 1..n - 1 - 1 PROVE c2s'[i].op \notin Synchronous
        BY <1>1
      <4>1. i + 1 \in 1..n - 1 /\ i \in 1..n - 1
        BY <1>1
      <4>2. QED
        BY <1>1, <2>1, <4>1
    <3>5. QED
      BY <1>2, <1>7, <2>1, <3>1, <3>2, <3>3, <3>4 DEF Waiting, Fitting
  <2>5. QED
    BY <1>1, <2>3, <2>4
<1>8. QED
  BY <1>6, <1>7

LEMMA HandlersKeepServed ==
  ASSUME Base, Served, OpPrepare \/ OpFinalise \/ OpUse \/ OpLastid \/ OpOther
  PROVE  Served'
<1>1. CASE OpPrepare
  <2>1. /\ Handle({"prepare", "prepare_async"}) /\ UNCHANGED <<clientvars, up, failing>>
        /\ IF Head(c2s).op = "prepare" THEN Reply(lastid', Head(c2s).no, 1) ELSE s2c' = s2c
    BY <1>1 DEF OpPrepare
  <2>2. Head(c2s) = c2s[1] /\ c2s[1].op \in {"prepare", "prepare_async"}
    BY <2>1, HandleFacts
  <2>3. c2s[1].op # "step" /\ (c2s[1].op = "prepare" <=> c2s[1].op \in Synchronous)
    BY <2>2 DEF Synchronous
  <2>4. 1 = Wants("prepare")
    BY WantsFacts
  <2>5. QED
    BY <2>1, <2>2, <2>3, <2>4, HandleKeepsServed
<1>2. CASE OpFinalise
  <2>1. Handle({"final"}) /\ UNCHANGED <<clientvars, up, failing>> /\ s2c' = s2c
    BY <1>2 DEF OpFinalise
  <2>2. c2s[1].op \notin Synchronous
    BY <2>1, HandleFacts DEF Synchronous
  <2>3. QED
    BY <2>1, <2>2, HandleKeepsServed
<1>3. CASE OpUse
  <2>1. /\ Handle({"rebind", "step"}) /\ UNCHANGED <<clientvars, up, failing>>
        /\ IF Head(c2s).op = "step"
             THEN \E size \in Basis..Longest : Reply(0, sq[Find(sq, Head(c2s).id)].key, size)
             ELSE s2c' = s2c
    BY <1>3 DEF OpUse
  <2>2. Head(c2s) = c2s[1] /\ c2s[1].op \in {"rebind", "step"}
    BY <2>1, HandleFacts
  <2>3. c2s[1].op = "step" <=> c2s[1].op \in Synchronous
    BY <2>2 DEF Synchronous
  <2>4. QED
    BY <2>1, <2>2, <2>3, HandleKeepsServed
<1>4. CASE OpLastid
  <2>1. Handle({"lastid"}) /\ UNCHANGED <<clientvars, up, failing>> /\ Reply(0, 0, 2)
    BY <1>4 DEF OpLastid
  <2>2. c2s[1].op = "lastid"
    BY <2>1, HandleFacts
  <2>3. c2s[1].op \in Synchronous /\ 2 = Wants(c2s[1].op)
    BY <2>2, WantsFacts DEF Synchronous
  <2>4. QED
    BY <2>1, <2>2, <2>3, HandleKeepsServed
<1>5. CASE OpOther
  <2>1. /\ Handle({"ask", "tell"}) /\ UNCHANGED <<clientvars, up, failing>>
        /\ IF Head(c2s).op = "ask" THEN \E id : Reply(id, 0, 1) ELSE s2c' = s2c
    BY <1>5 DEF OpOther
  <2>2. Head(c2s) = c2s[1] /\ c2s[1].op \in {"ask", "tell"}
    BY <2>1, HandleFacts
  <2>3. c2s[1].op # "step" /\ (c2s[1].op = "ask" <=> c2s[1].op \in Synchronous)
    BY <2>2 DEF Synchronous
  <2>4. 1 = Wants("ask")
    BY WantsFacts
  <2>5. QED
    BY <2>1, <2>2, <2>3, <2>4, HandleKeepsServed
<1>6. QED
  BY <1>1, <1>2, <1>3, <1>4, <1>5

LEMMA StepKeepsServed == Base /\ Served /\ [Next]_vars => Served'
<1> SUFFICES ASSUME Base, Served, [Next]_vars PROVE Served'
  OBVIOUS
<1>1. CASE Client
  BY <1>1, CallsKeepServed, QuietKeepsServed DEF Client
<1>2. CASE Server \/ Die
  <2>1. CASE EndOfFile \/ Die \/ OpNotFound \/ OpNotWritten
    <3>1. ~up' /\ c2s' = <<>> /\ UNCHANGED <<call, cut, s2c>>
      BY <2>1 DEF EndOfFile, Die, OpNotFound, OpNotWritten, Stop, clientvars
    <3>2. QED
      BY <3>1 DEF Served, Fitting
  <2>2. QED
    BY <1>2, <2>1, HandlersKeepServed DEF Server
<1>3. CASE UNCHANGED vars \/ Over
  BY <1>3 DEF Over, vars, clientvars, servervars, Served, Fitting, Waiting
<1>4. QED
  BY <1>1, <1>2, <1>3 DEF Next

LEMMA AlwaysServed == Spec => [](Base /\ Served)
BY InitBase, InitServed, StepKeepsBase, StepKeepsServed, PTL DEF Spec

\* Until a call is cut short a client and a server never wait for each other: what
\* a call finds to read is its answer, whole; until then its request is the last
\* in the pipe; and the server has room to answer whatever it finds there, so
\* that a call that waits to be written will be.
AnswerIsDue ==
  cut = 0 /\ up =>
    /\ call # Idle /\ s2c # <<>> => Head(s2c).no = call.no /\ Fits
    /\ call # Idle /\ s2c = <<>> => c2s # <<>> /\ c2s[Len(c2s)].no = call.no
    /\ c2s # <<>> => Len(s2c) < MaxPipe

\* The answer that a call waits for is on its way, or the server has gone, until
\* a call is cut short.
THEOREM NobodyWaitsForNothing == Spec => []AnswerIsDue
<1>1. ASSUME Base, Served PROVE AnswerIsDue
  <2> SUFFICES ASSUME cut = 0, up
               PROVE  /\ call # Idle /\ s2c # <<>> => Head(s2c).no = call.no /\ Fits
                      /\ call # Idle /\ s2c = <<>> => c2s # <<>> /\ c2s[Len(c2s)].no = call.no
                      /\ c2s # <<>> => Len(s2c) < MaxPipe
    BY DEF AnswerIsDue
  <2>1. call # Idle /\ s2c # <<>> => Head(s2c).no = call.no /\ Fits
    BY <1>1, OwnAnswer
  <2>2. ASSUME call # Idle, s2c = <<>> PROVE c2s # <<>> /\ c2s[Len(c2s)].no = call.no
    <3>1. c2s # <<>> /\ c2s \in Seq(Request) /\ call.op \in Synchronous
      BY <1>1, <2>2 DEF Served, Waiting, Base, Types, CallInv
    <3>2. Len(c2s) \in 1..Len(c2s)
      BY <3>1
    <3>3. c2s[Len(c2s)].no = handled + Len(c2s) /\ sent = handled + Len(c2s) /\ call.no = sent
      BY <1>1, <3>1, <3>2 DEF Base, RequestsInv, Counts, CallInv
    <3>4. QED
      BY <3>1, <3>3
  <2>3. ASSUME c2s # <<>> PROVE Len(s2c) < MaxPipe
    <3>1. s2c = <<>>
      BY <1>1, <2>3 DEF Served, Fitting, Waiting
    <3>2. QED
      BY <3>1, Constants
  <2>4. QED
    BY <2>1, <2>2, <2>3
<1>2. QED
  BY <1>1, AlwaysServed, PTL

-----------------------------------------------------------------------------
(* What the pipe will make of the server's queue. *)

Prepares(r, k) == r.op \in {"prepare", "prepare_async"} /\ r.no = k
Ends(r, k) == r.op = "final" /\ r.key = k
Naming == {"final", "rebind", "step"}

\* Whether k is in queue q when the requests of pipe p before the j-th have been
\* handled.
Alive(q, p, j, k) ==
  /\ In(q, k) \/ \E i \in 1..j - 1 : Prepares(p[i], k)
  /\ \A i \in 1..j - 1 : ~Ends(p[i], k)

\* Pipe t is p with one request more.
Longer(t, p, r) == (\A i \in 1..Len(p) : t[i] = p[i]) /\ t[Len(p) + 1] = r

\* A request is written.
LEMMA Extend ==
  ASSUME NEW q, NEW p \in Seq(Request), NEW t, NEW r, Longer(t, p, r)
  PROVE  /\ \A j \in 1..Len(p) + 1, k \in Nat : Alive(q, t, j, k) <=> Alive(q, p, j, k)
         /\ \A k \in Nat :
              Alive(q, t, Len(p) + 2, k) <=>
                /\ \/ Alive(q, p, Len(p) + 1, k)
                   \/ Prepares(r, k) /\ \A i \in 1..Len(p) : ~Ends(p[i], k)
                /\ ~Ends(r, k)
<1>1. Len(p) \in Nat /\ (\A i \in 1..Len(p) : t[i] = p[i]) /\ t[Len(p) + 1] = r
  BY DEF Longer
<1>2. ASSUME NEW j \in 1..Len(p) + 1, NEW k \in Nat
      PROVE  Alive(q, t, j, k) <=> Alive(q, p, j, k)
  <2>1. \A i \in 1..j - 1 : i \in 1..Len(p)
    BY <1>1
  <2>2. \A i \in 1..j - 1 : t[i] = p[i]
    BY <1>1, <2>1
  <2>3. QED
    BY <2>2 DEF Alive
<1>3. ASSUME NEW k \in Nat
      PROVE  Alive(q, t, Len(p) + 2, k) <=>
                /\ \/ Alive(q, p, Len(p) + 1, k)
                   \/ Prepares(r, k) /\ \A i \in 1..Len(p) : ~Ends(p[i], k)
                /\ ~Ends(r, k)
  <2>1. Len(p) + 2 - 1 = Len(p) + 1 /\ Len(p) + 1 - 1 = Len(p)
    BY <1>1
  <2>2. \A i \in 1..Len(p) + 1 : i \in 1..Len(p) \/ i = Len(p) + 1
    BY <1>1
  <2>3. 1..Len(p) \subseteq 1..Len(p) + 1 /\ Len(p) + 1 \in 1..Len(p) + 1
    BY <1>1
  <2>4. (\E i \in 1..Len(p) + 1 : Prepares(t[i], k)) <=>
          Prepares(r, k) \/ \E i \in 1..Len(p) : Prepares(p[i], k)
    BY <1>1, <2>2, <2>3
  <2>5. (\A i \in 1..Len(p) + 1 : ~Ends(t[i], k)) <=>
          ~Ends(r, k) /\ \A i \in 1..Len(p) : ~Ends(p[i], k)
    BY <1>1, <2>2, <2>3
  <2>6. QED
    BY <2>1, <2>4, <2>5 DEF Alive
<1>4. QED
  BY <1>2, <1>3

\* Pipe t is p without its first request, the one after number h, and q2 is what
\* that makes of queue q.
Shorter(t, p, h, q2, q) ==
  /\ \A i \in 1..Len(p) - 1 : t[i] = p[i + 1]
  /\ \A i \in 1..Len(p) : p[i].no = h + i
  /\ \A k \in Nat : In(q2, k) <=> (In(q, k) \/ Prepares(p[1], k)) /\ ~Ends(p[1], k)
  /\ p[1].op = "final" => p[1].key <= h

\* The first request is handled.
LEMMA Shift ==
  ASSUME NEW q, NEW q2, NEW p \in Seq(Request), NEW t, NEW h \in Nat,
         Shorter(t, p, h, q2, q)
  PROVE  \A j \in 1..Len(p), k \in Nat : Alive(q2, t, j, k) <=> Alive(q, p, j + 1, k)
<1> SUFFICES ASSUME NEW j \in 1..Len(p), NEW k \in Nat
             PROVE  Alive(q2, t, j, k) <=> Alive(q, p, j + 1, k)
  OBVIOUS
<1>1. Len(p) \in Nat /\ j \in Nat /\ 1 <= j /\ j <= Len(p) /\ j + 1 - 1 = j
  OBVIOUS
<1>2. \A i \in 1..j - 1 : i + 1 \in 1..j /\ t[i] = p[i + 1]
  <2>1. \A i \in 1..j - 1 : i + 1 \in 1..j /\ i \in 1..Len(p) - 1
    BY <1>1
  <2>2. QED
    BY <2>1 DEF Shorter
<1>3. \A i \in 1..j : i = 1 \/ (i - 1 \in 1..j - 1 /\ p[i] = t[i - 1])
  <2> SUFFICES ASSUME NEW i \in 1..j, i # 1 PROVE i - 1 \in 1..j - 1 /\ p[i] = t[i - 1]
    OBVIOUS
  <2>1. i - 1 \in 1..j - 1 /\ i - 1 + 1 = i
    BY <1>1
  <2>2. QED
    BY <1>2, <2>1
<1>4. 1 \in 1..j
  BY <1>1
<1>5. (\E i \in 1..j : Prepares(p[i], k)) <=>
        Prepares(p[1], k) \/ \E i \in 1..j - 1 : Prepares(t[i], k)
  BY <1>2, <1>3, <1>4
<1>6. (\A i \in 1..j : ~Ends(p[i], k)) <=>
        ~Ends(p[1], k) /\ \A i \in 1..j - 1 : ~Ends(t[i], k)
  BY <1>2, <1>3, <1>4
<1>7. ASSUME NEW i \in 1..j - 1, Prepares(t[i], k), Ends(p[1], k) PROVE FALSE
  <2>1. i + 1 \in 1..Len(p) /\ i \in Nat
    BY <1>1
  <2>2. p[i + 1].no = k /\ p[i + 1].no = h + (i + 1)
    BY <1>2, <1>7, <2>1 DEF Prepares, Shorter
  <2>3. k <= h
    BY <1>7 DEF Ends, Shorter
  <2>4. QED
    BY <2>1, <2>2, <2>3
<1>8. In(q2, k) <=> (In(q, k) \/ Prepares(p[1], k)) /\ ~Ends(p[1], k)
  BY DEF Shorter
<1>9. Alive(q, p, j + 1, k) <=>
        /\ In(q, k) \/ \E i \in 1..j : Prepares(p[i], k)
        /\ \A i \in 1..j : ~Ends(p[i], k)
  BY <1>1 DEF Alive
<1>10. Alive(q2, t, j, k) <=>
         /\ In(q2, k) \/ \E i \in 1..j - 1 : Prepares(t[i], k)
         /\ \A i \in 1..j - 1 : ~Ends(t[i], k)
  BY DEF Alive
<1>11. QED
  BY <1>5, <1>6, <1>7, <1>8, <1>9, <1>10

-----------------------------------------------------------------------------
(* What links the two ends. *)

\* Behind the pipe the server holds what the client does.
Agree ==
  \A k \in Nat : Alive(sq, c2s, Len(c2s) + 1, k) <=> In(cq, k) \/ (call.op = "prepare" /\ k = call.key)

Known == \A id \in Nat, k \in Nat : id # 0 /\ Holds(cq, id, k) => Holds(sq, id, k)

\* A request will find its statement alive; no identifier stands for the newest.
Meant ==
  \A j \in 1..Len(c2s) : c2s[j].op \in Naming =>
    /\ Alive(sq, c2s, j, c2s[j].key)
    /\ c2s[j].id = 0 => \A k \in Nat : Alive(sq, c2s, j, k) => k <= c2s[j].key
    /\ c2s[j].id # 0 => Holds(sq, c2s[j].id, c2s[j].key)

\* The answer to a call is that of the statement it was about.
Answering ==
  call # Idle /\ s2c # <<>> =>
    /\ call.op \in {"prepare", "step"} => s2c[1].key = call.key
    /\ call.op = "prepare" => s2c[1].id # 0 /\ Holds(sq, s2c[1].id, call.key)

Link == cut = 0 => Answering /\ (up => Agree /\ Known /\ Meant)

LEMMA InitLink == Init => Link
<1> SUFFICES ASSUME Init PROVE Link
  OBVIOUS
<1>1. /\ Answering /\ Known /\ Meant
  BY DEF Init, Answering, Known, Meant, Holds
<1>2. Agree
  <2>1. Len(c2s) = 0 /\ 1..0 + 1 - 1 = {} /\ call.op # "prepare" /\ \A k : ~In(sq, k) /\ ~In(cq, k)
    BY DEF Init, In, Idle
  <2>2. QED
    BY <2>1 DEF Agree, Alive
<1>3. QED
  BY <1>1, <1>2 DEF Link

\* A request that its client means as the server will take it keeps the link.
LEMMA WriteKeepsLink ==
  ASSUME Base, Served, Link, Calling,
         NEW op \in Operations, NEW id \in 0..MaxCalls, NEW key \in Nat,
         Write(op, id, key), op = "prepare" => key = sent + 1,
         UNCHANGED <<failed, freed, cut, s2c, servervars>>,
         \A k \in Nat :
           In(cq', k) <=> (In(cq, k) \/ (op = "prepare_async" /\ k = sent + 1)) /\ ~(op = "final" /\ k = key),
         \A n \in Nat, k \in Nat : n # 0 /\ Holds(cq', n, k) => Holds(cq, n, k),
         op \in Naming =>
           /\ In(cq, key)
           /\ id = 0 => \A k \in Nat : In(cq, k) => k <= key
           /\ id # 0 => Holds(cq, id, key)
  PROVE  Link'
<1> DEFINE r == [op |-> op, id |-> id, key |-> key, no |-> sent + 1]
           n == Len(c2s)
<1>1. /\ up /\ call = Idle /\ key \in Nat /\ r \in Request
      /\ Len(c2s') = n + 1 /\ c2s'[n + 1] = r
      /\ \A i \in 1..n : c2s'[i] = c2s[i]
      /\ n \in Nat
      /\ op \in Synchronous => call' = [op |-> op, no |-> sent + 1, key |-> key, due |-> Wants(op)]
      /\ op \notin Synchronous => call' = Idle
  BY WriteFacts
<1>2. r.op = op /\ r.id = id /\ r.key = key /\ r.no = sent + 1
  OBVIOUS
<1> HIDE DEF r
<1>3. UNCHANGED <<failed, freed, cut, s2c, up, failing, sq, lastid, handled>>
  BY DEF servervars
<1>4. c2s \in Seq(Request) /\ sent \in Nat
  BY DEF Base, Types
<1>5. SUFFICES ASSUME cut = 0 PROVE Answering' /\ Agree' /\ Known' /\ Meant'
  BY <1>3 DEF Link
<1>6. Agree /\ Known /\ Meant
  BY <1>1, <1>5 DEF Link
<1>7. s2c = <<>>
  BY <1>1, <1>5 DEF Served, Waiting
<1>8. \A k \in Nat : Alive(sq, c2s, n + 1, k) <=> In(cq, k)
  <2>1. call.op # "prepare"
    BY <1>1 DEF Idle
  <2>2. QED
    BY <1>6, <2>1 DEF Agree
<1>9. \A i \in 1..n : c2s[i].key <= sent /\ c2s[i].key \in Nat
  <2>1. \A i \in 1..n : c2s[i] \in Request
    BY <1>4
  <2>2. QED
    BY <2>1 DEF Base, RequestsInv, Request
<1>10. /\ \A j \in 1..n + 1, k \in Nat : Alive(sq, c2s', j, k) <=> Alive(sq, c2s, j, k)
       /\ \A k \in Nat :
            Alive(sq, c2s', n + 2, k) <=>
              /\ \/ Alive(sq, c2s, n + 1, k)
                 \/ Prepares(r, k) /\ \A i \in 1..n : ~Ends(c2s[i], k)
              /\ ~Ends(r, k)
  <2>1. Longer(c2s', c2s, r)
    BY <1>1 DEF Longer
  <2> HIDE DEF n
  <2>2. /\ \A j \in 1..Len(c2s) + 1, k \in Nat : Alive(sq, c2s', j, k) <=> Alive(sq, c2s, j, k)
        /\ \A k \in Nat :
             Alive(sq, c2s', Len(c2s) + 2, k) <=>
               /\ \/ Alive(sq, c2s, Len(c2s) + 1, k)
                  \/ Prepares(r, k) /\ \A i \in 1..Len(c2s) : ~Ends(c2s[i], k)
               /\ ~Ends(r, k)
    BY <1>4, <2>1, Extend
  <2>3. QED
    BY <2>2 DEF n
<1>11. Agree'
  <2> SUFFICES ASSUME NEW k \in Nat
               PROVE  Alive(sq', c2s', Len(c2s') + 1, k) <=> In(cq', k) \/ (call'.op = "prepare" /\ k = call'.key)
    BY DEF Agree
  <2>1. Len(c2s') + 1 = n + 2 /\ sq' = sq
    BY <1>1, <1>3
  <2>2. Prepares(r, k) => \A i \in 1..n : ~Ends(c2s[i], k)
    <3> SUFFICES ASSUME Prepares(r, k), NEW i \in 1..n PROVE ~Ends(c2s[i], k)
      OBVIOUS
    <3>1. k = sent + 1
      BY <1>2 DEF Prepares
    <3>2. c2s[i].key # k
      BY <1>4, <1>9, <3>1
    <3>3. QED
      BY <3>2 DEF Ends
  <2>3. Alive(sq', c2s', Len(c2s') + 1, k) <=> (In(cq, k) \/ Prepares(r, k)) /\ ~Ends(r, k)
    BY <1>8, <1>10, <2>1, <2>2
  <2>4. call'.op = "prepare" /\ k = call'.key <=> op = "prepare" /\ k = sent + 1
    BY <1>1, Constants DEF Idle, Synchronous
  <2>5. Prepares(r, k) <=> op \in {"prepare", "prepare_async"} /\ k = sent + 1
    BY <1>2 DEF Prepares
  <2>6. Ends(r, k) <=> op = "final" /\ k = key
    BY <1>2 DEF Ends
  <2>7. QED
    BY <2>3, <2>4, <2>5, <2>6
<1>12. Known'
  BY <1>3, <1>6 DEF Known
<1>13. Meant'
  <2> SUFFICES ASSUME NEW j \in 1..Len(c2s'), c2s'[j].op \in Naming
               PROVE  /\ Alive(sq, c2s', j, c2s'[j].key)
                      /\ c2s'[j].id = 0 => \A k \in Nat : Alive(sq, c2s', j, k) => k <= c2s'[j].key
                      /\ c2s'[j].id # 0 => Holds(sq, c2s'[j].id, c2s'[j].key)
    BY <1>3 DEF Meant
  <2>1. CASE j \in 1..n
    <3>1. c2s'[j] = c2s[j] /\ j \in 1..n + 1 /\ c2s[j].key \in Nat
      BY <1>1, <1>9, <2>1
    <3>2. QED
      BY <1>6, <1>10, <2>1, <3>1 DEF Meant
  <2>2. CASE j = n + 1
    <3>1. c2s'[j] = r /\ j \in 1..n + 1 /\ op \in Naming
      BY <1>1, <1>2, <2>2
    <3>2. \A k \in Nat : Alive(sq, c2s', j, k) <=> In(cq, k)
      BY <1>8, <1>10, <2>2, <3>1
    <3>3. id # 0 => Holds(sq, id, key)
      BY <1>6, <3>1, Constants DEF Known
    <3>4. QED
      BY <1>1, <1>2, <3>1, <3>2, <3>3
  <2>3. QED
    BY <1>1, <2>1, <2>2
<1>14. Answering'
  BY <1>3, <1>7 DEF Answering
<1>15. QED
  BY <1>11, <1>12, <1>13, <1>14

\* The statement a call names, as its client means it.
LEMMA NamedMeant ==
  ASSUME Base, NEW id \in 0..MaxCalls, Find(cq, id) # 0
  PROVE  LET key == cq[Find(cq, id)].key IN
         /\ In(cq, key)
         /\ id = 0 => \A k \in Nat : In(cq, k) => k <= key
         /\ id # 0 => Holds(cq, id, key)
<1> DEFINE p == Find(cq, id)
           key == cq[p].key
<1>1. cq \in Seq(Statement) /\ id \in Nat /\ Len(cq) \in Nat /\ Sorted(cq)
  BY Constants DEF Base, Types, Ordered
<1>2. p \in 1..Len(cq) /\ (id = 0 => p = Len(cq)) /\ (id # 0 => cq[p].id = id)
  BY <1>1, FindFacts
<1> HIDE DEF p
<1>3. id = 0 => \A k \in Nat : In(cq, k) => k <= key
  <2> SUFFICES ASSUME id = 0, NEW k \in Nat, In(cq, k) PROVE k <= key
    OBVIOUS
  <2>1. PICK i \in 1..Len(cq) : cq[i].key = k
    BY DEF In
  <2>2. key \in Nat
    BY <1>1, <1>2, QueueFacts
  <2>3. i < Len(cq) => k < key
    BY <1>1, <1>2, <2>1 DEF Sorted
  <2>4. i = Len(cq) => k = key
    BY <1>2, <2>1
  <2>5. QED
    BY <1>1, <2>1, <2>2, <2>3, <2>4
<1>4. In(cq, key) /\ (id # 0 => Holds(cq, id, key))
  BY <1>2 DEF In, Holds
<1>5. QED
  BY <1>3, <1>4 DEF p

LEMMA CallsKeepLink ==
  ASSUME Base, Served, Link, Writes
  PROVE  Link'
<1>1. cq \in Seq(Statement) /\ Sorted(cq) /\ sent \in Nat /\ 0 \in 0..MaxCalls
      /\ \A k \in Nat : In(cq, k) => k <= sent
  BY Constants DEF Base, Types, Ordered
<1>2. ASSUME Prepare PROVE Link'
  <2>1. /\ Calling /\ Write("prepare", 0, sent + 1) /\ cq' = cq
        /\ UNCHANGED <<failed, freed, cut, s2c, servervars>>
    BY <1>2 DEF Prepare
  <2>2. "prepare" \in Operations /\ sent + 1 \in Nat /\ "prepare" \notin Naming
    BY <1>1 DEF Operations, Synchronous, Naming
  <2>3. QED
    BY <1>1, <2>1, <2>2, WriteKeepsLink
<1>3. ASSUME PrepareAsync PROVE Link'
  <2>1. /\ Calling /\ Write("prepare_async", 0, sent + 1)
        /\ cq' = Append(cq, [id |-> 0, key |-> sent + 1])
        /\ UNCHANGED <<failed, freed, cut, s2c, servervars>>
    BY <1>3 DEF PrepareAsync
  <2>2. "prepare_async" \in Operations /\ sent + 1 \in Nat /\ "prepare_async" \notin Naming
    BY <1>1 DEF Operations, Synchronous, Naming
  <2>3. sent + 1 \in 1..MaxCalls /\ 0 \in Nat
    <3>1. sent' = sent + 1 /\ sent' <= MaxCalls
      BY <1>1, <2>1, <2>2, WriteFacts
    <3>2. QED
      BY <1>1, <3>1, Constants
  <2>4. \A k \in Nat : In(cq, k) => k < sent + 1
    BY <1>1
  <2>5. /\ \A k : In(cq', k) <=> In(cq, k) \/ k = sent + 1
        /\ \A i, k : Holds(cq', i, k) <=> Holds(cq, i, k) \/ (i = 0 /\ k = sent + 1)
    BY <1>1, <2>1, <2>3, <2>4, AppendFacts
  <2>6. QED
    BY <1>1, <2>1, <2>2, <2>5, WriteKeepsLink
<1>4. ASSUME NEW op \in {"lastid", "ask", "tell"}, Other(op) PROVE Link'
  <2>1. /\ Calling /\ Write(op, 0, 0) /\ cq' = cq
        /\ UNCHANGED <<failed, freed, cut, s2c, servervars>>
    BY <1>4 DEF Other
  <2>2. /\ op \in Operations /\ op \notin Naming /\ 0 \in Nat
        /\ op # "prepare" /\ op # "prepare_async" /\ op # "final"
    BY <1>1 DEF Operations, Synchronous, Naming
  <2>3. QED
    BY <1>1, <2>1, <2>2, WriteKeepsLink
<1>5. ASSUME NEW id \in 0..MaxCalls, Finalise(id) PROVE Link'
  <2> DEFINE p == Find(cq, id)
             key == cq[p].key
  <2>1. /\ Calling /\ p # 0 /\ Write("final", id, key) /\ cq' = RemoveAt(cq, p)
        /\ UNCHANGED <<failed, freed, cut, s2c, servervars>>
    BY <1>5 DEF Finalise
  <2>2. p \in 1..Len(cq) /\ key \in Nat
    BY <2>1, NamedFacts
  <2>3. /\ \A k : In(cq', k) <=> In(cq, k) /\ k # key
        /\ \A i, k : Holds(cq', i, k) => Holds(cq, i, k)
    BY <1>1, <2>1, <2>2, RemoveFacts
  <2>4. /\ In(cq, key)
        /\ id = 0 => \A k \in Nat : In(cq, k) => k <= key
        /\ id # 0 => Holds(cq, id, key)
    BY <2>1, NamedMeant
  <2> HIDE DEF p, key
  <2>5. "final" \in Operations
    BY DEF Operations, Synchronous
  <2>6. \A k \in Nat :
          In(cq', k) <=> (In(cq, k) \/ ("final" = "prepare_async" /\ k = sent + 1)) /\ ~("final" = "final" /\ k = key)
    BY <2>3
  <2>7. QED
    BY <2>1, <2>2, <2>3, <2>4, <2>5, <2>6, WriteKeepsLink
<1>6. ASSUME NEW id \in 0..MaxCalls, NEW op \in {"rebind", "step"}, Use(op, id) PROVE Link'
  <2> DEFINE p == Find(cq, id)
             key == cq[p].key
  <2>1. /\ Calling /\ p # 0 /\ Write(op, id, key) /\ cq' = cq
        /\ UNCHANGED <<failed, freed, cut, s2c, servervars>>
    BY <1>6 DEF Use
  <2>2. key \in Nat
    BY <2>1, NamedFacts
  <2>3. /\ In(cq, key)
        /\ id = 0 => \A k \in Nat : In(cq, k) => k <= key
        /\ id # 0 => Holds(cq, id, key)
    BY <2>1, NamedMeant
  <2> HIDE DEF p, key
  <2>4. op \in Operations /\ op # "prepare" /\ op # "prepare_async" /\ op # "final"
    BY DEF Operations, Synchronous
  <2>5. QED
    BY <2>1, <2>2, <2>3, <2>4, WriteKeepsLink
<1>7. QED
  BY <1>2, <1>3, <1>4, <1>5, <1>6 DEF Writes

\* An answer comes back, with an identifier that fits on the wire.
LEMMA AnsweredKeepsLink ==
  ASSUME lastid < Wire, Base, Served, Link, Answered
  PROVE  Link'
<1> DEFINE id == Head(s2c).id % Wire
           bad == id = 0
<1>1. /\ call # Idle /\ s2c # <<>> /\ call' = Idle
      /\ call.op = "prepare" => cq' = IF ~bad THEN Append(cq, [id |-> id, key |-> call.key]) ELSE cq
      /\ call.op # "prepare" => cq' = cq
      /\ UNCHANGED <<sent, freed, cut, c2s, up, failing, sq, lastid, handled>>
  BY DEF Answered, Readable, Returns, servervars
<1>2. SUFFICES ASSUME cut = 0 PROVE Answering' /\ (up => Agree' /\ Known' /\ Meant')
  BY <1>1 DEF Link
<1>3. Answering'
  BY <1>1 DEF Answering
<1>4. SUFFICES ASSUME up PROVE Agree' /\ Known' /\ Meant'
  BY <1>3
<1>5. Agree /\ Known /\ Meant /\ Answering
  BY <1>2, <1>4 DEF Link
<1>6. Head(s2c) = s2c[1] /\ s2c[1] \in Answer
  BY <1>1, <1>2, OwnAnswer
<1>7. Meant'
  BY <1>1, <1>5 DEF Meant
<1>8. CASE call.op # "prepare"
  <2>1. cq' = cq /\ call'.op # "prepare"
    BY <1>1, <1>8 DEF Idle
  <2>2. Agree' /\ Known'
    BY <1>1, <1>5, <1>8, <2>1 DEF Agree, Known
  <2>3. QED
    BY <1>7, <2>2
<1>9. CASE call.op = "prepare"
  <2>1. /\ Head(s2c) = s2c[1] /\ s2c[1] \in Answer
        /\ s2c[1].id # 0 /\ Holds(sq, s2c[1].id, call.key)
    BY <1>1, <1>5, <1>6, <1>9 DEF Answering
  <2>2. s2c[1].id \in Nat /\ s2c[1].id < Wire /\ Wire \in Nat
    <3>1. s2c[1].id \in Nat /\ call.key \in Nat /\ lastid \in Nat /\ Wire \in Nat
      BY <2>1, Constants DEF Base, Types, Answer
    <3>2. s2c[1].id <= lastid
      BY <2>1, <3>1 DEF Base, Ordered
    <3>3. QED
      BY <3>1, <3>2
  <2>3. s2c[1].id % Wire = s2c[1].id
    BY <2>2
  <2>4. id = s2c[1].id
    BY <2>1, <2>3
  <2>5. id # 0 /\ id \in Nat /\ Holds(sq, id, call.key)
    BY <2>1, <2>2, <2>4
  <2>6. ~bad
    BY <2>5
  <2> HIDE DEF id
  <2>7. cq' = Append(cq, [id |-> id, key |-> call.key])
    BY <1>1, <1>9, <2>6
  <2>8. cq \in Seq(Statement) /\ Sorted(cq) /\ call.key \in 1..MaxCalls /\ \A k \in Nat : In(cq, k) => k < call.key
    <3>1. /\ call.key = sent /\ 1 <= sent /\ sent <= MaxCalls /\ sent \in Nat /\ call.op \in Synchronous
          /\ \A k \in Nat : In(cq, k) => k < sent
      BY <1>9 DEF Base, CallInv, Counts, Types, Synchronous
    <3>2. QED
      BY <2>2, <3>1 DEF Base, Types, Ordered
  <2>9. /\ \A k : In(cq', k) <=> In(cq, k) \/ k = call.key
        /\ \A i, k : Holds(cq', i, k) <=> Holds(cq, i, k) \/ (i = id /\ k = call.key)
    BY <2>5, <2>7, <2>8, AppendFacts
  <2>10. Agree'
    <3>1. call'.op # "prepare" /\ sq' = sq /\ c2s' = c2s
      BY <1>1 DEF Idle
    <3>2. QED
      BY <1>5, <1>9, <2>9, <3>1 DEF Agree
  <2>11. Known'
    BY <1>1, <1>5, <2>5, <2>9 DEF Known
  <2>12. QED
    BY <1>7, <2>10, <2>11
<1>10. QED
  BY <1>8, <1>9

\* The other ends of a call, and calls that write nothing or not yet.
LEMMA QuietKeepsLink ==
  ASSUME Base, Served, Link,
         \/ Misread \/ Hangup \/ Interrupted \/ Free \/ NotWritten \/ WriteBlocks
         \/ \E id \in 0..MaxCalls : NotHeld(id)
  PROVE  Link'
<1>1. CASE Misread
  BY <1>1, NeverMisread DEF Misread, Link
<1>2. CASE Hangup
  <2>1. ~up' /\ cut' = cut /\ call' = Idle
    BY <1>2 DEF Hangup, servervars
  <2>2. QED
    BY <2>1 DEF Link, Answering
<1>3. CASE Interrupted
  <2>1. cut' # 0
    BY <1>3, CutShort
  <2>2. QED
    BY <2>1 DEF Link
<1>4. CASE Free \/ WriteBlocks \/ \E id \in 0..MaxCalls : NotHeld(id)
  <2>1. UNCHANGED <<cq, call, cut, c2s, s2c, up, sq>>
    BY <1>4 DEF Free, WriteBlocks, NotHeld, servervars
  <2>2. QED
    BY <2>1 DEF Link, Answering, Agree, Known, Meant
<1>5. CASE NotWritten
  <2>1. ~up' /\ UNCHANGED <<call, cut, c2s, s2c, sq>>
    BY <1>5 DEF NotWritten, servervars
  <2>2. QED
    BY <2>1 DEF Link, Answering
<1>6. QED
  BY <1>1, <1>2, <1>3, <1>4, <1>5

\* The statement that the first request finds.
LEMMA HeadMeant ==
  ASSUME Base, Link, up, cut = 0, c2s # <<>>, Head(c2s).op \in Naming
  PROVE  LET p == Find(sq, Head(c2s).id) IN
         p # 0 /\ p \in 1..Len(sq) /\ sq[p].key = Head(c2s).key /\ In(sq, Head(c2s).key)
<1> DEFINE r == Head(c2s)
           p == Find(sq, r.id)
<1>1. /\ sq \in Seq(Statement) /\ Len(sq) \in Nat /\ Sorted(sq)
      /\ \A id \in Nat, j \in Nat, k \in Nat : Holds(sq, id, j) /\ Holds(sq, id, k) => j = k
  BY DEF Base, Types, Ordered
<1>2. r = c2s[1] /\ 1 \in 1..Len(c2s) /\ r.id \in Nat /\ r.key \in Nat
  <2>1. c2s \in Seq(Request)
    BY DEF Base, Types
  <2>2. r = c2s[1] /\ 1 \in 1..Len(c2s) /\ r \in Request
    BY <2>1
  <2>3. QED
    BY <2>2 DEF Request
<1> HIDE DEF r
<1>3. /\ Alive(sq, c2s, 1, r.key)
      /\ r.id = 0 => \A k \in Nat : Alive(sq, c2s, 1, k) => k <= r.key
      /\ r.id # 0 => Holds(sq, r.id, r.key)
  BY <1>2 DEF Link, Meant, r
<1>4. \A k : Alive(sq, c2s, 1, k) <=> In(sq, k)
  BY DEF Alive
<1>5. PICK i \in 1..Len(sq) : sq[i].key = r.key
  BY <1>3, <1>4 DEF In
<1>6. /\ p \in 0..Len(sq)
      /\ r.id = 0 => p = Len(sq)
      /\ r.id # 0 /\ p # 0 => sq[p].id = r.id
      /\ r.id # 0 /\ p = 0 => \A j \in 1..Len(sq) : sq[j].id # r.id
  BY <1>1, <1>2, FindFacts
<1> HIDE DEF p
<1>7. CASE r.id = 0
  <2>1. p \in 1..Len(sq) /\ p = Len(sq) /\ i <= p
    BY <1>1, <1>5, <1>6, <1>7
  <2>2. sq[p].key \in Nat /\ In(sq, sq[p].key)
    BY <1>1, <2>1, QueueFacts DEF In
  <2>3. sq[p].key <= r.key
    BY <1>3, <1>4, <1>7, <2>2
  <2>4. i = p \/ r.key < sq[p].key
    BY <1>1, <1>5, <2>1 DEF Sorted
  <2>5. sq[p].key = r.key
    BY <1>2, <1>5, <2>2, <2>3, <2>4
  <2>6. QED
    BY <1>1, <1>3, <1>4, <2>1, <2>5 DEF p, r
<1>8. CASE r.id # 0
  <2>1. PICK j \in 1..Len(sq) : sq[j].id = r.id /\ sq[j].key = r.key
    BY <1>3, <1>8 DEF Holds
  <2>2. p # 0 /\ p \in 1..Len(sq) /\ sq[p].id = r.id
    <3>1. p # 0
      BY <1>6, <1>8, <2>1
    <3>2. QED
      BY <1>1, <1>6, <1>8, <3>1
  <2>3. Holds(sq, r.id, sq[p].key) /\ sq[p].key \in Nat
    <3>1. sq[p].key \in 1..MaxCalls
      BY <1>1, <2>2, QueueFacts
    <3>2. QED
      BY <2>2, <3>1 DEF Holds
  <2>4. sq[p].key = r.key
    BY <1>1, <1>2, <1>3, <1>8, <2>3
  <2>5. QED
    BY <1>3, <1>4, <2>2, <2>4 DEF p, r
<1>9. QED
  BY <1>7, <1>8

\* A handler that does to the server's queue what its request says, and answers
\* the call that waits, keeps the link.
LEMMA HandleKeepsLink ==
  ASSUME Base, Served, Link, NEW ops, Handle(ops), UNCHANGED <<clientvars, up, failing>>,
         \A k \in Nat : In(sq', k) <=> (In(sq, k) \/ Prepares(c2s[1], k)) /\ ~Ends(c2s[1], k),
         c2s[1].op = "final" => c2s[1].key <= handled,
         \A id \in Nat, k \in Nat : Holds(sq, id, k) /\ ~Ends(c2s[1], k) => Holds(sq', id, k),
         c2s[1].op \notin Synchronous => s2c' = s2c,
         c2s[1].op \in Synchronous /\ cut = 0 =>
           \E id \in Nat, key \in Nat : \E size :
             /\ Reply(id, key, size)
             /\ c2s[1].op = "step" => key = c2s[1].key
             /\ c2s[1].op = "prepare" => key = handled + 1 /\ id # 0 /\ Holds(sq', id, key)
  PROVE  Link'
<1> DEFINE n == Len(c2s)
<1>1. /\ up /\ c2s # <<>> /\ n \in Nat /\ n >= 1 /\ 1 \in 1..n
      /\ Head(c2s) = c2s[1] /\ c2s[1].no = handled + 1
      /\ Len(c2s') = n - 1 /\ handled \in Nat
      /\ \A i \in 1..n - 1 : i + 1 \in 1..n /\ c2s'[i] = c2s[i + 1]
  BY HandleFacts DEF Base, Types
<1>2. UNCHANGED <<cq, call, sent, freed, cut, up>>
  BY DEF clientvars
<1>3. SUFFICES ASSUME cut = 0 PROVE Answering' /\ Agree' /\ Known' /\ Meant'
  BY <1>2 DEF Link
<1>4. Agree /\ Known /\ Meant /\ Waiting /\ Fitting
  BY <1>1, <1>3 DEF Link, Served
<1>5. c2s \in Seq(Request) /\ \A i \in 1..n : c2s[i] \in Request /\ c2s[i].key \in Nat /\ c2s[i].id \in Nat
  <2>1. c2s \in Seq(Request) /\ \A i \in 1..n : c2s[i] \in Request
    BY DEF Base, Types
  <2>2. QED
    BY <2>1 DEF Request
<1>6. \A j \in 1..n, k \in Nat : Alive(sq', c2s', j, k) <=> Alive(sq, c2s, j + 1, k)
  <2>1. Shorter(c2s', c2s, handled, sq', sq)
    BY <1>1 DEF Shorter, Base, RequestsInv
  <2>2. QED
    BY <1>1, <1>5, <2>1, Shift
<1>7. \A j \in 1..n, k \in Nat : Alive(sq, c2s, j + 1, k) => ~Ends(c2s[1], k)
  <2>1. \A j \in 1..n : 1 \in 1..j + 1 - 1
    BY <1>1
  <2>2. QED
    BY <2>1 DEF Alive
<1>8. n \in 1..n
  BY <1>1
<1>9. Agree'
  <2>1. Len(c2s') + 1 = n
    BY <1>1
  <2>2. QED
    BY <1>2, <1>4, <1>6, <1>8, <2>1 DEF Agree
<1>10. Known'
  <2> SUFFICES ASSUME NEW id \in Nat, NEW k \in Nat, id # 0, Holds(cq, id, k)
               PROVE  Holds(sq', id, k)
    BY <1>2 DEF Known
  <2>1. In(cq, k) /\ Holds(sq, id, k)
    <3>1. Holds(sq, id, k)
      BY <1>4 DEF Known
    <3>2. In(cq, k)
      BY DEF In, Holds
    <3>3. QED
      BY <3>1, <3>2
  <2>2. ~Ends(c2s[1], k)
    BY <1>4, <1>7, <1>8, <2>1 DEF Agree
  <2>3. QED
    BY <2>1, <2>2
<1>11. Meant'
  <2> SUFFICES ASSUME NEW j \in 1..n - 1, c2s'[j].op \in Naming
               PROVE  /\ Alive(sq', c2s', j, c2s'[j].key)
                      /\ c2s'[j].id = 0 => \A k \in Nat : Alive(sq', c2s', j, k) => k <= c2s'[j].key
                      /\ c2s'[j].id # 0 => Holds(sq', c2s'[j].id, c2s'[j].key)
    BY <1>1 DEF Meant
  <2>1. j + 1 \in 1..n /\ c2s'[j] = c2s[j + 1] /\ j \in 1..n
    BY <1>1
  <2>2. c2s[j + 1].key \in Nat /\ c2s[j + 1].id \in Nat
    BY <1>5, <2>1
  <2>3. /\ Alive(sq, c2s, j + 1, c2s[j + 1].key)
        /\ c2s[j + 1].id = 0 => \A k \in Nat : Alive(sq, c2s, j + 1, k) => k <= c2s[j + 1].key
        /\ c2s[j + 1].id # 0 => Holds(sq, c2s[j + 1].id, c2s[j + 1].key)
    BY <1>4, <2>1 DEF Meant
  <2>4. ~Ends(c2s[1], c2s[j + 1].key)
    BY <1>7, <2>1, <2>2, <2>3
  <2>5. c2s[j + 1].id # 0 => Holds(sq', c2s[j + 1].id, c2s[j + 1].key)
    BY <2>2, <2>3, <2>4
  <2>6. QED
    BY <1>6, <2>1, <2>2, <2>3, <2>5
<1>12. s2c = <<>>
  BY <1>1, <1>4 DEF Waiting, Fitting
<1>13. CASE call = Idle \/ s2c' = <<>>
  BY <1>2, <1>9, <1>10, <1>11, <1>13 DEF Answering
<1>14. CASE call # Idle /\ s2c' # <<>>
  <2>1. /\ c2s[n].op = call.op /\ c2s[n].key = call.key
        /\ \A i \in 1..n - 1 : c2s[i].op \notin Synchronous
    BY <1>4, <1>12, <1>14 DEF Waiting
  <2>2. call.op \in Synchronous /\ call.no = sent /\ (call.op = "prepare" => call.key = sent)
    BY <1>14 DEF Base, CallInv
  <2>3. c2s[1].op \in Synchronous
    BY <1>12, <1>14
  <2>4. n = 1
    <3>1. 1 \notin 1..n - 1
      BY <2>1, <2>3
    <3>2. QED
      BY <1>1, <3>1
  <2> DEFINE Sent(id, key, size) ==
          /\ Reply(id, key, size)
          /\ c2s[1].op = "step" => key = c2s[1].key
          /\ c2s[1].op = "prepare" => key = handled + 1 /\ id # 0 /\ Holds(sq', id, key)
  <2>5. PICK id \in Nat, key \in Nat : \E size : Sent(id, key, size)
    BY <1>3, <2>3
  <2>6. PICK size : Sent(id, key, size)
    BY <2>5
  <2>7. sent = handled + 1
    BY <1>1, <2>4 DEF Base, Counts
  <2> DEFINE a == [no |-> handled + 1, id |-> id, key |-> key, size |-> size, left |-> size]
  <2>8. s2c' = <<a>> /\ a.id = id /\ a.key = key
    BY <1>1, <1>12, <2>6 DEF Reply
  <2> HIDE DEF a
  <2>9. s2c'[1] = a
    BY <2>8
  <2>10. call.op \in {"prepare", "step"} => a.key = call.key
    BY <2>1, <2>2, <2>4, <2>6, <2>7, <2>8
  <2>11. call.op = "prepare" => a.id # 0 /\ Holds(sq', a.id, call.key)
    BY <2>1, <2>2, <2>4, <2>6, <2>7, <2>8
  <2>12. Answering'
    BY <1>2, <2>9, <2>10, <2>11 DEF Answering
  <2>13. QED
    BY <1>9, <1>10, <1>11, <2>12
<1>15. QED
  BY <1>13, <1>14

LEMMA HandlersKeepLink ==
  ASSUME Base, Served, Link, OpPrepare \/ OpFinalise \/ OpUse \/ OpLastid \/ OpOther
  PROVE  Link'
<1>1. /\ sq \in Seq(Statement) /\ Sorted(sq) /\ sent \in Nat /\ handled \in Nat /\ lastid \in Nat
      /\ \A k \in Nat : In(sq, k) => k <= handled
      /\ sent <= MaxCalls /\ MaxCalls \in Nat
  BY Constants DEF Base, Types, Ordered, Counts
<1> DEFINE r == c2s[1]
<1>2. ASSUME OpPrepare PROVE Link'
  <2> DEFINE ops == {"prepare", "prepare_async"}
  <2>1. Handle(ops) /\ UNCHANGED <<clientvars, up, failing>> /\ lastid' = lastid + 1
    BY <1>2 DEF OpPrepare
  <2>2. /\ Head(c2s) = r /\ r.no = handled + 1 /\ handled + 1 <= sent
        /\ r.op \in {"prepare", "prepare_async"}
    BY <2>1, HandleFacts
  <2> HIDE DEF ops
  <2>3. handled + 1 \in 1..MaxCalls /\ lastid + 1 \in Nat /\ handled + 1 \in Nat /\ lastid + 1 # 0
    BY <1>1, <2>2
  <2>4. sq' = Append(sq, [id |-> lastid + 1, key |-> handled + 1])
    BY <1>2, <2>1, <2>2 DEF OpPrepare
  <2>5. \A k \in Nat : In(sq, k) => k < handled + 1
    BY <1>1
  <2>6. /\ \A k : In(sq', k) <=> In(sq, k) \/ k = handled + 1
        /\ \A i, k : Holds(sq', i, k) <=> Holds(sq, i, k) \/ (i = lastid + 1 /\ k = handled + 1)
    BY <1>1, <2>3, <2>4, <2>5, AppendFacts
  <2>7. r.op # "final" /\ r.op # "step" /\ (r.op \in Synchronous <=> r.op = "prepare")
    BY <2>2 DEF Synchronous
  <2>8. IF r.op = "prepare" THEN Reply(lastid + 1, handled + 1, 1) ELSE s2c' = s2c
    BY <1>2, <2>1, <2>2 DEF OpPrepare
  <2> HIDE DEF r
  <2>9. \A k \in Nat : (Prepares(r, k) <=> k = handled + 1) /\ ~Ends(r, k)
    BY <2>2, <2>7 DEF Prepares, Ends
  <2>10. \A k \in Nat : In(sq', k) <=> (In(sq, k) \/ Prepares(r, k)) /\ ~Ends(r, k)
    BY <2>6, <2>9
  <2>11. \A id \in Nat, k \in Nat : Holds(sq, id, k) /\ ~Ends(r, k) => Holds(sq', id, k)
    BY <2>6
  <2>12. r.op \in Synchronous =>
           \E id \in Nat, key \in Nat : \E size :
             /\ Reply(id, key, size)
             /\ r.op = "step" => key = r.key
             /\ r.op = "prepare" => key = handled + 1 /\ id # 0 /\ Holds(sq', id, key)
    <3>1. Holds(sq', lastid + 1, handled + 1)
      BY <2>6
    <3>2. QED
      BY <2>3, <2>7, <2>8, <3>1
  <2>13. QED
    BY <2>1, <2>7, <2>8, <2>10, <2>11, <2>12, HandleKeepsLink DEF r
<1>3. ASSUME OpFinalise PROVE Link'
  <2> DEFINE p == Find(sq, Head(c2s).id)
  <2>1. /\ Handle({"final"}) /\ p # 0 /\ sq' = RemoveAt(sq, p)
        /\ UNCHANGED <<clientvars, up, failing>> /\ s2c' = s2c /\ cut' = cut /\ up
    BY <1>3 DEF OpFinalise, Handle, clientvars
  <2>2. CASE cut # 0
    BY <2>1, <2>2 DEF Link
  <2>3. CASE cut = 0
    <3>1. Head(c2s) = r /\ r.op = "final" /\ c2s # <<>>
      BY <2>1, HandleFacts
    <3>2. p \in 1..Len(sq) /\ sq[p].key = r.key /\ sq[p].key \in Nat /\ sq[p].key <= handled
      BY <2>1, <2>3, <3>1, HeadMeant, FoundFacts DEF Naming
    <3>3. /\ \A k : In(sq', k) <=> In(sq, k) /\ k # r.key
          /\ \A i, k : Holds(sq', i, k) <=> Holds(sq, i, k) /\ k # r.key
      BY <1>1, <2>1, <3>2, RemoveFacts
    <3> HIDE DEF p, r
    <3>4. \A k : (Ends(r, k) <=> k = r.key) /\ ~Prepares(r, k)
      BY <3>1 DEF Ends, Prepares
    <3>5. r.op \notin Synchronous /\ r.key <= handled
      BY <3>1, <3>2 DEF Synchronous
    <3>6. \A k \in Nat : In(sq', k) <=> (In(sq, k) \/ Prepares(r, k)) /\ ~Ends(r, k)
      BY <3>3, <3>4
    <3>7. \A id \in Nat, k \in Nat : Holds(sq, id, k) /\ ~Ends(r, k) => Holds(sq', id, k)
      BY <3>3, <3>4
    <3>8. QED
      BY <2>1, <3>5, <3>6, <3>7, HandleKeepsLink DEF r
  <2>4. QED
    BY <2>2, <2>3
<1>4. ASSUME OpUse PROVE Link'
  <2> DEFINE p == Find(sq, Head(c2s).id)
  <2>1. /\ Handle({"rebind", "step"}) /\ p # 0 /\ sq' = sq
        /\ UNCHANGED <<clientvars, up, failing>> /\ cut' = cut /\ up
        /\ IF Head(c2s).op = "step" THEN \E size : Reply(0, sq[p].key, size) ELSE s2c' = s2c
    BY <1>4 DEF OpUse, Handle, clientvars
  <2>2. CASE cut # 0
    BY <2>1, <2>2 DEF Link
  <2>3. CASE cut = 0
    <3>1. Head(c2s) = r /\ r.op \in {"rebind", "step"} /\ c2s # <<>>
      BY <2>1, HandleFacts
    <3>2. sq[p].key = r.key /\ sq[p].key \in Nat
      BY <2>1, <2>3, <3>1, HeadMeant, FoundFacts DEF Naming
    <3> HIDE DEF p, r
    <3>3. /\ \A k : ~Ends(r, k) /\ ~Prepares(r, k)
          /\ r.op # "final" /\ r.op # "prepare" /\ (r.op \in Synchronous <=> r.op = "step")
      BY <3>1 DEF Ends, Prepares, Synchronous
    <3>4. r.op \in Synchronous =>
            \E id \in Nat, key \in Nat : \E size :
              /\ Reply(id, key, size)
              /\ r.op = "step" => key = r.key
              /\ r.op = "prepare" => key = handled + 1 /\ id # 0 /\ Holds(sq', id, key)
      <4>1. r.op = "step" => (\E size : Reply(0, r.key, size)) /\ r.key \in Nat /\ 0 \in Nat
        BY <2>1, <3>1, <3>2
      <4>2. QED
        BY <3>3, <4>1
    <3>5. r.op \notin Synchronous => s2c' = s2c
      BY <2>1, <3>1, <3>3
    <3>6. QED
      BY <2>1, <3>3, <3>4, <3>5, HandleKeepsLink DEF r
  <2>4. QED
    BY <2>2, <2>3
<1>5. ASSUME OpLastid \/ OpOther PROVE Link'
  <2>1. /\ Handle({"lastid", "ask", "tell"}) /\ sq' = sq /\ UNCHANGED <<clientvars, up, failing>>
        /\ Head(c2s).op = "tell" => s2c' = s2c
        /\ Head(c2s).op # "tell" => \E id \in Nat : \E size : Reply(id, 0, size)
    <3>1. CASE OpLastid
      <4>1. 0 \in Nat
        OBVIOUS
      <4>2. QED
        BY <3>1, <4>1 DEF OpLastid, Handle
    <3>2. CASE OpOther
      <4>1. {lastid'} \cup {k \in {0, 1} : lastid' = lastid} \subseteq Nat
        BY <1>1, <3>2 DEF OpOther
      <4>2. QED
        BY <3>2, <4>1 DEF OpOther, Handle
    <3>3. QED
      BY <1>5, <3>1, <3>2
  <2>2. Head(c2s) = r /\ r.op \in {"lastid", "ask", "tell"}
    BY <2>1, HandleFacts
  <2> HIDE DEF r
  <2>3. /\ \A k : ~Ends(r, k) /\ ~Prepares(r, k)
        /\ r.op # "final" /\ r.op # "prepare" /\ r.op # "step"
        /\ (r.op \in Synchronous <=> r.op # "tell")
    BY <2>2 DEF Ends, Prepares, Synchronous
  <2>4. r.op \in Synchronous =>
          \E id \in Nat, key \in Nat : \E size :
            /\ Reply(id, key, size)
            /\ r.op = "step" => key = r.key
            /\ r.op = "prepare" => key = handled + 1 /\ id # 0 /\ Holds(sq', id, key)
    <3>1. r.op # "tell" => (\E id \in Nat : \E size : Reply(id, 0, size)) /\ 0 \in Nat
      BY <2>1, <2>2
    <3>2. QED
      BY <2>3, <3>1
  <2>5. r.op \notin Synchronous => s2c' = s2c
    BY <2>1, <2>2, <2>3
  <2>6. QED
    BY <2>1, <2>3, <2>4, <2>5, HandleKeepsLink DEF r
<1>6. QED
  BY <1>2, <1>3, <1>4, <1>5

LEMMA StopKeepsLink ==
  ASSUME Link, EndOfFile \/ Die \/ OpNotFound \/ OpNotWritten
  PROVE  Link'
<1>1. ~up' /\ c2s' = <<>> /\ UNCHANGED <<call, cut, s2c, sq>>
  BY DEF EndOfFile, Die, OpNotFound, OpNotWritten, Stop, clientvars
<1>2. QED
  BY <1>1 DEF Link, Answering

LEMMA StepKeepsLink ==
  ASSUME lastid < Wire, Base, Served, Link, [Next]_vars
  PROVE  Link'
<1>1. CASE Client
  BY <1>1, CallsKeepLink, AnsweredKeepsLink, QuietKeepsLink DEF Client, Reads
<1>2. CASE Server \/ Die
  BY <1>2, HandlersKeepLink, StopKeepsLink DEF Server
<1>3. CASE UNCHANGED vars
  BY <1>3 DEF vars, clientvars, servervars, Link, Agree, Known, Meant, Answering
<1>4. CASE Over
  BY <1>3, <1>4 DEF Over
<1>5. QED
  BY <1>1, <1>2, <1>3, <1>4 DEF Next

\* No identifier is given twice.
LEMMA LastidGrows ==
  ASSUME Base, [Next]_vars
  PROVE  lastid' \in {lastid, lastid + 1}
<1>1. CASE Client
  BY <1>1 DEF Client, Writes, Prepare, PrepareAsync, Finalise, Use, Other, WriteBlocks, NotHeld,
              NotWritten, Reads, Answered, Misread, Hangup, Interrupted, Free, servervars
<1>2. CASE Server \/ Die
  BY <1>2 DEF Server, Die, OpPrepare, OpFinalise, OpUse, OpLastid, OpOther, OpNotFound,
              OpNotWritten, EndOfFile, Stop
<1>3. CASE UNCHANGED vars \/ Over
  BY <1>3 DEF Over, vars, servervars
<1>4. QED
  BY <1>1, <1>2, <1>3 DEF Next

\* As long as the identifiers given fit on the wire.
Linked == lastid < Wire => Link

LEMMA AlwaysLink == Spec => [](Base /\ Served /\ Linked)
<1>1. Init => Linked
  BY InitLink DEF Linked
<1>2. ASSUME Base, Served, Linked, [Next]_vars PROVE Linked'
  <2> SUFFICES ASSUME lastid' < Wire PROVE Link'
    BY DEF Linked
  <2>1. lastid < Wire
    <3>1. lastid \in Nat /\ Wire \in Nat /\ lastid' \in {lastid, lastid + 1}
      BY <1>2, LastidGrows, Constants DEF Base, Types
    <3>2. QED
      BY <3>1
  <2>2. QED
    BY <1>2, <2>1, StepKeepsLink DEF Linked
<1>3. Base /\ Served /\ Linked /\ [Next]_vars => Linked'
  BY <1>2
<1>4. QED
  BY <1>1, <1>3, AlwaysServed, PTL DEF Spec

\* A request finds the statement that its caller meant, whatever is handled
\* between the call and the request, until a call is cut short and for as many
\* calls as the identifiers on the wire can tell apart.
THEOREM FindsTheSameStatement == Spec => []SameStatement
<1>1. Base /\ Linked => SameStatement
  BY HeadMeant DEF Linked, SameStatement, Sound, Naming
<1>2. QED
  BY <1>1, AlwaysLink, PTL

\* With nothing under way the two queues hold the same statements in the same
\* order, and the client's identifiers are the server's, for as long.
THEOREM KeepsTheQueuesAlike == Spec => []QueuesMirror
<1>1. ASSUME Base, Link, up, cut = 0, c2s = <<>>, call = Idle
      PROVE  /\ Len(cq) = Len(sq)
             /\ \A i \in DOMAIN cq : cq[i].key = sq[i].key /\ cq[i].id \in {0, sq[i].id}
  <2>1. /\ cq \in Seq(Statement) /\ sq \in Seq(Statement) /\ Sorted(cq) /\ Sorted(sq)
        /\ Len(cq) \in Nat /\ Len(sq) \in Nat /\ DOMAIN cq = 1..Len(cq)
    BY <1>1 DEF Base, Types, Ordered
  <2>2. Agree /\ Known
    BY <1>1 DEF Link
  <2>3. \A k \in Nat : In(cq, k) <=> In(sq, k)
    <3>1. Len(c2s) = 0 /\ call.op # "prepare" /\ 1..0 + 1 - 1 = {}
      BY <1>1 DEF Idle
    <3>2. \A k \in Nat : Alive(sq, c2s, Len(c2s) + 1, k) <=> In(sq, k)
      BY <3>1 DEF Alive
    <3>3. QED
      BY <2>2, <3>1, <3>2 DEF Agree
  <2>4. Len(cq) = Len(sq) /\ \A i \in 1..Len(cq) : cq[i].key = sq[i].key
    BY <2>1, <2>3, SameKeys
  <2>5. ASSUME NEW i \in 1..Len(cq), cq[i].id # 0 PROVE cq[i].id = sq[i].id
    <3>1. cq[i].id \in Nat /\ cq[i].key \in Nat
      BY <2>1, QueueFacts
    <3>2. Holds(cq, cq[i].id, cq[i].key)
      BY DEF Holds
    <3>3. Holds(sq, cq[i].id, cq[i].key)
      BY <2>2, <2>5, <3>1, <3>2 DEF Known
    <3>4. PICK j \in 1..Len(sq) : sq[j].id = cq[i].id /\ sq[j].key = cq[i].key
      BY <3>3 DEF Holds
    <3>5. i \in 1..Len(sq) /\ sq[i].key = cq[i].key
      BY <2>4
    <3>6. ~(i < j) /\ ~(j < i)
      BY <2>1, <3>1, <3>4, <3>5 DEF Sorted
    <3>7. i = j
      BY <2>1, <3>6
    <3>8. QED
      BY <3>4, <3>7
  <2>6. QED
    BY <2>1, <2>4, <2>5
<1>2. Base /\ Linked => QueuesMirror
  BY <1>1 DEF Linked, QueuesMirror, Sound
<1>3. QED
  BY <1>2, AlwaysLink, PTL

\* The answer a call reads is that to its own request, at the length it reads, a
\* step's from the statement that was meant, for as long.
THEOREM AnswersTheCall == Spec => []AnswerIsMine
<1>1. ASSUME Base, Served, Link, cut = 0, call # Idle, Readable
      PROVE  /\ Head(s2c).no = call.no /\ Fits
             /\ call.op \in {"prepare", "step"} => Head(s2c).key = call.key
  <2>1. s2c # <<>> /\ Head(s2c) = s2c[1] /\ s2c[1].no = call.no /\ Fits
    BY <1>1, OwnAnswer DEF Readable
  <2>2. QED
    BY <1>1, <2>1 DEF Link, Answering
<1>2. Base /\ Served /\ Linked => AnswerIsMine
  BY <1>1 DEF Linked, AnswerIsMine, Sound
<1>3. QED
  BY <1>2, AlwaysLink, PTL

-----------------------------------------------------------------------------
(* The server's end. *)

\* The requests in the pipe become fewer, or the server is gone.
RunsOut == ~up' \/ Len(c2s') < Len(c2s)

\* Every step of the server takes a request or ends it, and after sqlbox_free there
\* are no others: what is in the pipe is all that the server has yet to do, whatever
\* was unanswered or held when the box was freed (main.c, sqlbox_main_loop).  This is
\* the part of ServerEnds that is safety.
THEOREM NothingToDoAfterFree ==
  Spec => [][(Server => RunsOut) /\ (freed /\ up => freed' /\ RunsOut)]_vars
<1> DEFINE Quiet == freed => call = Idle
<1>1. Init => Quiet
  BY DEF Init
<1>2. Quiet /\ [Next]_vars => Quiet'
  <2> SUFFICES ASSUME Quiet, [Next]_vars, freed' PROVE call' = Idle
    OBVIOUS
  <2>1. CASE UNCHANGED <<call, freed>>
    BY <2>1
  <2>2. CASE UNCHANGED vars \/ Over \/ Server \/ Die
    <3>1. UNCHANGED <<call, freed>>
      BY <2>2 DEF vars, clientvars, Over, Server, Die, Stop, EndOfFile, OpNotFound, OpNotWritten,
         OpPrepare, OpFinalise, OpUse, OpLastid, OpOther
    <3>2. QED
      BY <2>1, <3>1
  <2>3. CASE Client
    BY <2>1, <2>3 DEF Client, Calling, Writes, Prepare, PrepareAsync, Finalise, Use, Other,
       WriteBlocks, NotHeld, NotWritten, Reads, Answered, Misread, Hangup, Interrupted, Free
  <2>4. QED
    BY <2>2, <2>3 DEF Next
<1>3. ASSUME Base, Server
      PROVE  RunsOut
  <2>1. CASE EndOfFile \/ OpNotFound \/ OpNotWritten
    BY <2>1 DEF EndOfFile, OpNotFound, OpNotWritten, Stop, RunsOut
  <2>2. CASE OpPrepare \/ OpFinalise \/ OpUse \/ OpLastid \/ OpOther
    <3>1. c2s # <<>> /\ c2s' = Tail(c2s) /\ c2s \in Seq(Request)
      BY <1>3, <2>2 DEF OpPrepare, OpFinalise, OpUse, OpLastid, OpOther, Handle, Base, Types
    <3>2. Len(c2s') = Len(c2s) - 1 /\ Len(c2s) \in Nat
      BY <3>1
    <3>3. QED
      BY <3>2 DEF RunsOut
  <2>3. QED
    BY <1>3, <2>1, <2>2 DEF Server
<1>4. ASSUME Base, Quiet, Next, freed, up
      PROVE  freed' /\ RunsOut
  <2>1. call = Idle /\ ~Client
    BY <1>4 DEF Client, Calling, Writes, Prepare, PrepareAsync, Finalise, Use, Other,
       WriteBlocks, NotHeld, NotWritten, Reads, Answered, Misread, Hangup, Interrupted, Free
  <2>2. ~Over
    BY <1>4 DEF Over
  <2>3. CASE Server
    <3>1. freed' = freed
      BY <2>3 DEF clientvars, Server, Stop, EndOfFile, OpNotFound, OpNotWritten,
         OpPrepare, OpFinalise, OpUse, OpLastid, OpOther
    <3>2. QED
      BY <1>3, <1>4, <2>3, <3>1
  <2>4. CASE Die
    BY <1>4, <2>4 DEF Die, Stop, clientvars, RunsOut
  <2>5. QED
    BY <1>4, <2>1, <2>2, <2>3, <2>4 DEF Next
<1>5. Base /\ Quiet /\ [Next]_vars =>
        [(Server => RunsOut) /\ (freed /\ up => freed' /\ RunsOut)]_vars
  BY <1>3, <1>4
<1>6. QED
  BY <1>1, <1>2, <1>5, AlwaysBase, PTL DEF Spec

=============================================================================
