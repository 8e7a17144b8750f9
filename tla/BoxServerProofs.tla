-------------------------- MODULE BoxServerProofs --------------------------
(***************************************************************************)
(* Proofs about BoxServer, for every configuration and every bound.        *)
(***************************************************************************)
EXTENDS BoxServer, SequenceTheorems, TLAPS

\* A queue in the order in which its members were created.
Increasing(q) == \A i, j \in DOMAIN q : i < j => q[i] < q[j]

\* The identifiers in a queue have all been handed out.
Spent(q) == \A x \in ToSet(q) : x <= lastid

-----------------------------------------------------------------------------
(* The queues. *)

\* Looking an identifier up finds members of the queue only.
LEMMA LookupMember ==
  ASSUME NEW q \in Seq(Ids), NEW id, NEW x \in Lookup(q, id)
  PROVE  x \in ToSet(q) /\ x \in Ids
<1>1. DOMAIN q = 1..Len(q) /\ Len(q) \in Nat
  BY LenProperties
<1>2. CASE id = 0
  <2>1. PICK i \in {Len(q)} \cap DOMAIN q : x = q[i]
    BY <1>2 DEF Lookup
  <2>2. QED
    BY <1>1, <2>1, ElementOfSeq DEF ToSet
<1>3. CASE id # 0
  BY <1>1, <1>3, ElementOfSeq DEF Lookup, ToSet
<1>4. QED
  BY <1>2, <1>3

\* The members of a queue are identifiers.
LEMMA MemberIsId ==
  ASSUME NEW q \in Seq(Ids)
  PROVE  ToSet(q) \subseteq Ids
BY LenProperties, ElementOfSeq DEF ToSet

\* Inserting a new identifier at the tail.
LEMMA AppendMember ==
  ASSUME NEW q \in Seq(Ids), NEW e \in Ids, Increasing(q),
         \A x \in ToSet(q) : x < e
  PROVE  /\ Append(q, e) \in Seq(Ids)
         /\ Increasing(Append(q, e))
         /\ ToSet(Append(q, e)) = ToSet(q) \cup {e}
<1> DEFINE r == Append(q, e)
<1>1. /\ r \in Seq(Ids) /\ Len(r) = Len(q) + 1 /\ Len(q) \in Nat
      /\ \A i \in 1..Len(q) : r[i] = q[i]
      /\ r[Len(q) + 1] = e
  BY AppendProperties, LenProperties
<1>2. DOMAIN r = 1..Len(q) + 1 /\ DOMAIN q = 1..Len(q)
  BY <1>1, LenProperties
<1> HIDE DEF r
<1>3. Increasing(r)
  <2> SUFFICES ASSUME NEW i \in 1..Len(q) + 1, NEW j \in 1..Len(q) + 1, i < j
               PROVE  r[i] < r[j]
    BY <1>2 DEF Increasing
  <2>1. i \in 1..Len(q) /\ r[i] = q[i] /\ q[i] \in ToSet(q)
    BY <1>1, <1>2 DEF ToSet
  <2>2. CASE j = Len(q) + 1
    BY <1>1, <2>1, <2>2
  <2>3. CASE j \in 1..Len(q)
    BY <1>1, <1>2, <2>1, <2>3 DEF Increasing
  <2>4. QED
    BY <1>1, <2>2, <2>3
<1>4. ToSet(r) = ToSet(q) \cup {e}
  <2>1. ToSet(r) \subseteq ToSet(q) \cup {e}
    BY <1>1, <1>2 DEF ToSet
  <2>2. ToSet(q) \subseteq ToSet(r)
    BY <1>1, <1>2 DEF ToSet
  <2>3. e \in ToSet(r)
    BY <1>1, <1>2 DEF ToSet
  <2>4. QED
    BY <2>1, <2>2, <2>3
<1>5. QED
  BY <1>1, <1>3, <1>4 DEF r

\* Removing the member at position k.
LEMMA RemoveAtElements ==
  ASSUME NEW q \in Seq(Ids), NEW k \in 1..Len(q)
  PROVE  /\ RemoveAt(q, k) \in Seq(Ids)
         /\ Len(RemoveAt(q, k)) = Len(q) - 1
         /\ \A i \in 1..Len(q) - 1 :
              RemoveAt(q, k)[i] = IF i < k THEN q[i] ELSE q[i + 1]
<1> DEFINE s1 == SubSeq(q, 1, k - 1)
           s2 == SubSeq(q, k + 1, Len(q))
<1>1. Len(q) \in Nat /\ k \in Nat /\ 1 <= k /\ k <= Len(q)
  BY LenProperties
<1>2. \A i \in 1..Len(q) : q[i] \in Ids
  BY ElementOfSeq
<1>3. /\ s1 \in Seq(Ids) /\ Len(s1) = k - 1
      /\ \A i \in 1..k - 1 : s1[i] = q[i]
  <2>1. \A i \in 1..k - 1 : q[i] \in Ids
    BY <1>1, <1>2
  <2>2. QED
    BY <1>1, <2>1, SubSeqProperties
<1>4. /\ s2 \in Seq(Ids)
      /\ Len(s2) = IF k + 1 <= Len(q) THEN Len(q) - (k + 1) + 1 ELSE 0
      /\ \A i \in 1..Len(q) - (k + 1) + 1 : s2[i] = q[(k + 1) + i - 1]
  <2>1. \A i \in k + 1..Len(q) : q[i] \in Ids
    BY <1>1, <1>2
  <2>2. k + 1 \in Int /\ Len(q) \in Int
    BY <1>1
  <2>3. QED
    BY <2>1, <2>2, SubSeqProperties
<1> HIDE DEF s1, s2
<1>5. Len(s2) = Len(q) - k
  BY <1>1, <1>4
<1>6. /\ s1 \o s2 \in Seq(Ids)
      /\ Len(s1 \o s2) = Len(s1) + Len(s2)
      /\ \A i \in 1..Len(s1) + Len(s2) :
           (s1 \o s2)[i] = IF i <= Len(s1) THEN s1[i] ELSE s2[i - Len(s1)]
  BY <1>3, <1>4, ConcatProperties
<1>7. Len(s1) + Len(s2) = Len(q) - 1
  BY <1>1, <1>3, <1>5
<1>8. ASSUME NEW i \in 1..Len(q) - 1
      PROVE  (s1 \o s2)[i] = IF i < k THEN q[i] ELSE q[i + 1]
  <2>1. CASE i < k
    <3>1. i \in 1..k - 1 /\ i <= Len(s1) /\ i \in 1..Len(s1) + Len(s2)
      BY <1>1, <1>3, <1>7, <2>1
    <3>2. QED
      BY <1>3, <1>6, <2>1, <3>1
  <2>2. CASE ~(i < k)
    <3>1. i - Len(s1) \in 1..Len(q) - (k + 1) + 1
      BY <1>1, <1>3, <2>2
    <3>2. (k + 1) + (i - Len(s1)) - 1 = i + 1
      BY <1>1, <1>3
    <3>3. (s1 \o s2)[i] = s2[i - Len(s1)]
      BY <1>1, <1>3, <1>6, <1>7, <2>2
    <3>4. s2[i - Len(s1)] = q[(k + 1) + (i - Len(s1)) - 1]
      BY <1>4, <3>1
    <3>5. QED
      BY <2>2, <3>2, <3>3, <3>4
  <2>3. QED
    BY <2>1, <2>2
<1>9. RemoveAt(q, k) = s1 \o s2
  BY DEF RemoveAt, s1, s2
<1>10. QED
  BY <1>6, <1>7, <1>8, <1>9

\* Unlinking a member removes it and nothing else, and keeps the order.
LEMMA UnlinkMember ==
  ASSUME NEW q \in Seq(Ids), Increasing(q), NEW x \in ToSet(q)
  PROVE  /\ Unlink(q, x) \in Seq(Ids)
         /\ Increasing(Unlink(q, x))
         /\ ToSet(Unlink(q, x)) = ToSet(q) \ {x}
<1>1. Len(q) \in Nat /\ DOMAIN q = 1..Len(q)
  BY LenProperties
<1>2. \A i \in 1..Len(q) : q[i] \in Nat
  <2>1. \A i \in 1..Len(q) : q[i] \in Ids
    BY ElementOfSeq
  <2>2. QED
    BY <2>1, ModelAssumption DEF Ids
<1>3. PICK k \in 1..Len(q) : q[k] = x /\ Unlink(q, x) = RemoveAt(q, k)
  BY <1>1 DEF ToSet, Unlink
<1> DEFINE r == Unlink(q, x)
<1>4. /\ r \in Seq(Ids) /\ Len(r) = Len(q) - 1
      /\ \A i \in 1..Len(q) - 1 : r[i] = IF i < k THEN q[i] ELSE q[i + 1]
  BY <1>3, RemoveAtElements
<1> HIDE DEF r
<1>5. DOMAIN r = 1..Len(q) - 1
  BY <1>4, LenProperties
<1>6. \A i, j \in 1..Len(q) : i < j => q[i] < q[j]
  BY <1>1 DEF Increasing
<1>7. Increasing(r)
  <2> SUFFICES ASSUME NEW i \in 1..Len(q) - 1, NEW j \in 1..Len(q) - 1, i < j
               PROVE  r[i] < r[j]
    BY <1>5 DEF Increasing
  <2>1. /\ i \in 1..Len(q) /\ i + 1 \in 1..Len(q)
        /\ j \in 1..Len(q) /\ j + 1 \in 1..Len(q)
        /\ i < j + 1 /\ i + 1 < j + 1
    BY <1>1
  <2>2. q[i] < q[j] /\ q[i] < q[j + 1] /\ q[i + 1] < q[j + 1]
    BY <1>6, <2>1
  <2>3. CASE i < k
    BY <1>4, <2>2, <2>3
  <2>4. CASE ~(i < k)
    <3>1. ~(j < k)
      BY <1>1, <2>4
    <3>2. QED
      BY <1>4, <2>2, <2>4, <3>1
  <2>5. QED
    BY <2>3, <2>4
<1>8. ToSet(r) = ToSet(q) \ {x}
  <2>1. ASSUME NEW i \in 1..Len(q) - 1
        PROVE  r[i] \in ToSet(q) \ {x}
    <3>1. i \in 1..Len(q) /\ i + 1 \in 1..Len(q) /\ i \in Nat /\ k \in Nat
      BY <1>1
    <3>2. CASE i < k
      <4>1. r[i] = q[i] /\ q[i] < q[k]
        BY <1>4, <1>6, <3>1, <3>2
      <4>2. QED
        BY <1>1, <1>2, <1>3, <3>1, <4>1 DEF ToSet
    <3>3. CASE ~(i < k)
      <4>1. k < i + 1
        BY <3>1, <3>3
      <4>2. r[i] = q[i + 1] /\ q[k] < q[i + 1]
        BY <1>4, <1>6, <3>1, <3>3, <4>1
      <4>3. QED
        BY <1>1, <1>2, <1>3, <3>1, <4>2 DEF ToSet
    <3>4. QED
      BY <3>2, <3>3
  <2>2. ASSUME NEW i \in 1..Len(q), i # k
        PROVE  q[i] \in ToSet(r)
    <3>1. CASE i < k
      <4>1. i \in 1..Len(q) - 1
        BY <1>1, <3>1
      <4>2. QED
        BY <1>4, <1>5, <3>1, <4>1 DEF ToSet
    <3>2. CASE i > k
      <4>1. i - 1 \in 1..Len(q) - 1 /\ ~(i - 1 < k) /\ (i - 1) + 1 = i
        BY <1>1, <3>2
      <4>2. r[i - 1] = q[i]
        BY <1>4, <4>1
      <4>3. QED
        BY <1>5, <4>1, <4>2 DEF ToSet
    <3>3. QED
      BY <1>1, <2>2, <3>1, <3>2
  <2>3. QED
    BY <1>1, <1>3, <1>5, <2>1, <2>2 DEF ToSet
<1>9. QED
  BY <1>4, <1>7, <1>8 DEF r

\* Removing the head.
LEMMA TailMember ==
  ASSUME NEW q \in Seq(Ids), Increasing(q), q # <<>>
  PROVE  /\ Tail(q) \in Seq(Ids)
         /\ Increasing(Tail(q))
         /\ Head(q) \in ToSet(q)
         /\ ToSet(Tail(q)) = ToSet(q) \ {Head(q)}
<1>1. /\ Len(q) \in Nat \ {0} /\ DOMAIN q = 1..Len(q)
      /\ \A i \in 1..Len(q) : q[i] \in Ids
  BY LenProperties, ElementOfSeq, EmptySeq
<1>2. /\ Tail(q) \in Seq(Ids) /\ Len(Tail(q)) = Len(q) - 1
      /\ DOMAIN Tail(q) = 1..Len(q) - 1
      /\ \A i \in 1..Len(q) - 1 : Tail(q)[i] = q[i + 1]
  BY <1>1, HeadTailProperties, LenProperties
<1>3. Head(q) = q[1]
  BY <1>1
<1>4. Increasing(Tail(q))
  BY <1>1, <1>2 DEF Increasing
<1>5. Head(q) \in ToSet(q)
  BY <1>1, <1>3 DEF ToSet
<1>6. ToSet(Tail(q)) = ToSet(q) \ {Head(q)}
  <2>1. ASSUME NEW i \in 1..Len(q) - 1
        PROVE  Tail(q)[i] \in ToSet(q) \ {Head(q)}
    BY <1>1, <1>2, <1>3 DEF ToSet, Increasing, Ids
  <2>2. ASSUME NEW i \in 1..Len(q), i # 1
        PROVE  q[i] \in ToSet(Tail(q))
    <3>1. i - 1 \in 1..Len(q) - 1 /\ Tail(q)[i - 1] = q[i]
      BY <1>1, <1>2, <2>2
    <3>2. QED
      BY <1>2, <3>1 DEF ToSet
  <2>3. QED
    BY <1>1, <1>2, <1>3, <2>1, <2>2 DEF ToSet
<1>7. QED
  BY <1>2, <1>4, <1>5, <1>6

\* The empty queue.
LEMMA EmptyMember ==
  /\ <<>> \in Seq(Ids)
  /\ Increasing(<<>>)
  /\ ToSet(<<>>) = {}
BY DEF Increasing, ToSet

-----------------------------------------------------------------------------
(* The inductive invariant. *)

QueueOrder ==
  /\ Increasing(dbq) /\ Spent(dbq)
  /\ Increasing(stmtq) /\ Spent(stmtq)

\* Types, order of the queues, agreement of the two lists of statements,
\* ownership of what SQLite holds, and transactions known by name; an exited
\* process has no database left.
IInv ==
  /\ TypeOK
  /\ QueueOrder
  /\ QueuesAgree
  /\ HandlesOwned
  /\ NoHiddenTransaction
  /\ phase = "exited" => dbq = <<>>

\* The structures the code allocates and frees are of their types.
LEMMA Structures ==
  /\ FreedDb \in DbType
  /\ FreedStmt \in StmtType
  /\ \A i \in Sources : [FreedDb EXCEPT !.idx = i] \in DbType
BY ModelAssumption DEF FreedDb, FreedStmt, DbType, StmtType, Results

\* A fresh box satisfies the invariant.
LEMMA InitIInv == Init => IInv
<1> SUFFICES ASSUME Init PROVE IInv
  OBVIOUS
<1>1. TypeOK
  BY Structures, EmptyMember, ModelAssumption DEF Init, TypeOK
<1>2. QueueOrder
  BY EmptyMember DEF Init, QueueOrder, Spent
<1>3. QueuesAgree /\ HandlesOwned /\ NoHiddenTransaction
  BY EmptyMember DEF Init, QueuesAgree, HandlesOwned, NoHiddenTransaction
<1>4. QED
  BY <1>1, <1>2, <1>3 DEF IInv, Init

\* A request that fails at once leaves everything but the phase.
LEMMA FailIInv == IInv /\ Fail => IInv'
BY DEF IInv, Fail, Stop, boxvars, sqlvars, TypeOK, QueueOrder, Spent,
       QueuesAgree, HandlesOwned, NoHiddenTransaction, Idle

\* Releasing one statement takes it out of everything that names it.
LEMMA ReleaseIInv ==
  ASSUME IInv, NEW s \in ToSet(stmtq), Release(s),
         UNCHANGED <<role, lastid, dbq, conn>>,
         phase' \in {"serve", "clear"}
  PROVE  IInv'
<1>1. /\ stmtq' \in Seq(Ids) /\ Increasing(stmtq')
      /\ ToSet(stmtq') = ToSet(stmtq) \ {s}
  BY UnlinkMember DEF IInv, TypeOK, QueueOrder, Release
<1>2. s \in Ids /\ stmt[s].db \in ToSet(dbq) /\ stmt[s].db \in Ids
  BY MemberIsId DEF IInv, TypeOK, QueuesAgree
<1>3. TypeOK'
  <2>1. db' \in [Ids -> DbType]
    BY <1>2 DEF IInv, TypeOK, Release, DbType
  <2>2. stmt' \in [Ids -> StmtType]
    BY Structures DEF IInv, TypeOK, Release
  <2>3. 0 \in 0..MaxId
    BY ModelAssumption
  <2>4. handle' \in [Ids -> 0..MaxId]
    BY <2>3 DEF IInv, TypeOK, Release
  <2>5. QED
    BY <1>1, <2>1, <2>2, <2>4 DEF IInv, TypeOK
<1>4. QueueOrder'
  BY <1>1 DEF IInv, QueueOrder, Spent
<1>5. QueuesAgree'
  <2>1. \A d \in ToSet(dbq) : db'[d].stmtq = db[d].stmtq \ {s}
    BY <1>2, MemberIsId DEF IInv, TypeOK, Release, QueuesAgree, DbType
  <2>2. \A t \in ToSet(stmtq') : stmt'[t] = stmt[t]
    BY <1>1, MemberIsId DEF IInv, TypeOK, Release
  <2>3. QED
    BY <1>1, <2>1, <2>2 DEF IInv, QueuesAgree
<1>6. HandlesOwned'
  BY <1>1, <1>2 DEF IInv, HandlesOwned, TypeOK, Release
<1>7. NoHiddenTransaction'
  <2>1. \A d \in Ids : db'[d].trans = db[d].trans
    BY DEF IInv, TypeOK, Release, DbType
  <2>2. QED
    BY <2>1 DEF IInv, NoHiddenTransaction
<1>8. QED
  BY <1>3, <1>4, <1>5, <1>6, <1>7 DEF IInv

\* The next identifier is an identifier no queue holds.
LEMMA FreshId ==
  ASSUME IInv, lastid < MaxId
  PROVE  /\ lastid + 1 \in Ids /\ lastid + 1 \in 0..MaxId
         /\ \A x \in ToSet(dbq) : x < lastid + 1
         /\ \A x \in ToSet(stmtq) : x < lastid + 1
<1>1. lastid \in Nat /\ MaxId \in Nat
  BY ModelAssumption DEF IInv, TypeOK
<1>2. lastid + 1 \in Ids /\ lastid + 1 \in 0..MaxId
  BY <1>1 DEF Ids
<1>3. \A x \in ToSet(dbq) \cup ToSet(stmtq) : x \in Nat /\ x <= lastid
  BY <1>1, MemberIsId DEF IInv, TypeOK, QueueOrder, Spent, Ids
<1>4. QED
  BY <1>1, <1>2, <1>3

\* sqlbox_op_open.
LEMMA OpenIInv ==
  ASSUME IInv, NEW i \in Sources \cup {None}, OpOpen(i)
  PROVE  IInv'
<1> DEFINE n == lastid + 1
<1>1. /\ n \in Ids /\ n \in 0..MaxId /\ lastid \in Nat
      /\ \A x \in ToSet(dbq) : x < n
      /\ \A x \in ToSet(stmtq) : x < n
  BY FreshId DEF OpOpen, IInv, TypeOK
<1>2. \A x \in ToSet(dbq) \cup ToSet(stmtq) : x \in Nat /\ x <= lastid /\ x # n
  BY <1>1, MemberIsId, ModelAssumption DEF IInv, TypeOK, QueueOrder, Spent, Ids
<1>3. CASE Fail
  BY <1>3, FailIInv
<1>4. CASE /\ lastid' = n /\ Stop
           /\ UNCHANGED <<role, dbq, stmtq, db, stmt, sqlvars>>
  <2>1. QueueOrder'
    BY <1>1, <1>2, <1>4 DEF IInv, QueueOrder, Spent
  <2>2. QED
    BY <1>1, <1>4, <2>1 DEF IInv, Stop, sqlvars, TypeOK, QueuesAgree,
         HandlesOwned, NoHiddenTransaction
<1>5. CASE /\ i \in Sources
           /\ lastid' = n
           /\ dbq' = Append(dbq, lastid')
           /\ db' = [db EXCEPT ![lastid'] = [FreedDb EXCEPT !.idx = i]]
           /\ conn' = [conn EXCEPT ![lastid'] = "auto"]
           /\ Continue \/ Stop
           /\ UNCHANGED <<role, stmtq, stmt, handle>>
  <2>1. /\ dbq' \in Seq(Ids) /\ Increasing(dbq')
        /\ ToSet(dbq') = ToSet(dbq) \cup {n}
    BY <1>1, <1>5, AppendMember DEF IInv, TypeOK, QueueOrder
  <2>2. phase' \in {"serve", "clear"}
    BY <1>5 DEF Continue, Stop
  <2>3. db'[n].stmtq = {} /\ \A d \in Ids \ {n} : db'[d] = db[d]
    BY <1>1, <1>5 DEF IInv, TypeOK, FreedDb
  <2>4. conn'[n] = "auto" /\ \A d \in Ids \ {n} : conn'[d] = conn[d]
    BY <1>1, <1>5 DEF IInv, TypeOK
  <2>5. TypeOK'
    BY <1>1, <1>5, <2>1, <2>2, Structures DEF IInv, TypeOK
  <2>6. QueueOrder'
    <3>1. Spent(dbq)' /\ Spent(stmtq)'
      BY <1>1, <1>2, <1>5, <2>1 DEF Spent
    <3>2. QED
      BY <1>5, <2>1, <3>1 DEF IInv, QueueOrder
  <2>7. QueuesAgree'
    BY <1>2, <1>5, <2>1, <2>3, MemberIsId DEF IInv, TypeOK, QueuesAgree
  <2>8. HandlesOwned'
    BY <1>1, <1>5, <2>1, <2>4 DEF IInv, HandlesOwned
  <2>9. NoHiddenTransaction'
    BY <1>1, <2>1, <2>3, <2>4 DEF IInv, NoHiddenTransaction
  <2>10. QED
    BY <2>2, <2>5, <2>6, <2>7, <2>8, <2>9 DEF IInv
<1>6. QED
  BY <1>3, <1>4, <1>5 DEF OpOpen

\* Taking a database out of the queue and freeing it, once it is idle: in
\* sqlbox_op_close and in sqlbox_clear.
LEMMA DropDbIInv ==
  ASSUME IInv, NEW d \in ToSet(dbq), db[d].stmtq = {},
         dbq' \in Seq(Ids), Increasing(dbq'),
         ToSet(dbq') = ToSet(dbq) \ {d},
         db' = [db EXCEPT ![d] = FreedDb],
         conn' = [conn EXCEPT ![d] = "none"],
         phase' \in {"serve", "clear"},
         UNCHANGED <<role, lastid, stmtq, stmt, handle>>
  PROVE  IInv'
<1>1. d \in Ids
  BY MemberIsId DEF IInv, TypeOK
<1>2. TypeOK'
  BY <1>1, Structures DEF IInv, TypeOK
<1>3. QueueOrder'
  BY DEF IInv, QueueOrder, Spent
<1>4. \A e \in Ids \ {d} : db'[e] = db[e] /\ conn'[e] = conn[e]
  BY DEF IInv, TypeOK
<1>5. conn'[d] = "none"
  BY <1>1 DEF IInv, TypeOK
<1>6. QueuesAgree'
  BY <1>4, MemberIsId DEF IInv, TypeOK, QueuesAgree
<1>7. HandlesOwned'
  BY <1>1, <1>4, <1>5 DEF IInv, HandlesOwned
<1>8. NoHiddenTransaction'
  BY <1>1, <1>4, <1>5 DEF IInv, NoHiddenTransaction
<1>9. QED
  BY <1>2, <1>3, <1>6, <1>7, <1>8 DEF IInv

\* A database without statements in its queue has none in SQLite either, so
\* sqlite3_close() is not refused.
LEMMA NoStatementsIdle ==
  ASSUME IInv, NEW d \in ToSet(dbq), db[d].stmtq = {}
  PROVE  Idle(d)
<1>1. d \in Ids /\ d # 0
  BY MemberIsId, ModelAssumption DEF IInv, TypeOK, Ids
<1>2. QED
  BY <1>1 DEF IInv, HandlesOwned, QueuesAgree, Idle

\* sqlbox_op_close.
LEMMA CloseIInv ==
  ASSUME IInv, NEW id, OpClose(id)
  PROVE  IInv'
<1>1. CASE Fail
  BY <1>1, FailIInv
<1>2. ASSUME NEW d \in Lookup(dbq, id), MayClose(d),
             dbq' = Unlink(dbq, d), db' = [db EXCEPT ![d] = FreedDb],
             IF Idle(d) THEN Continue /\ conn' = [conn EXCEPT ![d] = "none"]
                        ELSE Stop /\ UNCHANGED conn,
             UNCHANGED <<role, lastid, stmtq, stmt, handle>>
      PROVE  IInv'
  <2>1. d \in ToSet(dbq) /\ db[d].stmtq = {}
    BY <1>2, LookupMember DEF IInv, TypeOK, MayClose
  <2>2. Idle(d)
    BY <2>1, NoStatementsIdle
  <2>3. /\ dbq' \in Seq(Ids) /\ Increasing(dbq')
        /\ ToSet(dbq') = ToSet(dbq) \ {d}
    BY <1>2, <2>1, UnlinkMember DEF IInv, TypeOK, QueueOrder
  <2>4. QED
    BY <1>2, <2>1, <2>2, <2>3, DropDbIInv DEF Continue
<1>3. QED
  BY <1>1, <1>2 DEF OpClose

\* sqlbox_op_trans_open and sqlbox_op_trans_close: name and state of the
\* transaction change together.
LEMMA TransIInv ==
  ASSUME IInv, NEW d \in ToSet(dbq), NEW t \in 0..MaxTrans, NEW c \in {"auto", "trans"},
         db' = [db EXCEPT ![d].trans = t], conn' = [conn EXCEPT ![d] = c],
         c = "trans" => t # 0,
         Continue,
         UNCHANGED <<role, lastid, dbq, stmtq, stmt, handle>>
  PROVE  IInv'
<1>1. d \in Ids
  BY MemberIsId DEF IInv, TypeOK
<1>2. /\ db' \in [Ids -> DbType]
      /\ \A e \in Ids : db'[e].stmtq = db[e].stmtq
      /\ db'[d].trans = t
      /\ \A e \in Ids \ {d} : db'[e].trans = db[e].trans
  <2>1. db \in [Ids -> DbType]
    BY DEF IInv, TypeOK
  <2>2. db' = [db EXCEPT ![d] = [db[d] EXCEPT !.trans = t]]
    OBVIOUS
  <2>3. [db[d] EXCEPT !.trans = t] \in DbType
    BY <1>1, <2>1 DEF DbType
  <2>4. db' \in [Ids -> DbType]
    BY <1>1, <2>1, <2>2, <2>3
  <2>5. db'[d] = [db[d] EXCEPT !.trans = t] /\ \A e \in Ids \ {d} : db'[e] = db[e]
    BY <1>1, <2>1, <2>2
  <2>6. db'[d].trans = t /\ db'[d].stmtq = db[d].stmtq
    BY <1>1, <2>1, <2>5 DEF DbType
  <2>7. QED
    BY <2>4, <2>5, <2>6
<1>3. /\ conn' \in [Ids -> {"none", "auto", "trans"}]
      /\ conn'[d] = c
      /\ \A e \in Ids \ {d} : conn'[e] = conn[e]
  BY <1>1 DEF IInv, TypeOK
<1>4. TypeOK' /\ QueueOrder'
  BY <1>2, <1>3 DEF IInv, TypeOK, Continue, QueueOrder, Spent
<1>5. QueuesAgree'
  BY <1>2, MemberIsId DEF IInv, TypeOK, QueuesAgree
<1>6. HandlesOwned'
  BY <1>1, <1>3 DEF IInv, HandlesOwned
<1>7. NoHiddenTransaction'
  BY <1>1, <1>2, <1>3 DEF IInv, NoHiddenTransaction
<1>8. QED
  BY <1>4, <1>5, <1>6, <1>7 DEF IInv, Continue

LEMMA TransOpenIInv ==
  ASSUME IInv, NEW id, NEW t \in 0..MaxTrans, OpTransOpen(id, t)
  PROVE  IInv'
<1>1. CASE Fail
  BY <1>1, FailIInv
<1>2. ASSUME NEW d \in Lookup(dbq, id), t # 0, db' = [db EXCEPT ![d].trans = t],
             conn' = [conn EXCEPT ![d] = "trans"], Continue,
             UNCHANGED <<role, lastid, dbq, stmtq, stmt, handle>>
      PROVE  IInv'
  <2>1. d \in ToSet(dbq)
    BY <1>2, LookupMember DEF IInv, TypeOK
  <2>2. QED
    BY <1>2, <2>1, TransIInv
<1>3. QED
  BY <1>1, <1>2 DEF OpTransOpen

LEMMA TransCloseIInv ==
  ASSUME IInv, NEW id, NEW t \in 0..MaxTrans, OpTransClose(id, t)
  PROVE  IInv'
<1>1. CASE Fail
  BY <1>1, FailIInv
<1>2. ASSUME NEW d \in Lookup(dbq, id), db' = [db EXCEPT ![d].trans = 0],
             conn' = [conn EXCEPT ![d] = "auto"], Continue,
             UNCHANGED <<role, lastid, dbq, stmtq, stmt, handle>>
      PROVE  IInv'
  <2>1. d \in ToSet(dbq) /\ 0 \in 0..MaxTrans
    BY <1>2, LookupMember, ModelAssumption DEF IInv, TypeOK
  <2>2. QED
    BY <1>2, <2>1, TransIInv
<1>3. QED
  BY <1>1, <1>2 DEF OpTransClose

\* Running a statement opens and closes no connection and starts no
\* transaction.
LEMMA RunConn ==
  ASSUME IInv, NEW d \in Ids, NEW i, NEW flags, Run(d, i, flags)
  PROVE  /\ conn' \in [Ids -> {"none", "auto", "trans"}]
         /\ \A e \in Ids : /\ conn'[e] = "none" <=> conn[e] = "none"
                           /\ conn'[e] = "trans" => conn[e] = "trans"
BY DEF IInv, TypeOK, Run

\* A failure after which SQLite has no transaction.
LEMMA RolledBackIInv ==
  ASSUME IInv, NEW d \in ToSet(dbq), FailRolledBack(d)
  PROVE  IInv'
<1>1. d \in Ids
  BY MemberIsId DEF IInv, TypeOK
<1>2. /\ conn' \in [Ids -> {"none", "auto", "trans"}]
      /\ \A e \in Ids : /\ conn'[e] = "none" <=> conn[e] = "none"
                        /\ conn'[e] = "trans" => conn[e] = "trans"
  BY <1>1 DEF FailRolledBack, IInv, TypeOK
<1>3. phase' \in {"serve", "clear"} /\ UNCHANGED <<boxvars, handle>>
  BY DEF FailRolledBack, Stop
<1>4. QED
  BY <1>2, <1>3 DEF IInv, boxvars, TypeOK, QueueOrder, Spent, QueuesAgree,
       HandlesOwned, NoHiddenTransaction

\* sqlbox_op_exec.
LEMMA ExecIInv ==
  ASSUME IInv, NEW id, NEW i, NEW flags, OpExec(id, i, flags)
  PROVE  IInv'
<1>1. CASE Fail
  BY <1>1, FailIInv
<1>2. ASSUME NEW d \in Lookup(dbq, id), Run(d, i, flags), Continue \/ Stop,
             UNCHANGED <<boxvars, handle>>
      PROVE  IInv'
  <2>1. d \in Ids
    BY <1>2, LookupMember DEF IInv, TypeOK
  <2>2. /\ conn' \in [Ids -> {"none", "auto", "trans"}]
        /\ \A e \in Ids : /\ conn'[e] = "none" <=> conn[e] = "none"
                          /\ conn'[e] = "trans" => conn[e] = "trans"
    BY <1>2, <2>1, RunConn
  <2>3. phase' \in {"serve", "clear"}
    BY <1>2 DEF Continue, Stop
  <2>4. QED
    BY <1>2, <2>2, <2>3 DEF IInv, boxvars, TypeOK, QueueOrder, Spent, QueuesAgree,
         HandlesOwned, NoHiddenTransaction
<1>3. QED
  BY <1>1, <1>2 DEF OpExec

\* sqlbox_op_step and sqlbox_op_rebind change the results of one statement
\* and perhaps end a transaction.
LEMMA ResultIInv ==
  ASSUME IInv, NEW s \in ToSet(stmtq), NEW r \in Results,
         stmt' = [stmt EXCEPT ![s].res = r],
         conn' \in [Ids -> {"none", "auto", "trans"}],
         \A e \in Ids : /\ conn'[e] = "none" <=> conn[e] = "none"
                        /\ conn'[e] = "trans" => conn[e] = "trans",
         Continue,
         UNCHANGED <<role, lastid, dbq, stmtq, db, handle>>
  PROVE  IInv'
<1>1. s \in Ids
  BY MemberIsId DEF IInv, TypeOK
<1>2. stmt' \in [Ids -> StmtType] /\ \A x \in Ids : stmt'[x].db = stmt[x].db
  BY <1>1 DEF IInv, TypeOK, StmtType
<1>3. TypeOK' /\ QueueOrder'
  BY <1>2 DEF IInv, TypeOK, Continue, QueueOrder, Spent
<1>4. QueuesAgree'
  BY <1>2, MemberIsId DEF IInv, TypeOK, QueuesAgree
<1>5. HandlesOwned'
  BY <1>2 DEF IInv, HandlesOwned
<1>6. NoHiddenTransaction'
  BY DEF IInv, NoHiddenTransaction
<1>7. QED
  BY <1>3, <1>4, <1>5, <1>6 DEF IInv, Continue

LEMMA StepIInv ==
  ASSUME IInv, NEW id, OpStep(id)
  PROVE  IInv'
<1>1. CASE Fail
  BY <1>1, FailIInv
<1>2. ASSUME NEW s \in Lookup(stmtq, id), NEW r \in Stepped(s),
             stmt' = [stmt EXCEPT ![s].res = r],
             Run(stmt[s].db, stmt[s].idx, stmt[s].flags), Continue,
             UNCHANGED <<role, lastid, dbq, stmtq, db, handle>>
      PROVE  IInv'
  <2>1. s \in ToSet(stmtq) /\ s \in Ids
    BY <1>2, LookupMember DEF IInv, TypeOK
  <2>2. r \in Results
    BY <1>2, <2>1 DEF Stepped, Results, IInv, TypeOK, StmtType
  <2>3. stmt[s].db \in Ids
    BY <2>1, MemberIsId DEF IInv, TypeOK, QueuesAgree
  <2>4. /\ conn' \in [Ids -> {"none", "auto", "trans"}]
        /\ \A e \in Ids : /\ conn'[e] = "none" <=> conn[e] = "none"
                          /\ conn'[e] = "trans" => conn[e] = "trans"
    BY <1>2, <2>3, RunConn
  <2>5. QED
    BY <1>2, <2>1, <2>2, <2>4, ResultIInv
<1>3. QED
  BY <1>1, <1>2 DEF OpStep

LEMMA RebindIInv ==
  ASSUME IInv, NEW id, OpRebind(id)
  PROVE  IInv'
<1>1. CASE Fail
  BY <1>1, FailIInv
<1>2. ASSUME NEW s \in Lookup(stmtq, id),
             stmt' = [stmt EXCEPT ![s].res = "fresh"], Continue,
             UNCHANGED <<role, lastid, dbq, stmtq, db, sqlvars>>
      PROVE  IInv'
  <2>1. s \in ToSet(stmtq) /\ "fresh" \in Results
    BY <1>2, LookupMember DEF IInv, TypeOK, Results
  <2>2. conn' = conn /\ handle' = handle
    BY <1>2 DEF sqlvars
  <2>3. conn' \in [Ids -> {"none", "auto", "trans"}]
    BY <2>2 DEF IInv, TypeOK
  <2>4. QED
    BY <1>2, <2>1, <2>2, <2>3, ResultIInv
<1>3. QED
  BY <1>1, <1>2 DEF OpRebind

\* sqlbox_op_prepare_bind: the new statement goes to the tail of both queues.
LEMMA PrepareIInv ==
  ASSUME IInv, NEW id, NEW i \in Pstmts \cup {None}, NEW flags \in SUBSET Flags,
         OpPrepareBind(id, i, flags)
  PROVE  IInv'
<1>1. CASE Fail
  BY <1>1, FailIInv
<1> DEFINE n == lastid + 1
           st(d) == [idx |-> i, db |-> d, flags |-> flags, res |-> "fresh"]
<1>2. ASSUME NEW d \in Lookup(dbq, id), i \in Pstmts, lastid < MaxId,
             lastid' = n,
             db' = [db EXCEPT ![d].stmtq = @ \cup {n}],
             stmtq' = Append(stmtq, n),
             stmt' = [stmt EXCEPT ![n] = st(d)],
             handle' = [handle EXCEPT ![n] = d],
             Continue, UNCHANGED <<role, dbq, conn>>
      PROVE  IInv'
  <2>1. d \in ToSet(dbq) /\ d \in Ids /\ d \in 0..MaxId
    BY <1>2, LookupMember, ModelAssumption DEF IInv, TypeOK, Ids
  <2>2. /\ n \in Ids /\ n \in 0..MaxId /\ lastid \in Nat
        /\ \A x \in ToSet(stmtq) : x < n
    BY <1>2, FreshId DEF IInv, TypeOK
  <2>3. \A x \in ToSet(dbq) \cup ToSet(stmtq) : x \in Nat /\ x <= lastid
    BY MemberIsId, ModelAssumption DEF IInv, TypeOK, QueueOrder, Spent, Ids
  <2>4. n \notin ToSet(stmtq)
    BY <2>2, <2>3
  <2>5. /\ stmtq' \in Seq(Ids) /\ Increasing(stmtq')
        /\ ToSet(stmtq') = ToSet(stmtq) \cup {n}
    BY <1>2, <2>2, AppendMember DEF IInv, TypeOK, QueueOrder
  <2>6. st(d) \in StmtType
    BY <1>2, <2>1 DEF StmtType, Results
  <2>7. /\ stmt' \in [Ids -> StmtType] /\ handle' \in [Ids -> 0..MaxId]
        /\ stmt'[n].db = d /\ handle'[n] = d
        /\ \A x \in Ids \ {n} : stmt'[x] = stmt[x] /\ handle'[x] = handle[x]
    <3> HIDE DEF n
    <3>1. st(d).db = d
      OBVIOUS
    <3> HIDE DEF st
    <3>2. QED
      BY <1>2, <2>1, <2>2, <2>6, <3>1 DEF IInv, TypeOK
  <2>8. /\ db' \in [Ids -> DbType]
        /\ db'[d].stmtq = db[d].stmtq \cup {n}
        /\ \A e \in Ids \ {d} : db'[e].stmtq = db[e].stmtq
        /\ \A e \in Ids : db'[e].trans = db[e].trans
    <3> DEFINE new == [db[d] EXCEPT !.stmtq = @ \cup {n}]
    <3>1. db \in [Ids -> DbType]
      BY DEF IInv, TypeOK
    <3>2. db' = [db EXCEPT ![d] = new]
      BY <1>2
    <3>3. /\ new \in DbType
          /\ new.stmtq = db[d].stmtq \cup {n}
          /\ new.trans = db[d].trans
      <4> HIDE DEF n
      <4>1. QED
        BY <2>1, <2>2, <3>1 DEF DbType
    <3> HIDE DEF new, n
    <3>4. db' \in [Ids -> DbType]
      BY <2>1, <3>1, <3>2, <3>3
    <3>5. db'[d] = new /\ \A e \in Ids \ {d} : db'[e] = db[e]
      BY <2>1, <3>1, <3>2
    <3>6. QED
      BY <3>3, <3>4, <3>5
  <2>9. TypeOK'
    BY <1>2, <2>2, <2>5, <2>7, <2>8 DEF IInv, TypeOK, Continue
  <2>10. QueueOrder'
    <3>1. Spent(dbq)' /\ Spent(stmtq)'
      BY <1>2, <2>2, <2>3, <2>5 DEF Spent
    <3>2. QED
      BY <1>2, <2>5, <3>1 DEF IInv, QueueOrder
  <2>11. QueuesAgree'
    <3> HIDE DEF n
    <3>1. ToSet(dbq) \subseteq Ids /\ ToSet(stmtq) \subseteq Ids
      BY MemberIsId DEF IInv, TypeOK
    <3>2. \A e \in ToSet(dbq) : \A s \in db'[e].stmtq :
            s \in ToSet(stmtq') /\ stmt'[s].db = e
      <4> SUFFICES ASSUME NEW e \in ToSet(dbq), NEW s \in db'[e].stmtq
                   PROVE  s \in ToSet(stmtq') /\ stmt'[s].db = e
        OBVIOUS
      <4>1. CASE s \in db[e].stmtq
        BY <2>4, <2>5, <2>7, <3>1, <4>1 DEF IInv, QueuesAgree
      <4>2. CASE e = d /\ s = n
        BY <2>5, <2>7, <4>2
      <4>3. QED
        BY <2>8, <3>1, <4>1, <4>2
    <3>3. \A s \in ToSet(stmtq') :
            stmt'[s].db \in ToSet(dbq) /\ s \in db'[stmt'[s].db].stmtq
      <4> SUFFICES ASSUME NEW s \in ToSet(stmtq')
                   PROVE  stmt'[s].db \in ToSet(dbq) /\ s \in db'[stmt'[s].db].stmtq
        OBVIOUS
      <4>1. CASE s = n
        BY <2>1, <2>7, <2>8, <4>1
      <4>2. CASE s \in ToSet(stmtq)
        <5>1. stmt'[s] = stmt[s]
          BY <2>4, <2>7, <3>1, <4>2
        <5>2. stmt[s].db \in ToSet(dbq) /\ s \in db[stmt[s].db].stmtq
          BY <4>2 DEF IInv, QueuesAgree
        <5>3. db[stmt[s].db].stmtq \subseteq db'[stmt[s].db].stmtq
          BY <2>8, <3>1, <5>2
        <5>4. QED
          BY <5>1, <5>2, <5>3
      <4>3. QED
        BY <2>5, <4>1, <4>2
    <3>4. QED
      BY <1>2, <3>2, <3>3 DEF QueuesAgree
  <2>12. HandlesOwned'
    <3> HIDE DEF n
    <3>1. QED
      BY <1>2, <2>4, <2>5, <2>7 DEF IInv, HandlesOwned
  <2>13. NoHiddenTransaction'
    BY <1>2, <2>8 DEF IInv, NoHiddenTransaction
  <2>14. QED
    BY <1>2, <2>9, <2>10, <2>11, <2>12, <2>13 DEF IInv, Continue
<1>3. QED
  BY <1>1, <1>2 DEF OpPrepareBind

LEMMA UnacknowledgedIInv ==
  ASSUME IInv, NEW id, NEW i, PrepareUnacknowledged(id, i)
  PROVE  IInv'
<1>1. /\ lastid' = lastid + 1 /\ lastid + 1 \in 0..MaxId /\ lastid \in Nat
      /\ phase' = "clear" /\ UNCHANGED <<role, dbq, stmtq, db, stmt, sqlvars>>
  BY FreshId DEF PrepareUnacknowledged, Stop, IInv, TypeOK
<1>2. \A x \in ToSet(dbq) \cup ToSet(stmtq) : x \in Nat /\ x <= lastid
  BY MemberIsId, ModelAssumption DEF IInv, TypeOK, QueueOrder, Spent, Ids
<1>3. QueueOrder'
  BY <1>1, <1>2 DEF IInv, QueueOrder, Spent
<1>4. QED
  BY <1>1, <1>3 DEF IInv, sqlvars, TypeOK, QueuesAgree, HandlesOwned, NoHiddenTransaction

\* sqlbox_op_finalise.
LEMMA FinaliseIInv ==
  ASSUME IInv, NEW id, OpFinalise(id)
  PROVE  IInv'
<1>1. CASE Fail
  BY <1>1, FailIInv
<1>2. ASSUME NEW s \in Lookup(stmtq, id), Release(s), Continue,
             UNCHANGED <<role, lastid, dbq, conn>>
      PROVE  IInv'
  BY <1>2, LookupMember, ReleaseIInv DEF Continue, IInv, TypeOK
<1>3. QED
  BY <1>1, <1>2 DEF OpFinalise

\* sqlbox_op_role.
LEMMA RoleIInv ==
  ASSUME IInv, NEW r, OpRole(r)
  PROVE  IInv'
<1>1. CASE Fail
  BY <1>1, FailIInv
<1>2. CASE /\ Roles # {} /\ (r = role \/ r \in RoleNext[role])
           /\ role' = r
           /\ Continue
           /\ UNCHANGED <<lastid, dbq, stmtq, db, stmt, sqlvars>>
  <2>1. role \in Roles /\ r \in Roles
    BY <1>2, ConfigAssumption DEF IInv, TypeOK
  <2>2. QED
    BY <1>2, <2>1 DEF IInv, Continue, sqlvars, TypeOK, QueueOrder, Spent,
         QueuesAgree, HandlesOwned, NoHiddenTransaction
<1>3. QED
  BY <1>1, <1>2 DEF OpRole

\* sqlbox_clear.
LEMMA ClearStmtIInv ==
  ASSUME IInv, NEW s \in Ids, ClearStmt(s)
  PROVE  IInv'
<1>1. Head(dbq) \in ToSet(dbq)
  BY TailMember DEF ClearStmt, IInv, TypeOK, QueueOrder
<1>2. s \in ToSet(stmtq)
  BY <1>1 DEF ClearStmt, IInv, QueuesAgree
<1>3. QED
  BY <1>2, ReleaseIInv DEF ClearStmt

LEMMA ClearDbIInv ==
  ASSUME IInv, ClearDb
  PROVE  IInv'
<1> DEFINE d == Head(dbq)
<1>1. /\ d \in ToSet(dbq)
      /\ dbq' \in Seq(Ids) /\ Increasing(dbq')
      /\ ToSet(dbq') = ToSet(dbq) \ {d}
  BY TailMember DEF ClearDb, IInv, TypeOK, QueueOrder
<1>2. Idle(d)
  BY <1>1, NoStatementsIdle DEF ClearDb
<1>3. QED
  BY <1>1, <1>2, DropDbIInv DEF ClearDb

LEMMA ExitIInv ==
  ASSUME IInv, Exit
  PROVE  IInv'
<1>1. ToSet(dbq) = {}
  BY EmptyMember DEF Exit
<1>2. ToSet(stmtq) = {}
  BY <1>1 DEF IInv, QueuesAgree
<1>3. TypeOK'
  BY Structures, EmptyMember DEF Exit, IInv, TypeOK, sqlvars
<1>4. QueueOrder' /\ QueuesAgree' /\ HandlesOwned' /\ NoHiddenTransaction'
  BY <1>1, <1>2, EmptyMember DEF Exit, sqlvars, IInv, QueueOrder, Spent,
     QueuesAgree, HandlesOwned, NoHiddenTransaction
<1>5. QED
  BY <1>3, <1>4 DEF IInv, Exit

\* Every step keeps the invariant.
LEMMA NextIInv == IInv /\ [Next]_vars => IInv'
<1> SUFFICES ASSUME IInv, [Next]_vars PROVE IInv'
  OBVIOUS
<1>1. CASE UNCHANGED vars
  BY <1>1 DEF vars, boxvars, sqlvars, IInv, TypeOK, QueueOrder, Spent,
     QueuesAgree, HandlesOwned, NoHiddenTransaction
<1>2. CASE Hangup \/ OpPing \/ \E id \in RequestId : OpLastid(id)
  <2>1. Fail \/ (UNCHANGED <<boxvars, sqlvars>> /\ phase' = "serve")
    BY <1>2 DEF Hangup, OpPing, OpLastid, Continue
  <2>2. CASE UNCHANGED <<boxvars, sqlvars>> /\ phase' = "serve"
    BY <2>2 DEF boxvars, sqlvars, IInv, TypeOK, QueueOrder, Spent,
       QueuesAgree, HandlesOwned, NoHiddenTransaction
  <2>3. QED
    BY <2>1, <2>2, FailIInv
<1>3. ASSUME NEW r \in Roles \cup {None}, OpRole(r) PROVE IInv'
  BY <1>3, RoleIInv
<1>4. ASSUME NEW i \in Sources \cup {None}, OpOpen(i) PROVE IInv'
  BY <1>4, OpenIInv
<1>5. ASSUME NEW id \in RequestId,
             OpClose(id) \/ OpFinalise(id) \/ OpStep(id) \/ OpRebind(id)
      PROVE  IInv'
  BY <1>5, CloseIInv, FinaliseIInv, StepIInv, RebindIInv
<1>6. ASSUME NEW id \in RequestId, NEW t \in 0..MaxTrans,
             OpTransOpen(id, t) \/ OpTransClose(id, t)
      PROVE  IInv'
  BY <1>6, TransOpenIInv, TransCloseIInv
<1>7. ASSUME NEW id \in RequestId, NEW i \in Pstmts \cup {None},
             PrepareUnacknowledged(id, i)
      PROVE  IInv'
  BY <1>7, UnacknowledgedIInv
<1>8. ASSUME NEW id \in RequestId, NEW i \in Pstmts \cup {None},
             NEW fl \in RequestFlags,
             OpExec(id, i, fl) \/ OpPrepareBind(id, i, fl)
      PROVE  IInv'
  BY <1>8, ExecIInv, PrepareIInv DEF RequestFlags
<1>9. CASE Clear
  BY <1>9, ClearStmtIInv, ClearDbIInv, ExitIInv DEF Clear
<1>10. ASSUME NEW d \in ToSet(dbq), FailRolledBack(d) PROVE IInv'
  BY <1>10, RolledBackIInv
<1>11. QED
  BY <1>1, <1>2, <1>3, <1>4, <1>5, <1>6, <1>7, <1>8, <1>9, <1>10 DEF Next

\* The inductive invariant holds in every reachable state.
THEOREM Inductive == Spec => []IInv
BY InitIInv, NextIInv, PTL DEF Spec

-----------------------------------------------------------------------------
(* What the runs check, for every configuration. *)

\* Every variable keeps its type.
THEOREM TypeCorrect == Spec => []TypeOK
<1>1. IInv => TypeOK
  BY DEF IInv
<1>2. QED
  BY <1>1, Inductive, PTL

\* The global queue and the per-database queues of statements agree, and no
\* statement points at a freed database.
THEOREM QueuesStayTogether == Spec => []QueuesAgree
<1>1. IInv => QueuesAgree
  BY DEF IInv
<1>2. QED
  BY <1>1, Inductive, PTL

\* SQLite holds nothing that the queues do not own.
THEOREM NothingLeaks == Spec => []HandlesOwned
<1>1. IInv => HandlesOwned
  BY DEF IInv
<1>2. QED
  BY <1>1, Inductive, PTL

\* The teardown leaves nothing: neither statements in the global queue nor
\* anything open in SQLite.
THEOREM TeardownIsComplete == Spec => []ClearedOut
<1>1. IInv => ClearedOut
  <2> SUFFICES ASSUME IInv, dbq = <<>>
               PROVE  /\ stmtq = <<>>
                      /\ \A s \in Ids : handle[s] = 0 /\ conn[s] = "none"
    BY DEF ClearedOut
  <2>1. ToSet(dbq) = {}
    BY EmptyMember
  <2>2. ToSet(stmtq) = {}
    BY <2>1 DEF IInv, QueuesAgree
  <2>3. stmtq = <<>>
    <3> SUFFICES ASSUME stmtq # <<>> PROVE FALSE
      OBVIOUS
    <3>1. 1 \in DOMAIN stmtq
      BY EmptySeq, LenProperties DEF IInv, TypeOK
    <3>2. QED
      BY <2>2, <3>1 DEF ToSet
  <2>4. QED
    BY <2>1, <2>2, <2>3 DEF IInv, HandlesOwned
<1>2. QED
  BY <1>1, Inductive, PTL

\* A transaction that SQLite has open is one the client can name.
THEOREM TransactionsAreNamed == Spec => []NoHiddenTransaction
<1>1. IInv => NoHiddenTransaction
  BY DEF IInv
<1>2. QED
  BY <1>1, Inductive, PTL

\* The tail of a queue in creation order is its newest member.
LEMMA TailIsNewest ==
  ASSUME NEW q \in Seq(Ids), Increasing(q), NEW x \in Lookup(q, 0), NEW y \in ToSet(q)
  PROVE  y <= x
<1>1. Len(q) \in Nat /\ DOMAIN q = 1..Len(q)
  BY LenProperties
<1>2. Len(q) \in DOMAIN q /\ x = q[Len(q)]
  BY <1>1 DEF Lookup
<1>3. PICK i \in 1..Len(q) : y = q[i]
  BY <1>1 DEF ToSet
<1>4. x \in Nat /\ y \in Nat
  BY <1>2, MemberIsId, ModelAssumption DEF Ids, ToSet
<1>5. CASE i = Len(q)
  BY <1>2, <1>3, <1>4, <1>5
<1>6. CASE i < Len(q)
  BY <1>1, <1>2, <1>3, <1>4, <1>6 DEF Increasing
<1>7. i = Len(q) \/ i < Len(q)
  <2>1. Len(q) \in Nat
    BY <1>1
  <2>2. QED
    BY <2>1
<1>8. QED
  BY <1>5, <1>6, <1>7

\* Identifier zero is the newest open database or statement.
THEOREM ZeroIsNewest == Spec => []LastMeansNewest
<1>1. IInv => LastMeansNewest
  BY TailIsNewest DEF IInv, TypeOK, QueueOrder, LastMeansNewest
<1>2. QED
  BY <1>1, Inductive, PTL

-----------------------------------------------------------------------------
(* What one step may do to the queues and to the role. *)

\* A member of the queue of databases after a step was there before and is of
\* the same source, or it is new and the role of the moment may open it.
DbsKept ==
  \A d \in ToSet(dbq') :
    \/ d \in ToSet(dbq) /\ db'[d].idx = db[d].idx
    \/ d = lastid + 1 /\ MaySrc(db'[d].idx)

StmtsKept ==
  \A s \in ToSet(stmtq') :
    \/ s \in ToSet(stmtq) /\ stmt'[s].idx = stmt[s].idx
    \/ s = lastid + 1 /\ MayStmt(stmt'[s].idx)

RoleKept == role' = role \/ (Roles # {} /\ role' \in RoleNext[role] /\ UNCHANGED <<dbq, stmtq, db, stmt>>)

LEMMA UnchangedKept ==
  UNCHANGED <<role, dbq, stmtq, db, stmt>> => DbsKept /\ StmtsKept /\ RoleKept
BY DEF DbsKept, StmtsKept, RoleKept

LEMMA FailKept == Fail => DbsKept /\ StmtsKept /\ RoleKept
BY UnchangedKept DEF Fail, boxvars

LEMMA ReleaseKept ==
  ASSUME IInv, NEW s \in ToSet(stmtq), Release(s), UNCHANGED <<role, dbq>>
  PROVE  DbsKept /\ StmtsKept /\ RoleKept
<1>1. ToSet(stmtq') = ToSet(stmtq) \ {s}
  BY UnlinkMember DEF IInv, TypeOK, QueueOrder, Release
<1>2. stmt[s].db \in Ids
  BY MemberIsId DEF IInv, TypeOK, QueuesAgree
<1>3. \A d \in Ids : db'[d].idx = db[d].idx
  BY <1>2 DEF IInv, TypeOK, Release, DbType
<1>4. \A t \in Ids \ {s} : stmt'[t] = stmt[t]
  BY DEF IInv, TypeOK, Release
<1>5. QED
  BY <1>1, <1>3, <1>4, MemberIsId DEF IInv, TypeOK, DbsKept, StmtsKept, RoleKept

LEMMA OpenKept ==
  ASSUME IInv, NEW i \in Sources \cup {None}, OpOpen(i)
  PROVE  DbsKept /\ StmtsKept /\ RoleKept
<1> DEFINE n == lastid + 1
           new == [FreedDb EXCEPT !.idx = i]
<1>1. CASE Fail \/ UNCHANGED <<role, dbq, stmtq, db, stmt>>
  BY <1>1, FailKept, UnchangedKept
<1>2. CASE /\ MaySrc(i)
           /\ dbq' = Append(dbq, n)
           /\ db' = [db EXCEPT ![n] = new]
           /\ UNCHANGED <<role, stmtq, stmt>>
  <2>1. /\ n \in Ids /\ \A x \in ToSet(dbq) : x < n
    BY FreshId DEF OpOpen
  <2>2. ToSet(dbq') = ToSet(dbq) \cup {n}
    BY <1>2, <2>1, AppendMember DEF IInv, TypeOK, QueueOrder
  <2>3. new.idx = i
    BY DEF FreedDb
  <2> HIDE DEF new, n
  <2>4. db'[n] = new /\ \A d \in Ids \ {n} : db'[d] = db[d]
    BY <1>2, <2>1 DEF IInv, TypeOK
  <2>5. DbsKept
    BY <1>2, <2>2, <2>3, <2>4, MemberIsId DEF DbsKept, MaySrc, IInv, TypeOK, n
  <2>6. QED
    BY <1>2, <2>5 DEF StmtsKept, RoleKept
<1>3. QED
  BY <1>1, <1>2 DEF OpOpen, sqlvars

LEMMA CloseKept ==
  ASSUME IInv, NEW id, OpClose(id)
  PROVE  DbsKept /\ StmtsKept /\ RoleKept
<1>1. CASE Fail
  BY <1>1, FailKept
<1>2. ASSUME NEW d \in Lookup(dbq, id),
             dbq' = Unlink(dbq, d), db' = [db EXCEPT ![d] = FreedDb],
             UNCHANGED <<role, stmtq, stmt>>
      PROVE  DbsKept /\ StmtsKept /\ RoleKept
  <2>1. d \in ToSet(dbq)
    BY LookupMember DEF IInv, TypeOK
  <2>2. ToSet(dbq') = ToSet(dbq) \ {d}
    BY <1>2, <2>1, UnlinkMember DEF IInv, TypeOK, QueueOrder
  <2>3. \A e \in Ids \ {d} : db'[e] = db[e]
    BY <1>2 DEF IInv, TypeOK
  <2>4. QED
    BY <1>2, <2>2, <2>3, MemberIsId DEF IInv, TypeOK, DbsKept, StmtsKept, RoleKept
<1>3. QED
  BY <1>1, <1>2 DEF OpClose

LEMMA TransKept ==
  ASSUME IInv, NEW id, NEW t, OpTransOpen(id, t) \/ OpTransClose(id, t)
  PROVE  DbsKept /\ StmtsKept /\ RoleKept
<1>1. CASE Fail
  BY <1>1, FailKept
<1>2. ASSUME NEW d, NEW u, db' = [db EXCEPT ![d].trans = u],
             UNCHANGED <<role, dbq, stmtq, stmt>>
      PROVE  DbsKept /\ StmtsKept /\ RoleKept
  <2>1. \A e \in Ids : db'[e].idx = db[e].idx
    BY <1>2 DEF IInv, TypeOK, DbType
  <2>2. QED
    BY <1>2, <2>1, MemberIsId DEF IInv, TypeOK, DbsKept, StmtsKept, RoleKept
<1>3. QED
  BY <1>1, <1>2 DEF OpTransOpen, OpTransClose

LEMMA PrepareKept ==
  ASSUME IInv, NEW id, NEW i, NEW flags, OpPrepareBind(id, i, flags)
  PROVE  DbsKept /\ StmtsKept /\ RoleKept
<1> DEFINE n == lastid + 1
           new(d) == [idx |-> i, db |-> d, flags |-> flags, res |-> "fresh"]
<1>1. CASE Fail
  BY <1>1, FailKept
<1>2. ASSUME NEW d, MayStmt(i),
             db' = [db EXCEPT ![d].stmtq = @ \cup {n}],
             stmtq' = Append(stmtq, n),
             stmt' = [stmt EXCEPT ![n] = new(d)],
             UNCHANGED <<role, dbq>>
      PROVE  DbsKept /\ StmtsKept /\ RoleKept
  <2>1. /\ n \in Ids /\ \A x \in ToSet(stmtq) : x < n
    BY FreshId DEF OpPrepareBind
  <2>2. ToSet(stmtq') = ToSet(stmtq) \cup {n}
    BY <1>2, <2>1, AppendMember DEF IInv, TypeOK, QueueOrder
  <2>3. \A e \in Ids : db'[e].idx = db[e].idx
    <3> HIDE DEF n
    <3>1. QED
      BY <1>2 DEF IInv, TypeOK, DbType
  <2>4. new(d).idx = i
    OBVIOUS
  <2> HIDE DEF new, n
  <2>5. stmt'[n] = new(d) /\ \A s \in Ids \ {n} : stmt'[s] = stmt[s]
    BY <1>2, <2>1 DEF IInv, TypeOK
  <2>6. StmtsKept
    BY <1>2, <2>2, <2>4, <2>5, MemberIsId DEF StmtsKept, MayStmt, IInv, TypeOK, n
  <2>7. DbsKept
    BY <1>2, <2>3, MemberIsId DEF IInv, TypeOK, DbsKept
  <2>8. QED
    BY <1>2, <2>6, <2>7 DEF RoleKept
<1>3. QED
  BY <1>1, <1>2 DEF OpPrepareBind

LEMMA ResultKept ==
  ASSUME IInv, NEW id, OpStep(id) \/ OpRebind(id)
  PROVE  DbsKept /\ StmtsKept /\ RoleKept
<1>1. CASE Fail
  BY <1>1, FailKept
<1>2. ASSUME NEW s, NEW r, stmt' = [stmt EXCEPT ![s].res = r],
             UNCHANGED <<role, dbq, stmtq, db>>
      PROVE  DbsKept /\ StmtsKept /\ RoleKept
  <2>1. \A t \in Ids : stmt'[t].idx = stmt[t].idx
    BY <1>2 DEF IInv, TypeOK, StmtType
  <2>2. QED
    BY <1>2, <2>1, MemberIsId DEF IInv, TypeOK, DbsKept, StmtsKept, RoleKept
<1>3. QED
  BY <1>1, <1>2 DEF OpStep, OpRebind

LEMMA ClearKept ==
  ASSUME IInv, Clear
  PROVE  DbsKept /\ StmtsKept /\ RoleKept
<1>1. ASSUME NEW s \in Ids, ClearStmt(s)
      PROVE  DbsKept /\ StmtsKept /\ RoleKept
  <2>1. Head(dbq) \in ToSet(dbq)
    BY <1>1, TailMember DEF ClearStmt, IInv, TypeOK, QueueOrder
  <2>2. s \in ToSet(stmtq)
    BY <1>1, <2>1 DEF ClearStmt, IInv, QueuesAgree
  <2>3. QED
    BY <1>1, <2>2, ReleaseKept DEF ClearStmt
<1>2. CASE ClearDb
  <2>1. ToSet(dbq') = ToSet(dbq) \ {Head(dbq)} /\ Head(dbq) \in ToSet(dbq)
    BY <1>2, TailMember DEF ClearDb, IInv, TypeOK, QueueOrder
  <2>2. \A e \in Ids \ {Head(dbq)} : db'[e] = db[e]
    BY <1>2 DEF ClearDb, IInv, TypeOK
  <2>3. QED
    BY <1>2, <2>1, <2>2, MemberIsId DEF ClearDb, IInv, TypeOK, DbsKept, StmtsKept, RoleKept
<1>3. CASE Exit
  BY <1>3, EmptyMember DEF Exit, DbsKept, StmtsKept, RoleKept
<1>4. QED
  BY <1>1, <1>2, <1>3 DEF Clear

LEMMA NextKept ==
  ASSUME IInv, [Next]_vars
  PROVE  DbsKept /\ StmtsKept /\ RoleKept
<1>1. CASE Hangup \/ OpPing \/ \E id \in RequestId : OpLastid(id)
  BY <1>1, FailKept, UnchangedKept DEF Hangup, OpPing, OpLastid, boxvars
<1>2. CASE UNCHANGED vars
  BY <1>2, UnchangedKept DEF vars, boxvars
<1>3. ASSUME NEW r, OpRole(r) PROVE DbsKept /\ StmtsKept /\ RoleKept
  <2>1. CASE Fail
    BY <2>1, FailKept
  <2>2. QED
    BY <1>3, <2>1 DEF OpRole, DbsKept, StmtsKept, RoleKept
<1>4. ASSUME NEW id \in RequestId, OpFinalise(id)
      PROVE  DbsKept /\ StmtsKept /\ RoleKept
  <2>1. CASE Fail
    BY <2>1, FailKept
  <2>2. ASSUME NEW s \in Lookup(stmtq, id), Release(s), UNCHANGED <<role, dbq>>
        PROVE  DbsKept /\ StmtsKept /\ RoleKept
    BY <2>2, LookupMember, ReleaseKept DEF IInv, TypeOK
  <2>3. QED
    BY <1>4, <2>1, <2>2 DEF OpFinalise
<1>5. ASSUME NEW id \in RequestId, NEW i \in Pstmts \cup {None},
             NEW fl \in RequestFlags,
             OpExec(id, i, fl)
      PROVE  DbsKept /\ StmtsKept /\ RoleKept
  BY <1>5, FailKept, UnchangedKept DEF OpExec, boxvars
<1>6. ASSUME NEW id \in RequestId, NEW i \in Pstmts \cup {None},
             PrepareUnacknowledged(id, i)
      PROVE  DbsKept /\ StmtsKept /\ RoleKept
  BY <1>6, UnchangedKept DEF PrepareUnacknowledged
<1>7. ASSUME NEW d, FailRolledBack(d) PROVE DbsKept /\ StmtsKept /\ RoleKept
  BY <1>7, UnchangedKept DEF FailRolledBack, boxvars
<1>8. QED
  BY <1>1, <1>2, <1>3, <1>4, <1>5, <1>6, <1>7, OpenKept, CloseKept, TransKept,
     PrepareKept, ResultKept, ClearKept DEF Next

\* No handler takes an identifier back, and each spends at most one.
LEMMA LastidGrows ==
  ASSUME IInv, [Next]_vars
  PROVE  lastid' = lastid \/ lastid' = lastid + 1
<1>1. CASE UNCHANGED lastid
  BY <1>1
<1>2. ASSUME NEW i, OpOpen(i) PROVE lastid' = lastid \/ lastid' = lastid + 1
  BY <1>2 DEF OpOpen, Fail, boxvars
<1>3. ASSUME NEW id, NEW i, PrepareUnacknowledged(id, i)
      PROVE  lastid' = lastid + 1
  BY <1>3 DEF PrepareUnacknowledged
<1>4. ASSUME NEW id, NEW i, NEW fl, OpPrepareBind(id, i, fl)
      PROVE  lastid' = lastid \/ lastid' = lastid + 1
  BY <1>4 DEF OpPrepareBind, Fail, boxvars
<1>5. ASSUME NEW r, OpRole(r) PROVE UNCHANGED lastid
  BY <1>5 DEF OpRole, Fail, boxvars
<1>6. ASSUME NEW id, OpLastid(id) \/ OpClose(id) \/ OpFinalise(id)
      PROVE  UNCHANGED lastid
  BY <1>6 DEF OpLastid, OpClose, OpFinalise, Fail, boxvars
<1>7. ASSUME NEW id, OpStep(id) \/ OpRebind(id) PROVE UNCHANGED lastid
  BY <1>7 DEF OpStep, OpRebind, Fail, boxvars
<1>8. ASSUME NEW id, NEW t, OpTransOpen(id, t) \/ OpTransClose(id, t)
      PROVE  UNCHANGED lastid
  BY <1>8 DEF OpTransOpen, OpTransClose, Fail, boxvars
<1>9. ASSUME NEW id, NEW i, NEW fl, OpExec(id, i, fl) PROVE UNCHANGED lastid
  BY <1>9 DEF OpExec, Fail, boxvars
<1>10. Hangup \/ OpPing \/ Clear \/ UNCHANGED vars => UNCHANGED lastid
  BY DEF Hangup, OpPing, Fail, Clear, ClearStmt, ClearDb, Exit, vars, boxvars
<1>11. ASSUME NEW d, FailRolledBack(d) PROVE UNCHANGED lastid
  BY <1>11 DEF FailRolledBack, boxvars
<1>12. QED
  BY <1>1, <1>2, <1>3, <1>4, <1>5, <1>6, <1>7, <1>8, <1>9, <1>10, <1>11 DEF Next

\* No identifier is ever given out a second time.
THEOREM IdentifiersAreUnique == Spec => IdsNeverReused
<1>1. ASSUME IInv, [Next]_vars
      PROVE  /\ [lastid' >= lastid]_vars
             /\ [\A x \in 1..lastid : x \notin ToSet(dbq) => x \notin ToSet(dbq')]_vars
             /\ [\A x \in 1..lastid : x \notin ToSet(stmtq) => x \notin ToSet(stmtq')]_vars
  <2>1. lastid \in Nat
    BY <1>1, ModelAssumption DEF IInv, TypeOK
  <2>2. \A x \in 1..lastid : x # lastid + 1
    BY <2>1
  <2>3. DbsKept /\ StmtsKept
    BY <1>1, NextKept
  <2>4. lastid' >= lastid
    BY <1>1, <2>1, LastidGrows
  <2>5. QED
    BY <2>2, <2>3, <2>4 DEF DbsKept, StmtsKept
<1>2. QED
  BY <1>1, Inductive, PTL DEF Spec, IdsNeverReused

-----------------------------------------------------------------------------
(* Roles. *)

LEMMA ReachSelf ==
  ASSUME NEW r \in Roles
  PROVE  r \in Reach(r)
BY DEF Reach

LEMMA ReachNext ==
  ASSUME NEW r, NEW x \in Reach(r), NEW y \in RoleNext[x]
  PROVE  y \in Reach(r)
<1>1. x \in Roles /\ y \in Roles
  BY ConfigAssumption DEF Reach
<1>2. QED
  BY <1>1 DEF Reach

\* Roles only ever follow the configured transitions.
RoleInv == Roles # {} => role \in Reach(DefRole)

LEMMA RoleStep ==
  ASSUME RoleInv, RoleKept
  PROVE  RoleInv'
BY ReachNext DEF RoleInv, RoleKept, Reach

LEMMA HeldStep ==
  ASSUME IInv, RoleInv, HeldWithinReach, DbsKept, StmtsKept, RoleKept
  PROVE  HeldWithinReach'
<1> SUFFICES ASSUME Roles # {} PROVE HeldWithinReach'
  BY DEF HeldWithinReach
<1>1. role \in Roles /\ role \in Reach(DefRole) /\ role \in Reach(role)
  BY ReachSelf DEF RoleInv, Reach
<1>2. CASE role' = role
  <2>1. \A s \in ToSet(stmtq') : \E r \in Reach(DefRole) :
          stmt'[s].idx \in RoleStmts[r] /\ role' \in Reach(r)
    <3> SUFFICES ASSUME NEW s \in ToSet(stmtq')
                 PROVE  \E r \in Reach(DefRole) :
                          stmt'[s].idx \in RoleStmts[r] /\ role \in Reach(r)
      BY <1>2
    <3>1. CASE s \in ToSet(stmtq) /\ stmt'[s].idx = stmt[s].idx
      BY <3>1 DEF HeldWithinReach
    <3>2. CASE MayStmt(stmt'[s].idx)
      BY <1>1, <3>2 DEF MayStmt
    <3>3. QED
      BY <3>1, <3>2 DEF StmtsKept
  <2>2. \A d \in ToSet(dbq') : \E r \in Reach(DefRole) :
          db'[d].idx \in RoleSrcs[r] /\ role' \in Reach(r)
    <3> SUFFICES ASSUME NEW d \in ToSet(dbq')
                 PROVE  \E r \in Reach(DefRole) :
                          db'[d].idx \in RoleSrcs[r] /\ role \in Reach(r)
      BY <1>2
    <3>1. CASE d \in ToSet(dbq) /\ db'[d].idx = db[d].idx
      BY <3>1 DEF HeldWithinReach
    <3>2. CASE MaySrc(db'[d].idx)
      BY <1>1, <3>2 DEF MaySrc
    <3>3. QED
      BY <3>1, <3>2 DEF DbsKept
  <2>3. QED
    BY <2>1, <2>2 DEF HeldWithinReach
<1>3. CASE role' \in RoleNext[role] /\ UNCHANGED <<dbq, stmtq, db, stmt>>
  <2>1. \A r : role \in Reach(r) => role' \in Reach(r)
    BY <1>3, ReachNext
  <2>2. QED
    BY <1>3, <2>1 DEF HeldWithinReach
<1>4. QED
  BY <1>2, <1>3 DEF RoleKept

\* Changing role never lets a box hold what no role on its way allowed.
THEOREM RightsAreBounded == Spec => []HeldWithinReach
<1>1. Init => RoleInv /\ HeldWithinReach
  BY ConfigAssumption, ReachSelf, EmptyMember DEF Init, RoleInv, HeldWithinReach
<1>2. IInv /\ RoleInv /\ HeldWithinReach /\ [Next]_vars
        => RoleInv' /\ HeldWithinReach'
  BY NextKept, RoleStep, HeldStep
<1>3. QED
  BY <1>1, <1>2, Inductive, PTL DEF Spec

-----------------------------------------------------------------------------
(* Transactions. *)

\* A step of the server closes a connection only in sqlbox_op_close.
LEMMA CloseStep ==
  ASSUME IInv, NEW id, OpClose(id), NEW d \in Ids,
         conn[d] # "none", conn'[d] = "none"
  PROVE  conn[d] = "auto" /\ Idle(d)
<1>1. CASE Fail
  BY <1>1 DEF Fail, sqlvars
<1>2. ASSUME NEW e \in Lookup(dbq, id), MayClose(e),
             IF Idle(e) THEN conn' = [conn EXCEPT ![e] = "none"] ELSE UNCHANGED conn
      PROVE  conn[d] = "auto" /\ Idle(d)
  <2>1. d = e /\ Idle(e)
    BY <1>2 DEF IInv, TypeOK
  <2>2. conn[d] # "trans"
    BY <1>2, <2>1 DEF MayClose, IInv, NoHiddenTransaction
  <2>3. QED
    BY <2>1, <2>2 DEF IInv, TypeOK
<1>3. QED
  BY <1>1, <1>2 DEF OpClose

\* A successful close never throws away a transaction or a statement.
THEOREM ClosingIsClean == Spec => CloseDiscardsNothing
<1>1. ASSUME IInv, Next, NEW d \in Ids,
             conn[d] # "none", conn'[d] = "none", phase = "serve"
      PROVE  conn[d] = "auto" /\ Idle(d)
  <2>1. CASE \E id \in RequestId : OpClose(id)
    BY <1>1, <2>1, CloseStep
  <2>2. CASE UNCHANGED conn
    BY <1>1, <2>2
  <2>3. ASSUME NEW id \in RequestId, NEW i, NEW fl, OpExec(id, i, fl)
        PROVE  conn[d] = "auto" /\ Idle(d)
    <3>1. CASE Fail
      BY <1>1, <3>1 DEF Fail, sqlvars
    <3>2. ASSUME NEW e \in Lookup(dbq, id), Run(e, i, fl)
          PROVE  conn[d] = "auto" /\ Idle(d)
      BY <1>1, <3>2, LookupMember, RunConn DEF IInv, TypeOK
    <3>3. QED
      BY <2>3, <3>1, <3>2 DEF OpExec
  <2>4. ASSUME NEW id \in RequestId, OpStep(id)
        PROVE  conn[d] = "auto" /\ Idle(d)
    <3>1. CASE Fail
      BY <1>1, <3>1 DEF Fail, sqlvars
    <3>2. ASSUME NEW s \in Lookup(stmtq, id),
                 Run(stmt[s].db, stmt[s].idx, stmt[s].flags)
          PROVE  conn[d] = "auto" /\ Idle(d)
      <4>1. stmt[s].db \in Ids
        BY LookupMember, MemberIsId, <1>1 DEF IInv, TypeOK, QueuesAgree
      <4>2. QED
        BY <1>1, <3>2, <4>1, RunConn
    <3>3. QED
      BY <2>4, <3>1, <3>2 DEF OpStep
  <2>5. ASSUME NEW id \in RequestId, NEW t \in 0..MaxTrans,
               OpTransOpen(id, t) \/ OpTransClose(id, t)
        PROVE  conn[d] = "auto" /\ Idle(d)
    BY <1>1, <2>5 DEF OpTransOpen, OpTransClose, Fail, sqlvars, IInv, TypeOK
  <2>6. ASSUME NEW i, OpOpen(i)
        PROVE  conn[d] = "auto" /\ Idle(d)
    BY <1>1, <2>6 DEF OpOpen, Fail, sqlvars, IInv, TypeOK
  <2>7. ASSUME NEW id \in RequestId, NEW i, NEW fl, OpPrepareBind(id, i, fl)
        PROVE  conn[d] = "auto" /\ Idle(d)
    BY <1>1, <2>7 DEF OpPrepareBind, Fail, sqlvars
  <2>8. CASE Hangup \/ OpPing \/ \E r \in Roles \cup {None} : OpRole(r)
    BY <1>1, <2>8 DEF Hangup, OpPing, OpRole, Fail, sqlvars
  <2>9. ASSUME NEW id \in RequestId, NEW i,
               OpLastid(id) \/ OpFinalise(id) \/ OpRebind(id) \/ PrepareUnacknowledged(id, i)
        PROVE  conn[d] = "auto" /\ Idle(d)
    BY <1>1, <2>9 DEF OpLastid, OpFinalise, OpRebind, PrepareUnacknowledged, Fail, sqlvars
  <2>10. ~Clear
    BY <1>1 DEF Clear, ClearStmt, ClearDb, Exit
  <2>11. ~\E e \in ToSet(dbq) : FailRolledBack(e)
    BY <1>1 DEF FailRolledBack, IInv, TypeOK
  <2>12. QED
    BY <1>1, <2>1, <2>3, <2>4, <2>5, <2>6, <2>7, <2>8, <2>9, <2>10, <2>11 DEF Next
<1>2. ASSUME IInv, [Next]_vars
      PROVE  [\A d \in Ids : conn[d] # "none" /\ conn'[d] = "none" /\ phase = "serve" =>
                conn[d] = "auto" /\ Idle(d)]_vars
  BY <1>1, <1>2
<1>3. QED
  BY <1>2, Inductive, PTL DEF Spec, CloseDiscardsNothing

-----------------------------------------------------------------------------
(* The teardown comes to an end. *)

\* A step of sqlbox_clear frees a database or a statement, or it is the last one,
\* after which nothing is open.
FreesOrEnds ==
  \/ phase' = "clear" /\ Len(dbq') + Len(stmtq') < Len(dbq) + Len(stmtq)
  \/ /\ phase' = "exited"
     /\ \A x \in Ids : conn'[x] = "none" /\ handle'[x] = 0

LEMMA ClearStmtFrees ==
  ASSUME IInv, NEW s \in Ids, ClearStmt(s)
  PROVE  FreesOrEnds
<1>1. Head(dbq) \in ToSet(dbq)
  BY TailMember DEF ClearStmt, IInv, TypeOK, QueueOrder
<1>2. s \in ToSet(stmtq)
  BY <1>1 DEF ClearStmt, IInv, QueuesAgree
<1>3. Len(stmtq) \in Nat /\ Len(dbq) \in Nat /\ DOMAIN stmtq = 1..Len(stmtq)
  BY LenProperties DEF IInv, TypeOK
<1>4. PICK k \in 1..Len(stmtq) : stmtq[k] = s /\ Unlink(stmtq, s) = RemoveAt(stmtq, k)
  BY <1>2, <1>3 DEF ToSet, Unlink
<1>5. Len(stmtq') = Len(stmtq) - 1
  BY <1>4, RemoveAtElements DEF ClearStmt, Release, IInv, TypeOK
<1>6. dbq' = dbq /\ phase' = "clear"
  BY DEF ClearStmt
<1>7. QED
  BY <1>3, <1>5, <1>6 DEF FreesOrEnds

LEMMA ClearDbFrees ==
  ASSUME IInv, ClearDb
  PROVE  FreesOrEnds
<1>1. dbq \in Seq(Ids) /\ dbq # <<>> /\ Len(stmtq) \in Nat
  BY LenProperties DEF ClearDb, IInv, TypeOK
<1>2. Len(Tail(dbq)) = Len(dbq) - 1 /\ Len(dbq) \in Nat
  BY <1>1, HeadTailProperties, LenProperties
<1>3. dbq' = Tail(dbq) /\ stmtq' = stmtq /\ phase' = "clear"
  BY DEF ClearDb
<1>4. QED
  BY <1>1, <1>2, <1>3 DEF FreesOrEnds

LEMMA ExitEnds ==
  ASSUME IInv, Exit
  PROVE  FreesOrEnds
<1>1. ToSet(dbq) = {} /\ ToSet(stmtq) = {}
  BY EmptyMember DEF Exit, IInv, QueuesAgree
<1>2. \A x \in Ids : conn[x] = "none" /\ handle[x] = 0
  BY <1>1 DEF IInv, HandlesOwned
<1>3. QED
  BY <1>2 DEF Exit, FreesOrEnds, sqlvars

\* Once a request has failed or the client is gone no handler runs any more, and
\* each step of the teardown leaves fewer databases and statements, until the
\* process exits with nothing open: what of ServerExits is not fairness
\* (alloc.c, sqlbox_clear).
THEOREM TeardownEnds == Spec => [][phase = "clear" => FreesOrEnds]_vars
<1>1. ASSUME IInv, Next, phase = "clear"
      PROVE  FreesOrEnds
  <2>1. Clear
    BY <1>1 DEF Next, Serving, Hangup, OpPing, OpRole, OpOpen, OpLastid, OpClose,
       OpFinalise, OpStep, OpRebind, OpTransOpen, OpTransClose,
       PrepareUnacknowledged, OpExec, OpPrepareBind, FailRolledBack, Fail
  <2>2. QED
    BY <1>1, <2>1, ClearStmtFrees, ClearDbFrees, ExitEnds DEF Clear
<1>2. IInv /\ [Next]_vars => [phase = "clear" => FreesOrEnds]_vars
  BY <1>1
<1>3. QED
  BY <1>2, Inductive, PTL DEF Spec

-----------------------------------------------------------------------------
\* Every open database after the step was open before, with the same
\* transaction in the server and in SQLite.
SameTrans ==
  \A d \in ToSet(dbq') :
    d \in ToSet(dbq) /\ db'[d].trans = db[d].trans /\ conn'[d] = conn[d]

LEMMA ReleaseSameTrans ==
  ASSUME IInv, NEW s \in ToSet(stmtq), Release(s), UNCHANGED <<dbq, conn>>
  PROVE  SameTrans
<1>1. \A d \in Ids : db'[d].trans = db[d].trans
  BY DEF IInv, TypeOK, Release, DbType
<1>2. QED
  BY <1>1, MemberIsId DEF IInv, TypeOK, SameTrans

\* Without rolling-back conflict clauses, what the server calls an open
\* transaction is one for as long as it serves.
THEOREM TransactionsAreReal ==
  ASSUME OrRollback = {}
  PROVE  Spec => []NamedTransactionIsOpen
<1> DEFINE Open == \A d \in ToSet(dbq) : db[d].trans # 0 => conn[d] = "trans"
<1>1. Init => NamedTransactionIsOpen
  BY EmptyMember DEF Init, NamedTransactionIsOpen
<1>2. ASSUME IInv, Open, SameTrans
      PROVE  Open'
  BY <1>2 DEF SameTrans
<1>3. ASSUME UNCHANGED <<dbq, db, conn>>
      PROVE  SameTrans
  BY <1>3 DEF SameTrans
<1>4. ASSUME IInv, Open, phase = "serve", phase' = "serve", Next
      PROVE  Open'
  <2>1. ~Fail /\ ~Clear /\ ~\E d \in ToSet(dbq) : FailRolledBack(d)
    BY <1>4 DEF Fail, FailRolledBack, Stop, Clear, ClearStmt, ClearDb, Exit
  <2>2. CASE UNCHANGED <<dbq, db, conn>>
    BY <1>2, <1>3, <1>4, <2>2
  <2>3. ASSUME NEW i \in Sources \cup {None}, OpOpen(i)
        PROVE  Open'
    <3> DEFINE n == lastid + 1
               new == [FreedDb EXCEPT !.idx = i]
    <3>1. CASE /\ dbq' = Append(dbq, n)
               /\ db' = [db EXCEPT ![n] = new]
               /\ conn' = [conn EXCEPT ![n] = "auto"]
      <4>1. n \in Ids /\ \A x \in ToSet(dbq) : x < n
        BY <1>4, <2>3, FreshId DEF OpOpen
      <4>2. ToSet(dbq') = ToSet(dbq) \cup {n}
        BY <1>4, <3>1, <4>1, AppendMember DEF IInv, TypeOK, QueueOrder
      <4>3. new.trans = 0
        BY DEF FreedDb
      <4> HIDE DEF new, n
      <4>4. /\ db'[n] = new
            /\ \A d \in Ids \ {n} : db'[d] = db[d] /\ conn'[d] = conn[d]
        BY <1>4, <3>1, <4>1 DEF IInv, TypeOK
      <4>5. QED
        BY <1>4, <4>2, <4>3, <4>4, MemberIsId DEF IInv, TypeOK
    <3>2. QED
      BY <2>1, <2>2, <2>3, <3>1 DEF OpOpen, sqlvars
  <2>4. ASSUME NEW id \in RequestId, OpClose(id)
        PROVE  Open'
    <3>1. ASSUME NEW d \in Lookup(dbq, id), dbq' = Unlink(dbq, d),
                 db' = [db EXCEPT ![d] = FreedDb],
                 conn' = [conn EXCEPT ![d] = "none"] \/ UNCHANGED conn
          PROVE  SameTrans
      <4>1. d \in ToSet(dbq)
        BY <1>4, LookupMember DEF IInv, TypeOK
      <4>2. ToSet(dbq') = ToSet(dbq) \ {d}
        BY <1>4, <3>1, <4>1, UnlinkMember DEF IInv, TypeOK, QueueOrder
      <4>3. QED
        BY <1>4, <3>1, <4>2, MemberIsId DEF SameTrans, IInv, TypeOK
    <3>2. QED
      BY <1>2, <1>4, <2>1, <2>4, <3>1 DEF OpClose
  <2>5. ASSUME NEW id \in RequestId, NEW t \in 0..MaxTrans,
               OpTransOpen(id, t) \/ OpTransClose(id, t)
        PROVE  Open'
    <3>1. ASSUME NEW d \in Lookup(dbq, id), NEW u, NEW c,
                 db' = [db EXCEPT ![d].trans = u], conn' = [conn EXCEPT ![d] = c],
                 u = 0 \/ c = "trans", UNCHANGED dbq
          PROVE  Open'
      <4>1. d \in Ids
        BY <1>4, LookupMember DEF IInv, TypeOK
      <4>2. /\ db'[d].trans = u /\ conn'[d] = c
            /\ \A e \in Ids \ {d} : db'[e] = db[e] /\ conn'[e] = conn[e]
        BY <1>4, <3>1, <4>1 DEF IInv, TypeOK, DbType
      <4>3. QED
        BY <1>4, <3>1, <4>2, MemberIsId DEF IInv, TypeOK
    <3>2. QED
      BY <2>1, <2>5, <3>1 DEF OpTransOpen, OpTransClose
  <2>6. ASSUME NEW id \in RequestId, NEW i, NEW fl,
               \/ OpExec(id, i, fl) \/ OpStep(id) \/ OpRebind(id)
               \/ OpLastid(id) \/ PrepareUnacknowledged(id, i)
        PROVE  Open'
    BY <2>1, <2>2, <2>6 DEF OpExec, OpStep, OpRebind, OpLastid,
         PrepareUnacknowledged, Run, boxvars, sqlvars
  <2>7. ASSUME NEW id \in RequestId, NEW i, NEW fl, OpPrepareBind(id, i, fl)
        PROVE  Open'
    <3>1. ASSUME NEW d, NEW n, db' = [db EXCEPT ![d].stmtq = @ \cup {n}],
                 UNCHANGED <<dbq, conn>>
          PROVE  SameTrans
      <4>1. \A e \in Ids : db'[e].trans = db[e].trans
        BY <1>4, <3>1 DEF IInv, TypeOK, DbType
      <4>2. QED
        BY <1>4, <3>1, <4>1, MemberIsId DEF SameTrans, IInv, TypeOK
    <3>2. QED
      BY <1>2, <1>4, <2>1, <2>7, <3>1 DEF OpPrepareBind
  <2>8. ASSUME NEW id \in RequestId, OpFinalise(id)
        PROVE  Open'
    <3>1. ASSUME NEW s \in Lookup(stmtq, id), Release(s), UNCHANGED <<dbq, conn>>
          PROVE  SameTrans
      BY <1>4, <3>1, LookupMember, ReleaseSameTrans DEF IInv, TypeOK
    <3>2. QED
      BY <1>2, <1>4, <2>1, <2>8, <3>1 DEF OpFinalise
  <2>9. CASE Hangup \/ OpPing \/ \E r \in Roles \cup {None} : OpRole(r)
    BY <2>1, <2>2, <2>9 DEF Hangup, OpPing, OpRole, boxvars, sqlvars
  <2>10. QED
    BY <1>4, <2>1, <2>3, <2>4, <2>5, <2>6, <2>7, <2>8, <2>9 DEF Next
<1>5. ASSUME IInv, NamedTransactionIsOpen, [Next]_vars
      PROVE  NamedTransactionIsOpen'
  <2> SUFFICES ASSUME phase' = "serve" PROVE Open'
    BY DEF NamedTransactionIsOpen
  <2>1. phase = "serve"
    <3>1. CASE Clear
      BY <3>1 DEF Clear, ClearStmt, ClearDb, Exit
    <3>2. CASE UNCHANGED vars
      BY <3>2 DEF vars
    <3>3. QED
      BY <1>5, <3>1, <3>2 DEF Next, Serving, Hangup, OpPing, OpRole, OpOpen, OpLastid, OpClose,
         OpFinalise, OpStep, OpRebind, OpTransOpen, OpTransClose, PrepareUnacknowledged,
         OpExec, OpPrepareBind, FailRolledBack
  <2>2. Open
    BY <1>5, <2>1 DEF NamedTransactionIsOpen
  <2>3. CASE UNCHANGED vars
    BY <1>2, <1>3, <1>5, <2>2, <2>3 DEF vars, boxvars, sqlvars
  <2>4. QED
    BY <1>4, <1>5, <2>1, <2>2, <2>3
<1>6. QED
  BY <1>1, <1>5, Inductive, PTL DEF Spec

=============================================================================
