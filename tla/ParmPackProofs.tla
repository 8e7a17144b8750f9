--------------------------- MODULE ParmPackProofs ---------------------------
(***************************************************************************)
(* Proofs about ParmPack: its types, and that the two passes of packing    *)
(* never differ by more than four bytes, for sets of any number of         *)
(* parameters of any lengths.                                              *)
(*                                                                         *)
(* The passes lay the same parameters out from two different places.  What *)
(* is invariant is the distance between the places they have reached: as   *)
(* long as both are on the same side of a multiple of eight it does not    *)
(* change, and the first integer or float fixes it for good.               *)
(***************************************************************************)
EXTENDS ParmPack, SequenceTheorems, TLAPS

-----------------------------------------------------------------------------
(* Alignment. *)

LEMMA AlignFacts ==
  ASSUME NEW n \in Nat
  PROVE  /\ Align(n, 4) \in Nat /\ Align(n, 4) >= n /\ Align(n, 4) <= n + 3 /\ Align(n, 4) % 4 = 0
         /\ Align(n, 8) \in Nat /\ Align(n, 8) >= n /\ Align(n, 8) <= n + 7 /\ Align(n, 8) % 8 = 0
         /\ n % 4 = 0 => Align(n, 4) = n
         /\ n % 8 = 0 => Align(n, 8) = n
         /\ n % 8 = 4 => Align(n, 8) = n + 4
BY DEF Align

\* Padding to four bytes moves along with its place.
LEMMA AlignShift ==
  ASSUME NEW n \in Nat, NEW m \in Nat, NEW d \in Int, d % 4 = 0, m = n + d
  PROVE  Align(m, 4) = Align(n, 4) + d
BY DEF Align

LEMMA AlignShift8 ==
  ASSUME NEW n \in Nat, NEW m \in Nat, NEW d \in Int, d % 8 = 0, m = n + d
  PROVE  Align(m, 8) = Align(n, 8) + d
BY DEF Align

-----------------------------------------------------------------------------
(* The layout of one parameter. *)

LEMMA SizeFacts ==
  ASSUME NEW p \in Parms
  PROVE  /\ Size(p) \in Nat /\ p.type \in Types
         /\ Wide(p.type) => Size(p) = 8
<1>1. /\ p.type \in Types /\ p.sz \in Nat /\ p.strlen \in Nat
  <2>1. Lengths \subseteq Nat /\ 0 \in Nat
    BY SizesAssumption
  <2>2. CASE p \in [type : Types \ {"BLOB", "STRING"}, sz : {0}, strlen : {0}]
    BY <2>1, <2>2
  <2>3. CASE p \in [type : {"BLOB"}, sz : Lengths, strlen : {0}]
    BY <2>1, <2>3 DEF Types
  <2>4. CASE p \in [type : {"STRING"}, sz : {0}, strlen : Lengths]
    BY <2>1, <2>4 DEF Types
  <2>5. CASE p \in [type : {"STRING"}, sz : Lengths \ {0}, strlen : {0}]
    BY <2>1, <2>5 DEF Types
  <2>6. QED
    BY <2>2, <2>3, <2>4, <2>5 DEF Parms
<1>2. QED
  BY <1>1 DEF Size, Wide

LEMMA DataFacts ==
  ASSUME NEW n \in Nat, NEW p \in Parms
  PROVE  /\ DataAt(n, p) \in Nat /\ DataAt(n, p) >= Align(n, 4) + 4
         /\ After(n, p) \in Nat /\ After(n, p) >= n
         /\ Counted(p.type) => ~Wide(p.type) /\ DataAt(n, p) = Align(n, 4) + 8
<1>1. Align(n, 4) \in Nat /\ Align(n, 4) >= n /\ Align(n, 4) + 4 \in Nat
  BY AlignFacts
<1>2. Align(Align(n, 4) + 4, 8) \in Nat /\ Align(Align(n, 4) + 4, 8) >= Align(n, 4) + 4
  BY <1>1, AlignFacts
<1>3. Size(p) \in Nat
  BY SizeFacts
<1>4. Counted(p.type) => ~Wide(p.type)
  BY DEF Counted, Wide
<1>5. DataAt(n, p) \in Nat /\ DataAt(n, p) >= Align(n, 4) + 4
  BY <1>1, <1>2 DEF DataAt
<1>6. QED
  BY <1>1, <1>3, <1>4, <1>5 DEF After, DataAt

\* Anything but an integer or a float moves along with its place, if that moves
\* by a multiple of four; these do, if it moves by a multiple of eight.
LEMMA AfterShift ==
  ASSUME NEW p \in Parms, NEW n \in Nat, NEW m \in Nat, NEW d \in Int, m = n + d,
         d % 8 = 0 \/ (d % 4 = 0 /\ ~Wide(p.type))
  PROVE  After(m, p) = After(n, p) + d
<1>1. d % 4 = 0
  OBVIOUS
<1>2. Align(m, 4) = Align(n, 4) + d /\ Align(n, 4) \in Nat /\ Align(m, 4) \in Nat
  BY <1>1, AlignShift, AlignFacts
<1>3. ASSUME d % 8 = 0
      PROVE  Align(Align(m, 4) + 4, 8) = Align(Align(n, 4) + 4, 8) + d
  BY <1>2, <1>3, AlignShift8
<1>4. Size(p) \in Nat /\ Align(Align(n, 4) + 4, 8) \in Nat
  <2>1. Align(n, 4) + 4 \in Nat
    BY <1>2
  <2>2. QED
    BY <2>1, SizeFacts, AlignFacts
<1>5. CASE Wide(p.type)
  BY <1>3, <1>4, <1>5 DEF After, DataAt
<1>6. CASE ~Wide(p.type)
  BY <1>2, <1>4, <1>6 DEF After, DataAt
<1>7. QED
  BY <1>5, <1>6

\* An integer or a float whose place moves by four modulo eight, from any of two
\* places that differ by at most four, ends at a place that differs by four.
LEMMA AfterWide ==
  ASSUME NEW p \in Parms, Wide(p.type), NEW n \in Nat, NEW m \in Nat, NEW s \in Nat,
         s % 8 = 4, m \in {s + n - 4, s + n, s + n + 4}
  PROVE  /\ m = s + n - 4 => After(m, p) = s + After(n, p) - 4
         /\ m = s + n + 4 => After(m, p) = s + After(n, p) + 4
         /\ m = s + n => After(m, p) \in {s + After(n, p) - 4, s + After(n, p) + 4}
<1>1. m = s + n - 4 => After(m, p) = s + After(n, p) - 4
  <2>1. (s - 4) % 8 = 0 /\ s - 4 \in Int
    OBVIOUS
  <2>2. m = s + n - 4 => m = n + (s - 4)
    OBVIOUS
  <2>3. m = s + n - 4 => After(m, p) = After(n, p) + (s - 4)
    BY <2>1, <2>2, AfterShift
  <2>4. QED
    BY <2>3, DataFacts
<1>2. m = s + n + 4 => After(m, p) = s + After(n, p) + 4
  <2>1. (s + 4) % 8 = 0 /\ s + 4 \in Int
    OBVIOUS
  <2>2. m = s + n + 4 => m = n + (s + 4)
    OBVIOUS
  <2>3. m = s + n + 4 => After(m, p) = After(n, p) + (s + 4)
    BY <2>1, <2>2, AfterShift
  <2>4. QED
    BY <2>3, DataFacts
<1>3. ASSUME m = s + n
      PROVE  After(m, p) \in {s + After(n, p) - 4, s + After(n, p) + 4}
  <2> DEFINE a == Align(n, 4)
  <2>1. Align(m, 4) = a + s /\ a \in Nat /\ a % 4 = 0 /\ s % 4 = 0
    <3>1. s % 4 = 0 /\ s \in Int /\ m = n + s
      BY <1>3
    <3>2. QED
      BY <3>1, AlignShift, AlignFacts
  <2> HIDE DEF a
  <2>2. Align(a + s + 4, 8) \in {s + Align(a + 4, 8) - 4, s + Align(a + 4, 8) + 4}
    <3>1. CASE a % 8 = 4
      <4>1. (a + 4) % 8 = 0 /\ (a + s + 4) % 8 = 4
        BY <2>1, <3>1
      <4>2. Align(a + 4, 8) = a + 4 /\ Align(a + s + 4, 8) = a + s + 4 + 4
        BY <2>1, <4>1 DEF Align
      <4>3. QED
        BY <2>1, <4>2
    <3>2. CASE a % 8 = 0
      <4>1. (a + 4) % 8 = 4 /\ (a + s + 4) % 8 = 0
        BY <2>1, <3>2
      <4>2. Align(a + 4, 8) = a + 4 + 4 /\ Align(a + s + 4, 8) = a + s + 4
        BY <2>1, <4>1 DEF Align
      <4>3. QED
        BY <2>1, <4>2
    <3>3. QED
      BY <2>1, <3>1, <3>2
  <2>3. Size(p) = 8
    BY SizeFacts
  <2>4. After(n, p) = Align(a + 4, 8) + 8 /\ After(m, p) = Align(a + s + 4, 8) + 8
    BY <2>1, <2>3 DEF After, DataAt, a
  <2>5. Align(a + 4, 8) \in Nat
    <3>1. a + 4 \in Nat
      BY <2>1
    <3>2. QED
      BY <3>1, AlignFacts
  <2>6. QED
    BY <2>2, <2>4, <2>5
<1>4. QED
  BY <1>1, <1>2, <1>3

\* How far the passes are apart after one more parameter.
LEMMA DistanceKept ==
  ASSUME NEW s \in Nat, NEW o \in Nat, NEW e \in Nat, NEW p \in Parms
  PROVE  /\ s % 8 = 0 /\ o + 8 = s + e => After(o, p) + 8 = s + After(e, p)
         /\ s % 8 = 4 /\ o \in {s + e - 4, s + e, s + e + 4} =>
              /\ After(o, p) \in {s + After(e, p) - 4, s + After(e, p), s + After(e, p) + 4}
              /\ After(o, p) = s + After(e, p) + 4 => o = s + e + 4 \/ Wide(p.type)
<1> DEFINE after == After(e, p)
<1>1. after \in Nat /\ After(o, p) \in Nat
  BY DataFacts
<1>2. ASSUME s % 8 = 0, o + 8 = s + e PROVE After(o, p) + 8 = s + after
  <2>1. (s - 8) % 8 = 0 /\ s - 8 \in Int /\ o = e + (s - 8)
    BY <1>2
  <2>2. After(o, p) = after + (s - 8)
    BY <2>1, AfterShift
  <2> HIDE DEF after
  <2>3. QED
    BY <1>1, <2>2
<1>3. ASSUME s % 8 = 4, Wide(p.type), o \in {s + e - 4, s + e, s + e + 4}
      PROVE  After(o, p) \in {s + after - 4, s + after, s + after + 4}
  BY <1>3, AfterWide
<1>4. ASSUME s % 8 = 4, ~Wide(p.type), NEW x \in {-4, 0, 4}, o = s + e + x
      PROVE  After(o, p) = s + after + x
  <2>1. (s + x) % 4 = 0 /\ s + x \in Int /\ o = e + (s + x)
    <3>1. s % 4 = 0 /\ x \in Int /\ x % 4 = 0
      BY <1>4
    <3>2. QED
      BY <1>4, <3>1
  <2>2. After(o, p) = after + (s + x)
    BY <1>4, <2>1, AfterShift
  <2> HIDE DEF after
  <2>3. QED
    BY <1>1, <2>2
<1>5. ASSUME s % 8 = 4, ~Wide(p.type)
      PROVE  /\ o = s + e - 4 => After(o, p) = s + after - 4
             /\ o = s + e => After(o, p) = s + after
             /\ o = s + e + 4 => After(o, p) = s + after + 4
  <2>1. o = s + e - 4 => o = s + e + (-4)
    OBVIOUS
  <2>2. o = s + e => o = s + e + 0
    OBVIOUS
  <2>3. /\ o = s + e + (-4) => After(o, p) = s + after + (-4)
        /\ o = s + e + 0 => After(o, p) = s + after + 0
        /\ o = s + e + 4 => After(o, p) = s + after + 4
    BY <1>4, <1>5
  <2> HIDE DEF after
  <2>4. QED
    BY <1>1, <2>1, <2>2, <2>3
<1> HIDE DEF after
<1>6. ASSUME s % 8 = 4, o \in {s + e - 4, s + e, s + e + 4}
      PROVE  /\ After(o, p) \in {s + after - 4, s + after, s + after + 4}
             /\ After(o, p) = s + after + 4 => o = s + e + 4 \/ Wide(p.type)
  <2>1. CASE Wide(p.type)
    BY <1>3, <1>6, <2>1
  <2>2. CASE ~Wide(p.type)
    BY <1>1, <1>5, <1>6, <2>2
  <2>3. QED
    BY <2>1, <2>2
<1>7. QED
  BY <1>2, <1>6 DEF after

-----------------------------------------------------------------------------
(* The invariant. *)

\* The estimate after the set's first parameters, and the place packing has come to.
Chain(n) ==
  /\ Len(est) = n /\ est[1] = Prologue(start)
  /\ \A k \in 1..n : est[k] <= est[n]
  /\ \A k \in 1..n - 1 : est[k + 1] = After(est[k], Set[k])

Distance ==
  /\ start % 8 = 0 => offs + 8 = start + est[done + 1]
  /\ start % 8 = 4 =>
       /\ offs \in {start + est[done + 1] - 4, start + est[done + 1], start + est[done + 1] + 4}
       /\ offs = start + est[done + 1] + 4 => \E i \in 1..done : Wide(Set[i].type)

Short ==
  offs > bufsz =>
    /\ offs <= bufsz + 4
    /\ start % 8 = 4
    /\ \E i \in DOMAIN Set : Wide(Set[i].type)

PackInv ==
  /\ pc = "begin" => offs % 4 = 0
  /\ pc = "estimate" =>
       /\ sets # <<>> /\ start % 4 = 0 /\ offs = start
       /\ Len(est) \in 1..Len(Set) + 1 /\ Chain(Len(est))
  /\ pc = "pack" =>
       /\ sets # <<>> /\ start % 4 = 0
       /\ Chain(Len(Set) + 1)
       /\ bufsz >= start + Align(est[Len(Set) + 1], 4)
       /\ done \in 0..Len(Set)
       /\ Distance
  /\ pc = "packed" \/ (pc = "begin" /\ sets # <<>>) => sets # <<>> /\ Short

FieldsInv == \A f \in mem :
  /\ f.at \in Nat /\ f.size \in Nat
  /\ f.what \in {"count", "length"} => f.val \in Nat

\* TypeOK with what is in the fields.
IInv == TypeOK /\ FieldsInv /\ PackInv

LEMMA LastFacts ==
  ASSUME NEW ss \in Seq(Sets), ss # <<>>
  PROVE  /\ Last(ss) \in Seq(Parms) /\ Len(Last(ss)) \in Nat
         /\ DOMAIN Last(ss) = 1..Len(Last(ss))
         /\ \A i \in 1..Len(Last(ss)) : Last(ss)[i] \in Parms
<1>1. Len(ss) \in 1..Len(ss)
  BY EmptySeq, LenProperties
<1>2. Last(ss) \in Sets
  BY <1>1, ElementOfSeq DEF Last
<1>3. PICK n \in 0..MaxParms : Last(ss) \in [1..n -> Parms]
  BY <1>2 DEF Sets
<1>4. n \in Nat /\ Last(ss) \in Seq(Parms)
  BY <1>3, SizesAssumption, SeqDef
<1>5. QED
  BY <1>4, LenProperties, ElementOfSeq

LEMMA SetFacts ==
  ASSUME TypeOK, sets # <<>>
  PROVE  /\ Set \in Seq(Parms) /\ Len(Set) \in Nat
         /\ DOMAIN Set = 1..Len(Set) /\ \A i \in 1..Len(Set) : Set[i] \in Parms
BY LastFacts DEF TypeOK, Set

LEMMA PrologueFacts ==
  ASSUME NEW n \in Nat
  PROVE  /\ Prologue(n) \in Nat
         /\ n % 8 = 0 => Prologue(n) = 12
         /\ n % 8 = 4 => Prologue(n) = 8
BY DEF Prologue

\* While the set is packed, its end fits but for the four bytes.
LEMMA PackedShort ==
  ASSUME IInv, pc = "pack"
  PROVE  /\ Short
         /\ done = Len(Set) => (offs' = Align(offs, 4) /\ UNCHANGED <<bufsz, start, sets>> => Short')
<1> DEFINE e == est[done + 1]
           last == est[Len(Set) + 1]
<1>1. /\ sets # <<>> /\ start \in Nat /\ start % 4 = 0 /\ offs \in Nat /\ bufsz \in Nat
      /\ est \in Seq(Nat) /\ done \in 0..Len(Set) /\ Chain(Len(Set) + 1) /\ Distance
      /\ bufsz >= start + Align(last, 4)
  BY DEF IInv, TypeOK, PackInv
<1>2. Len(Set) \in Nat /\ DOMAIN Set = 1..Len(Set)
  BY <1>1, SetFacts DEF IInv
<1>3. done + 1 \in 1..Len(Set) + 1 /\ Len(Set) + 1 \in 1..Len(Set) + 1
  BY <1>1, <1>2
<1>4. e \in Nat /\ last \in Nat /\ e <= last
  <2>1. Len(est) = Len(Set) + 1
    BY <1>1 DEF Chain
  <2>2. e \in Nat /\ last \in Nat
    BY <1>1, <1>3, <2>1, ElementOfSeq
  <2>3. QED
    BY <1>1, <1>3, <2>2 DEF Chain
<1>5. start % 8 = 0 \/ start % 8 = 4
  BY <1>1
<1>6. /\ start % 8 = 0 => offs + 8 = start + e
      /\ start % 8 = 4 =>
           /\ offs \in {start + e - 4, start + e, start + e + 4}
           /\ offs = start + e + 4 => \E i \in DOMAIN Set : Wide(Set[i].type)
  <2>1. 1..done \subseteq DOMAIN Set
    BY <1>1, <1>2
  <2>2. QED
    BY <1>1, <2>1 DEF Distance
<1>7. Align(last, 4) >= last /\ Align(last, 4) \in Nat
  BY <1>4, AlignFacts
<1> HIDE DEF e, last
<1>8. Short
  <2> SUFFICES ASSUME offs > bufsz
               PROVE  offs <= bufsz + 4 /\ start % 8 = 4 /\ offs = start + e + 4
    BY <1>6 DEF Short
  <2>1. ASSUME offs + 8 = start + e PROVE FALSE
    <3>1. start \in Nat /\ offs \in Nat /\ bufsz \in Nat /\ bufsz >= start + Align(last, 4)
      BY <1>1
    <3>2. QED
      BY <1>4, <1>7, <2>1, <3>1
  <2>2. QED
    BY <1>1, <1>4, <1>5, <1>6, <1>7, <2>1
<1>9. ASSUME done = Len(Set), offs' = Align(offs, 4), UNCHANGED <<bufsz, start, sets>>
      PROVE  Short'
  <2>1. e = last
    BY <1>9 DEF e, last
  <2>2. start % 8 = 0 => Align(offs, 4) + 8 = start + Align(e, 4)
    <3>1. ASSUME start % 8 = 0 PROVE Align(offs, 4) = Align(e, 4) + (start - 8)
      <4>1. (start - 8) % 4 = 0 /\ offs = e + (start - 8) /\ start - 8 \in Int
        BY <1>1, <1>4, <1>6, <3>1
      <4>2. QED
        BY <1>1, <1>4, <4>1, AlignShift
    <3>2. Align(offs, 4) \in Nat /\ Align(e, 4) \in Nat /\ start \in Nat
      BY <1>1, <1>4, AlignFacts
    <3>3. QED
      BY <3>1, <3>2
  <2>3. start % 8 = 4 /\ offs # start + e + 4 => Align(offs, 4) <= start + Align(e, 4)
    <3>1. ASSUME start % 8 = 4, offs = start + e PROVE Align(offs, 4) = Align(e, 4) + start
      <4>1. start % 4 = 0 /\ offs = e + start /\ start \in Int
        BY <1>1, <1>4, <3>1
      <4>2. QED
        BY <1>1, <1>4, <4>1, AlignShift
    <3>2. ASSUME start % 8 = 4, offs = start + e - 4
          PROVE  Align(offs, 4) = Align(e, 4) + (start - 4)
      <4>1. (start - 4) % 4 = 0 /\ offs = e + (start - 4) /\ start - 4 \in Int
        BY <1>1, <1>4, <3>2
      <4>2. QED
        BY <1>1, <1>4, <4>1, AlignShift
    <3>3. Align(offs, 4) \in Nat /\ Align(e, 4) \in Nat
      BY <1>1, <1>4, AlignFacts
    <3>4. QED
      BY <1>1, <1>6, <3>1, <3>2, <3>3
  <2>4. start % 8 = 4 /\ offs = start + e + 4 => Align(offs, 4) = start + Align(e, 4) + 4
    <3>1. ASSUME start % 8 = 4, offs = start + e + 4
          PROVE  Align(offs, 4) = Align(e, 4) + (start + 4)
      <4>1. (start + 4) % 4 = 0 /\ offs = e + (start + 4) /\ start + 4 \in Int
        BY <1>1, <1>4, <3>1
      <4>2. QED
        BY <1>1, <1>4, <4>1, AlignShift
    <3>2. Align(e, 4) \in Nat
      BY <1>4, AlignFacts
    <3>3. QED
      BY <1>1, <3>1, <3>2
  <2>5. Align(offs, 4) \in Nat /\ Align(e, 4) \in Nat /\ bufsz >= start + Align(e, 4)
    BY <1>1, <1>4, <2>1, AlignFacts DEF last
  <2>6. ASSUME Align(offs, 4) > bufsz
        PROVE  Align(offs, 4) <= bufsz + 4 /\ start % 8 = 4 /\ offs = start + e + 4
    <3>1. start % 8 # 0
      BY <1>1, <2>2, <2>5, <2>6
    <3>2. start % 8 = 4
      BY <1>5, <3>1
    <3>3. offs = start + e + 4
      BY <1>1, <2>3, <2>5, <2>6, <3>2
    <3>4. QED
      BY <1>1, <2>4, <2>5, <3>2, <3>3
  <2>7. Set' = Set
    BY <1>9 DEF Set
  <2>8. QED
    BY <1>6, <1>9, <2>6, <2>7 DEF Short
<1>10. QED
  BY <1>8, <1>9

-----------------------------------------------------------------------------
(* Every step keeps the invariant. *)

LEMMA InitIInv == Init => IInv
<1> SUFFICES ASSUME Init PROVE IInv
  OBVIOUS
<1>1. TypeOK
  <2>1. offs \in Nat /\ bufsz \in Nat /\ start \in Nat
    BY SizesAssumption DEF Init
  <2>2. sets \in Seq(Sets) /\ est \in Seq(Nat)
    BY DEF Init
  <2>3. QED
    BY <2>1, <2>2 DEF Init, TypeOK
<1>2. FieldsInv
  BY DEF Init, FieldsInv
<1>3. PackInv
  BY DEF Init, PackInv
<1>4. QED
  BY <1>1, <1>2, <1>3 DEF IInv

LEMMA BeginRequestStep ==
  ASSUME IInv, NEW ps \in Sets, BeginRequest(ps)
  PROVE  IInv'
<1> USE DEF BeginRequest, readvars
<1>1. Prologue(offs) \in Nat /\ offs % 4 = 0
  BY PrologueFacts DEF IInv, TypeOK, PackInv
<1>2. est' \in Seq(Nat) /\ Len(est') = 1 /\ est'[1] = Prologue(start')
  BY <1>1
<1>3. sets' \in Seq(Sets) /\ sets' # <<>>
  OBVIOUS
<1>4. TypeOK'
  BY <1>2, <1>3 DEF IInv, TypeOK
<1>5. FieldsInv'
  BY DEF IInv, FieldsInv
<1>6. PackInv'
  <2>1. Chain(1)'
    BY <1>1, <1>2 DEF Chain
  <2>2. Len(Set') \in Nat
    BY <1>3, LastFacts DEF Set
  <2>3. Len(est') \in 1..Len(Set') + 1
    BY <1>2, <2>2
  <2>4. Chain(Len(est))'
    BY <1>2, <2>1
  <2>5. QED
    BY <1>1, <1>3, <2>3, <2>4 DEF PackInv
<1>7. QED
  BY <1>4, <1>5, <1>6 DEF IInv

LEMMA BeginRowStep ==
  ASSUME IInv, NEW ps \in Sets, BeginRow(ps)
  PROVE  IInv'
<1> USE DEF BeginRow, readvars
<1>1. Prologue(offs') \in Nat /\ offs' % 4 = 0 /\ offs' \in Nat /\ offs \in Nat
  BY PrologueFacts DEF IInv, TypeOK, PackInv
<1>2. est' \in Seq(Nat) /\ Len(est') = 1 /\ est'[1] = Prologue(start')
  BY <1>1
<1>3. sets' \in Seq(Sets) /\ sets' # <<>>
  <2>1. sets' = Append(sets, ps) /\ sets \in Seq(Sets)
    BY DEF IInv, TypeOK
  <2>2. Append(sets, ps) \in Seq(Sets) /\ Append(sets, ps) # <<>>
    BY <2>1, AppendProperties
  <2>3. QED
    BY <2>1, <2>2
<1>4. FieldsInv'
  <2>1. mem' \subseteq mem \cup {Field(offs, 4, "code", Len(sets'))}
    BY DEF Below
  <2>2. QED
    BY <1>1, <2>1 DEF IInv, FieldsInv, Field
<1>5. TypeOK'
  <2>1. bufsz' \in Nat
    BY <1>1, SizesAssumption DEF IInv, TypeOK
  <2>2. QED
    BY <1>1, <1>2, <1>3, <1>4, <2>1 DEF IInv, TypeOK, FieldsInv
<1>6. PackInv'
  <2>1. Chain(1)'
    BY <1>1, <1>2 DEF Chain
  <2>2. Len(Set') \in Nat
    BY <1>3, LastFacts DEF Set
  <2>3. Len(est') \in 1..Len(Set') + 1
    BY <1>2, <2>2
  <2>4. Chain(Len(est))'
    BY <1>2, <2>1
  <2>5. QED
    BY <1>1, <1>3, <2>3, <2>4 DEF PackInv
<1>7. QED
  BY <1>4, <1>5, <1>6 DEF IInv

LEMMA EstimateStep ==
  ASSUME IInv, Estimate
  PROVE  IInv'
<1> USE DEF Estimate, readvars
<1>0. PICK n : n = Len(est)
  OBVIOUS
<1>1. /\ sets # <<>> /\ est \in Seq(Nat) /\ n \in Nat /\ n >= 1 /\ Chain(n)
      /\ Len(Set) \in Nat /\ n <= Len(Set) /\ Set[n] \in Parms
  BY <1>0, LenProperties, SetFacts DEF IInv, TypeOK, PackInv
<1>2. est[n] \in Nat /\ Last(est) = est[n]
  BY <1>0, <1>1, ElementOfSeq DEF Last
<1>3. PICK x \in Nat : x = After(est[n], Set[n]) /\ x >= est[n]
  BY <1>1, <1>2, DataFacts
<1>4. est' = Append(est, x)
  BY <1>0, <1>2, <1>3
<1>5. /\ est' \in Seq(Nat) /\ Len(est') = n + 1 /\ est'[n + 1] = x
      /\ \A k \in 1..n : est'[k] = est[k]
  BY <1>0, <1>1, <1>4, AppendProperties
<1>6. Set' = Set /\ UNCHANGED <<pc, sets, start, offs, bufsz, mem>>
  BY DEF Set
<1>7. Chain(n + 1)'
  <2>1. est'[1] = Prologue(start')
    BY <1>1, <1>5, <1>6 DEF Chain
  <2>2. ASSUME NEW k \in 1..n + 1 PROVE est'[k] <= est'[n + 1]
    <3>1. CASE k = n + 1
      BY <1>5, <3>1
    <3>2. CASE k \in 1..n
      <4>1. est'[k] = est[k] /\ est[k] <= est[n] /\ est[k] \in Nat
        BY <1>1, <1>5, <3>2, ElementOfSeq DEF Chain
      <4>2. QED
        BY <1>2, <1>3, <1>5, <4>1
    <3>3. k = n + 1 \/ k \in 1..n
      BY <1>1
    <3>4. QED
      BY <3>1, <3>2, <3>3, Zenon
  <2>3. ASSUME NEW k \in 1..n PROVE est'[k + 1] = After(est'[k], Set[k])
    <3>1. CASE k = n
      BY <1>3, <1>5, <3>1
    <3>2. CASE k \in 1..n - 1
      <4>1. k + 1 \in 1..n /\ k \in 1..n
        BY <1>1, <3>2
      <4>2. est[k + 1] = After(est[k], Set[k])
        BY <1>1, <3>2 DEF Chain
      <4>3. QED
        BY <1>5, <4>1, <4>2
    <3>3. k = n \/ k \in 1..n - 1
      BY <1>1
    <3>4. QED
      BY <3>1, <3>2, <3>3, Zenon
  <2>4. QED
    BY <1>1, <1>5, <1>6, <2>1, <2>2, <2>3 DEF Chain
<1>8. TypeOK' /\ FieldsInv'
  BY <1>5, <1>6 DEF IInv, TypeOK, FieldsInv
<1>9. PackInv'
  BY <1>1, <1>5, <1>6, <1>7 DEF IInv, PackInv
<1>10. QED
  BY <1>8, <1>9 DEF IInv

\* Where the second pass begins, seen from the first.
LEMMA GrowStep ==
  ASSUME IInv, Grow
  PROVE  IInv'
<1>1. /\ sets # <<>> /\ est \in Seq(Nat) /\ Len(Set) \in Nat /\ offs = start /\ start \in Nat
      /\ start % 4 = 0 /\ Len(est) = Len(Set) + 1 /\ Chain(Len(Set) + 1) /\ bufsz \in Nat
  <2>1. /\ sets # <<>> /\ est \in Seq(Nat) /\ Len(Set) \in Nat /\ offs = start /\ start \in Nat
        /\ start % 4 = 0 /\ Len(est) \in 1..Len(Set) + 1 /\ Chain(Len(est)) /\ bufsz \in Nat
    BY SetFacts DEF IInv, TypeOK, PackInv, Grow
  <2>2. Len(est) > Len(Set)
    BY DEF Grow
  <2>3. Len(est) = Len(Set) + 1
    BY <2>1, <2>2
  <2>4. QED
    BY <2>1, <2>3
<1>2. /\ Len(Set) + 1 \in 1..Len(Set) + 1 /\ 1 \in 1..Len(Set) + 1
      /\ est[1] \in Nat /\ est[Len(Set) + 1] \in Nat /\ Last(est) = est[Len(Set) + 1]
      /\ est[1] = Prologue(start)
  BY <1>1, ElementOfSeq DEF Chain, Last
<1>3. UNCHANGED <<sets, est, start>> /\ Set' = Set
  BY DEF Grow, Set
<1> DEFINE size == start + Align(est[Len(Set) + 1], 4)
<1>4. size \in Nat /\ bufsz' \in Nat /\ bufsz' >= size
  <2>1. size \in Nat
    <3>1. Align(est[Len(Set) + 1], 4) \in Nat
      BY <1>2, AlignFacts
    <3>2. QED
      BY <1>1, <3>1
  <2>2. bufsz' = IF size > bufsz THEN size ELSE bufsz
    BY <1>1, <1>2 DEF Grow
  <2> HIDE DEF size
  <2>3. QED
    BY <1>1, <2>1, <2>2
<1>5. Align(start, 8) \in Nat /\ offs' = Align(start, 8) + 4
  <2>1. Align(start, 8) \in Nat
    BY <1>1, AlignFacts
  <2>2. offs' = Align(offs, 8) + 4
    BY DEF Grow
  <2>3. QED
    BY <1>1, <2>1, <2>2
<1>6. FieldsInv'
  <2>1. mem' \subseteq mem \cup {Field(Align(start, 8), 4, "count", Len(Set))}
    BY <1>1 DEF Below, Grow
  <2>2. QED
    BY <1>1, <1>5, <2>1 DEF IInv, FieldsInv, Field
<1>7. TypeOK'
  <2>1. offs' \in Nat /\ done' \in Nat /\ pc' = "pack"
    BY <1>5 DEF Grow
  <2>2. UNCHANGED <<caller, overran, readvars>>
    BY DEF Grow
  <2>3. QED
    BY <1>3, <1>4, <1>6, <2>1, <2>2 DEF IInv, TypeOK, FieldsInv, readvars
<1>8. Distance'
  <2>1. start % 8 = 0 => offs' + 8 = start + est[1]
    <3>1. start % 8 = 0 => Align(start, 8) = start /\ Prologue(start) = 12
      BY <1>1, PrologueFacts, AlignFacts
    <3>2. est[1] = Prologue(start) /\ offs' = Align(start, 8) + 4 /\ start \in Nat
      BY <1>1, <1>2, <1>5
    <3>3. QED
      BY <3>1, <3>2
  <2>2. start % 8 = 4 => offs' = start + est[1]
    <3>1. start % 8 = 4 => Align(start, 8) = start + 4 /\ Prologue(start) = 8
      BY <1>1, PrologueFacts, AlignFacts
    <3>2. est[1] = Prologue(start) /\ offs' = Align(start, 8) + 4 /\ start \in Nat
      BY <1>1, <1>2, <1>5
    <3>3. QED
      BY <3>1, <3>2
  <2>3. ASSUME start % 8 = 4
        PROVE  /\ offs' \in {start + est[1] - 4, start + est[1], start + est[1] + 4}
               /\ offs' # start + est[1] + 4
    <3>1. offs' = start + est[1] /\ start \in Nat /\ est[1] \in Nat
      BY <1>1, <1>2, <2>2, <2>3
    <3>2. QED
      BY <3>1
  <2>4. est'[done' + 1] = est[1] /\ start' = start
    BY <1>3 DEF Grow
  <2>5. QED
    BY <2>1, <2>3, <2>4, Zenon DEF Distance
<1>9. PackInv'
  <2>1. Chain(Len(Set) + 1)'
    BY <1>1, <1>3 DEF Chain
  <2>2. bufsz' >= start' + Align(est'[Len(Set') + 1], 4)
    BY <1>3, <1>4
  <2>3. done' \in 0..Len(Set')
    BY <1>1, <1>3 DEF Grow
  <2>4. pc' = "pack"
    BY DEF Grow
  <2>5. (Align(est[Len(Set) + 1], 4))' = Align(est'[Len(Set') + 1], 4)
    BY DEF Align
  <2>6. QED
    BY <1>1, <1>3, <1>8, <2>1, <2>2, <2>3, <2>4, <2>5 DEF PackInv
<1>10. QED
  BY <1>6, <1>7, <1>9 DEF IInv

LEMMA PackStep ==
  ASSUME IInv, Pack
  PROVE  IInv'
<1>1. /\ sets # <<>> /\ est \in Seq(Nat) /\ Len(Set) \in Nat /\ start \in Nat /\ offs \in Nat
      /\ start % 4 = 0 /\ Len(est) = Len(Set) + 1 /\ Chain(Len(Set) + 1) /\ Distance
      /\ done \in Nat /\ done < Len(Set)
  BY SetFacts DEF IInv, TypeOK, PackInv, Chain, Pack
<1>2. PICK d \in Nat : d = done
  BY <1>1
<1>3. d + 1 \in 1..Len(Set) /\ d + 1 \in 1..Len(Set) + 1 /\ d + 1 + 1 \in 1..Len(Set) + 1
  BY <1>1, <1>2
<1>4. PICK p \in Parms : p = Set[d + 1]
  BY <1>1, <1>3, SetFacts DEF IInv
<1>5. PICK e \in Nat : e = est[d + 1]
  BY <1>1, <1>3, ElementOfSeq
<1>6. est[d + 1 + 1] = After(e, p)
  <2>1. d + 1 \in 1..(Len(Set) + 1) - 1
    BY <1>1, <1>3
  <2>2. QED
    BY <1>1, <1>4, <1>5, <2>1 DEF Chain
<1>7. offs' = After(offs, p) /\ done' = d + 1 /\ UNCHANGED <<pc, sets, est, start, bufsz, caller, overran>>
  BY <1>2, <1>4 DEF Pack
<1>8. Set' = Set
  BY <1>7 DEF Set
<1>9. /\ After(offs, p) \in Nat /\ Align(offs, 4) \in Nat /\ DataAt(offs, p) \in Nat
      /\ Size(p) \in Nat /\ After(e, p) \in Nat
  BY <1>1, AlignFacts, DataFacts, SizeFacts
<1>10. FieldsInv'
  <2>1. mem' = mem
             \cup {Field(Align(offs, 4), 4, "type", p.type)}
             \cup (IF Counted(p.type) THEN {Field(Align(offs, 4) + 4, 4, "length", Size(p))} ELSE {})
             \cup {Field(DataAt(offs, p), Size(p), "data", <<Len(sets), d + 1>>)}
    BY <1>2, <1>4 DEF Pack
  <2>2. Align(offs, 4) + 4 \in Nat
    BY <1>9
  <2>3. ASSUME NEW f \in mem'
        PROVE  f.at \in Nat /\ f.size \in Nat /\ (f.what \in {"count", "length"} => f.val \in Nat)
    <3>1. CASE f \in mem
      BY <3>1 DEF IInv, FieldsInv
    <3>2. CASE f = Field(Align(offs, 4), 4, "type", p.type)
      BY <1>9, <3>2 DEF Field
    <3>3. CASE f = Field(Align(offs, 4) + 4, 4, "length", Size(p))
      BY <1>9, <2>2, <3>3 DEF Field
    <3>4. CASE f = Field(DataAt(offs, p), Size(p), "data", <<Len(sets), d + 1>>)
      BY <1>9, <3>4 DEF Field
    <3>5. QED
      BY <2>1, <2>3, <3>1, <3>2, <3>3, <3>4
  <2>4. QED
    BY <2>3 DEF FieldsInv
<1>11. TypeOK'
  <2>1. done' \in Nat /\ offs' \in Nat
    BY <1>7, <1>9
  <2>2. UNCHANGED readvars
    BY DEF Pack
  <2>3. QED
    BY <1>7, <1>10, <2>1, <2>2 DEF IInv, TypeOK, FieldsInv, readvars
<1>12. Distance'
  <2>1. /\ start % 8 = 0 => offs + 8 = start + e
        /\ start % 8 = 4 =>
             /\ offs \in {start + e - 4, start + e, start + e + 4}
             /\ offs = start + e + 4 => \E i \in 1..d : Wide(Set[i].type)
    BY <1>1, <1>2, <1>5 DEF Distance
  <2>2. /\ start % 8 = 0 => After(offs, p) + 8 = start + After(e, p)
        /\ start % 8 = 4 =>
             /\ After(offs, p) \in {start + After(e, p) - 4, start + After(e, p),
                                    start + After(e, p) + 4}
             /\ After(offs, p) = start + After(e, p) + 4 =>
                  \E i \in 1..d + 1 : Wide(Set[i].type)
    <3>1. (\E i \in 1..d : Wide(Set[i].type)) => \E i \in 1..d + 1 : Wide(Set[i].type)
      <4>1. 1..d \subseteq 1..d + 1
        OBVIOUS
      <4>2. QED
        BY <4>1
    <3>2. Wide(p.type) => \E i \in 1..d + 1 : Wide(Set[i].type)
      <4>1. d + 1 \in 1..d + 1
        OBVIOUS
      <4>2. QED
        BY <1>4, <4>1
    <3>3. /\ start % 8 = 0 /\ offs + 8 = start + e => After(offs, p) + 8 = start + After(e, p)
          /\ start % 8 = 4 /\ offs \in {start + e - 4, start + e, start + e + 4} =>
               /\ After(offs, p) \in {start + After(e, p) - 4, start + After(e, p),
                                      start + After(e, p) + 4}
               /\ After(offs, p) = start + After(e, p) + 4 =>
                    offs = start + e + 4 \/ Wide(p.type)
      BY <1>1, DistanceKept
    <3>4. QED
      BY <2>1, <3>1, <3>2, <3>3, Zenon
  <2>3. est'[done' + 1] = After(e, p)
    BY <1>6, <1>7
  <2>4. QED
    BY <1>7, <1>8, <2>1, <2>2, <2>3 DEF Distance
<1>13. PackInv'
  <2>1. Chain(Len(Set) + 1)'
    BY <1>1, <1>7, <1>8 DEF Chain
  <2>2. done' \in 0..Len(Set)
    BY <1>1, <1>3, <1>7
  <2>3. pc' = "pack" /\ bufsz' >= start' + Align(est'[Len(Set') + 1], 4)
    <3>1. pc = "pack"
      BY DEF Pack
    <3>2. bufsz >= start + Align(est[Len(Set) + 1], 4)
      BY <3>1 DEF IInv, PackInv
    <3>3. QED
      BY <1>7, <1>8, <3>1, <3>2
  <2>4. (Align(est[Len(Set) + 1], 4))' = Align(est'[Len(Set') + 1], 4)
    BY DEF Align
  <2>5. QED
    BY <1>1, <1>7, <1>8, <1>12, <2>1, <2>2, <2>3, <2>4 DEF PackInv
<1>14. QED
  BY <1>10, <1>11, <1>13 DEF IInv

LEMMA PackEndStep ==
  ASSUME IInv, PackEnd
  PROVE  IInv'
<1> USE DEF PackEnd, readvars
<1>1. sets # <<>> /\ offs \in Nat /\ pc = "pack"
  BY DEF IInv, TypeOK, PackInv
<1>2. Align(offs, 4) \in Nat /\ Align(offs, 4) % 4 = 0
  BY <1>1, AlignFacts
<1>3. offs' = Align(offs, 4) /\ UNCHANGED <<bufsz, start, sets>> /\ done = Len(Set)
  OBVIOUS
<1>4. Short'
  BY <1>1, <1>3, PackedShort
<1>5. pc' \in {"begin", "packed"}
  OBVIOUS
<1>6. overran' \in BOOLEAN
  BY DEF IInv, TypeOK
<1>7. TypeOK'
  BY <1>2, <1>5, <1>6 DEF IInv, TypeOK
<1>8. FieldsInv'
  BY DEF IInv, FieldsInv
<1>9. PackInv'
  <2> HIDE DEF PackEnd
  <2>1. QED
    BY <1>1, <1>2, <1>3, <1>4, <1>5 DEF PackInv
<1>10. QED
  BY <1>7, <1>8, <1>9 DEF IInv

\* The steps after packing, and the failure for lack of memory.
LEMMA RowsEndStep ==
  ASSUME IInv, RowsEnd
  PROVE  IInv'
<1> USE DEF RowsEnd, packvars, readvars
<1>1. TypeOK' /\ FieldsInv'
  BY DEF IInv, TypeOK, FieldsInv
<1>2. PackInv'
  BY DEF IInv, PackInv, Short, Set
<1>3. QED
  BY <1>1, <1>2 DEF IInv

LEMMA PackedStep ==
  ASSUME IInv, UNCHANGED packvars,
         pc' \in {"code", "count", "unpack", "read", "failed", "bad", "garbage"},
         done' \in Nat, rd' \in Nat, left' \in Nat, count' \in Nat
  PROVE  IInv'
<1> USE DEF packvars
<1>1. TypeOK' /\ FieldsInv'
  BY DEF IInv, TypeOK, FieldsInv
<1>2. PackInv'
  BY DEF PackInv
<1>3. QED
  BY <1>1, <1>2 DEF IInv

LEMMA StopStep ==
  ASSUME IInv, NoMemory \/ Fail \/ Garbage
  PROVE  IInv'
<1>1. /\ UNCHANGED <<packvars, done, readvars>> /\ pc' \in {"failed", "bad", "garbage"}
      /\ done \in Nat /\ rd \in Nat /\ left \in Nat /\ count \in Nat
  BY DEF NoMemory, Fail, Garbage, IInv, TypeOK
<1>2. QED
  BY <1>1, PackedStep DEF readvars

\* The bytes left are never counted below zero.
LEMMA RoomFacts ==
  ASSUME NEW l \in Int, NEW from \in Nat, NEW at \in Nat, at >= from, NEW size \in Nat,
         Room(l, from, at, size)
  PROVE  Skip(l, from, at) - size \in Nat /\ l \in Nat
<1>1. l \in Nat /\ Skip(l, from, at) \in Int /\ Skip(l, from, at) >= size
  BY DEF Room, Skip
<1>2. QED
  BY <1>1

LEMMA DeliverStep ==
  ASSUME IInv, pc = "unpack", NEW t, NEW from \in Nat, NEW at \in Nat, at >= from,
         NEW size \in Nat, NEW l \in Int, Deliver(t, from, at, size, l)
  PROVE  IInv'
<1>1. CASE Fail \/ Garbage
  BY <1>1, StopStep
<1>2. CASE /\ Room(l, from, at, size)
           /\ rd' = at + size /\ left' = Skip(l, from, at) - size
           /\ done' = done + 1 /\ UNCHANGED <<pc, packvars, count>>
  <2>1. rd' \in Nat /\ left' \in Nat /\ done' \in Nat /\ count' \in Nat
    BY <1>2, RoomFacts DEF IInv, TypeOK
  <2>2. QED
    BY <1>2, <2>1, PackedStep
<1>3. QED
  BY <1>1, <1>2 DEF Deliver

LEMMA UnpackStep ==
  ASSUME IInv, Unpack
  PROVE  IInv'
<1> DEFINE at == Align(rd, 4)
           next == at + 4
           l == Skip(left, rd, at) - 4
<1>1. rd \in Nat /\ left \in Nat /\ pc = "unpack"
  BY DEF IInv, TypeOK, Unpack
<1>2. at \in Nat /\ at >= rd /\ next \in Nat
  BY <1>1, AlignFacts
<1>3. CASE Fail \/ Garbage
  BY <1>3, StopStep
<1>4. ASSUME Room(left, rd, at, 4), NEW t \in Stored(at, 4, "type"),
             IF Counted(t) THEN DeliverCounted(t, next, l)
             ELSE IF Wide(t) THEN Deliver(t, next, Align(next, 8), 8, l)
             ELSE Deliver(t, next, next, 0, l)
      PROVE  IInv'
  <2>1. l \in Nat
    BY <1>1, <1>2, <1>4, RoomFacts
  <2> HIDE DEF at, next, l
  <2>2. CASE Counted(t) /\ DeliverCounted(t, next, l)
    <3>1. CASE Fail \/ Garbage
      BY <3>1, StopStep
    <3>2. ASSUME l >= 4, NEW n \in Stored(next, 4, "length"),
                 Deliver(t, next + 4, next + 4, n, l - 4)
          PROVE  IInv'
      <4>1. n \in Nat
        BY DEF Stored, IInv, FieldsInv
      <4>2. next + 4 \in Nat /\ l - 4 \in Int /\ next + 4 >= next + 4
        BY <1>2, <2>1
      <4>3. QED
        BY <1>1, <3>2, <4>1, <4>2, DeliverStep
    <3>3. QED
      BY <2>2, <3>1, <3>2 DEF DeliverCounted
  <2>3. CASE Deliver(t, next, Align(next, 8), 8, l)
    <3>1. Align(next, 8) \in Nat /\ Align(next, 8) >= next /\ l \in Int
      <4>1. next \in Nat
        BY <1>2
      <4>2. \A x \in Nat : Align(x, 8) \in Nat /\ Align(x, 8) >= x
        BY AlignFacts
      <4>3. QED
        BY <2>1, <4>1, <4>2
    <3>2. QED
      BY <1>1, <1>2, <2>3, <3>1, DeliverStep
  <2>4. CASE Deliver(t, next, next, 0, l)
    <3>1. next >= next /\ l \in Int
      BY <1>2, <2>1
    <3>2. QED
      BY <1>1, <1>2, <2>4, <3>1, DeliverStep
  <2>5. QED
    BY <1>4, <2>2, <2>3, <2>4
<1>5. QED
  BY <1>3, <1>4 DEF Unpack

LEMMA ReadStep ==
  ASSUME IInv, Receive \/ ReadCode \/ ReadCount \/ UnpackEnd
  PROVE  IInv'
<1>1. rd \in Nat /\ left \in Nat /\ done \in Nat /\ count \in Nat /\ offs \in Nat /\ start \in Nat
  BY DEF IInv, TypeOK
<1>2. CASE Fail \/ Garbage
  BY <1>2, StopStep
<1>3. CASE Receive
  <2>1. rd' \in Nat /\ UNCHANGED <<packvars, done, left, count>> /\ pc' \in {"count", "code"}
    BY <1>1, <1>3 DEF Receive
  <2>2. QED
    BY <1>1, <2>1, PackedStep
<1>4. CASE ReadCode
  <2>1. ASSUME rd' = rd + 4, pc' = "count", UNCHANGED <<packvars, done, left, count>> PROVE IInv'
    BY <1>1, <2>1, PackedStep
  <2>2. QED
    BY <1>2, <1>4, <2>1 DEF ReadCode
<1>5. CASE ReadCount
  <2> DEFINE at == Align(rd, 8)
             l == offs - rd
  <2>1. at \in Nat /\ at >= rd /\ l \in Int
    BY <1>1, AlignFacts
  <2>2. ASSUME Room(l, rd, at, 4), count' \in Stored(at, 4, "count"),
               left' = Skip(l, rd, at) - 4, rd' = at + 4, done' = 0, pc' = "unpack",
               UNCHANGED packvars
        PROVE  IInv'
    <3>1. count' \in Nat
      BY <2>2 DEF Stored, IInv, FieldsInv
    <3>2. left' \in Nat /\ rd' \in Nat /\ done' \in Nat
      BY <1>1, <2>1, <2>2, RoomFacts
    <3>3. QED
      BY <2>2, <3>1, <3>2, PackedStep
  <2>3. QED
    BY <1>2, <1>5, <2>2 DEF ReadCount
<1>6. CASE UnpackEnd
  <2>1. ASSUME rd' = Align(rd, 4), pc' \in {"read", "code"}, UNCHANGED <<packvars, done, left, count>>
        PROVE  IInv'
    BY <1>1, <2>1, AlignFacts, PackedStep
  <2>2. QED
    BY <1>2, <1>6, <2>1 DEF UnpackEnd
<1>7. QED
  BY <1>3, <1>4, <1>5, <1>6

-----------------------------------------------------------------------------
(* What follows for every behaviour. *)

LEMMA InvInductive ==
  ASSUME IInv, [Next]_vars
  PROVE  IInv'
<1>1. CASE \E ps \in Sets : BeginRequest(ps) \/ BeginRow(ps)
  BY <1>1, BeginRequestStep, BeginRowStep
<1>2. CASE Packing
  BY <1>2, EstimateStep, GrowStep, PackStep, PackEndStep DEF Packing
<1>3. CASE RowsEnd \/ NoMemory
  BY <1>3, RowsEndStep, StopStep
<1>4. CASE Unpacking
  BY <1>4, UnpackStep, ReadStep DEF Unpacking
<1>5. CASE UNCHANGED vars
  <2> USE <1>5 DEF vars, packvars, readvars
  <2>1. TypeOK' /\ FieldsInv'
    BY DEF IInv, TypeOK, FieldsInv
  <2>2. PackInv'
    BY DEF IInv, PackInv, Short, Set, Chain, Distance, Align
  <2>3. QED
    BY <2>1, <2>2 DEF IInv
<1>6. QED
  BY <1>1, <1>2, <1>3, <1>4, <1>5 DEF Next

LEMMA Invariant == Spec => []IInv
<1>1. Init => IInv
  BY InitIInv
<1>2. IInv /\ [Next]_vars => IInv'
  BY InvInductive
<1>3. QED
  BY <1>1, <1>2, PTL DEF Spec

\* The types; among them that the bytes left to unpack, which the code counts in
\* an unsigned variable, never fall below zero (parm.c, sqlbox_parm_unpack).
THEOREM TypeCorrect == Spec => []TypeOK
<1>1. IInv => TypeOK
  BY DEF IInv
<1>2. QED
  BY <1>1, Invariant, PTL

\* A set of any parameters outgrows the room made for it only if it starts halfway
\* between two multiples of eight and has an integer or a float, and then by at
\* most four bytes (parm.c, the two passes of sqlbox_parm_pack).
THEOREM ShortByAtMostFour == Spec => []ShortByFour
<1>1. IInv => ShortByFour
  BY PackedShort DEF ShortByFour, Short, IInv, PackInv
<1>2. QED
  BY <1>1, Invariant, PTL
=============================================================================
