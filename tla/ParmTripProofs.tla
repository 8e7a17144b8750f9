--------------------------- MODULE ParmTripProofs ---------------------------
(***************************************************************************)
(* Proof that ParmPack's reader gets back what was packed: RoundTrip, for  *)
(* sets of any number of parameters of any lengths, any number of rows and *)
(* any size of the buffer, as long as no set overran it.                   *)
(*                                                                         *)
(* Neither side knows where a field is: the writer has reached some place, *)
(* and the reader computes, from what it has read, the place to look at    *)
(* next.  What is invariant is that both follow one table.  For each set   *)
(* there is a place where it begins and one for each of its parameters;    *)
(* each place follows from the one before by the layout, the fields of     *)
(* each parameter are in the buffer around its place (Laid), and the       *)
(* reader is at the place of the parameter it has come to, has got those   *)
(* before it and counts no fewer bytes left than there are (Reader).  The  *)
(* table is not kept in a variable: there is one in every state.           *)
(***************************************************************************)
EXTENDS ParmPackProofs

-----------------------------------------------------------------------------
(* What is in the buffer. *)

\* Fields lie before the place packing has come to, and only data have a size
\* other than four.
Behind == \A f \in mem : f.at + f.size <= offs /\ (f.what # "data" => f.size = 4)

\* No two fields of a kind are at the same place.
Apart == \A f, g \in mem : f.at = g.at /\ f.what = g.what => f = g

BufferInv == Behind /\ Apart

LEMMA InitBuffer == Init => BufferInv
BY DEF Init, BufferInv, Behind, Apart

\* A field written further on is not where another of its kind is.
LEMMA NewPlace ==
  ASSUME IInv, Behind, NEW f \in mem, NEW at \in Nat, at >= offs, NEW size, NEW what, NEW val,
         what = "data" => at > offs
  PROVE  ~(f.at = at /\ f.what = what)
<1>1. f.at \in Nat /\ f.size \in Nat /\ offs \in Nat
  BY DEF IInv, FieldsInv, TypeOK
<1>2. f.at + f.size <= offs /\ (f.what # "data" => f.size = 4)
  BY DEF Behind
<1>3. QED
  BY <1>1, <1>2

LEMMA BufferKept ==
  ASSUME BufferInv, mem' \subseteq mem, offs' >= offs, IInv, IInv'
  PROVE  BufferInv'
<1>1. offs \in Nat /\ offs' \in Nat
  BY DEF IInv, TypeOK
<1>2. ASSUME NEW f \in mem'
      PROVE  f.at + f.size <= offs' /\ (f.what # "data" => f.size = 4)
  <2>1. f.at \in Nat /\ f.size \in Nat /\ f.at + f.size <= offs /\ (f.what # "data" => f.size = 4)
    BY DEF IInv, FieldsInv, BufferInv, Behind
  <2>2. QED
    BY <1>1, <2>1
<1>3. QED
  BY <1>2 DEF BufferInv, Behind, Apart

\* One field more, at the place packing has come to or after it.
LEMMA BufferGrows ==
  ASSUME BufferInv, IInv, IInv', NEW at \in Nat, NEW what, what # "data", NEW val,
         at >= offs, offs' >= at + 4, mem' \subseteq mem \cup {Field(at, 4, what, val)}
  PROVE  BufferInv'
<1> DEFINE new == Field(at, 4, what, val)
<1>1. new.at = at /\ new.size = 4 /\ new.what = what
  BY DEF Field
<1>2. offs \in Nat /\ offs' \in Nat
  BY DEF IInv, TypeOK
<1> HIDE DEF new
<1>3. ASSUME NEW f \in mem
      PROVE  /\ f.at + f.size <= offs' /\ (f.what # "data" => f.size = 4)
             /\ ~(f.at = new.at /\ f.what = new.what)
  <2>1. f.at \in Nat /\ f.size \in Nat /\ f.at + f.size <= offs /\ (f.what # "data" => f.size = 4)
    BY DEF IInv, FieldsInv, BufferInv, Behind
  <2>2. ~(f.at = new.at /\ f.what = new.what)
    BY <1>1, NewPlace DEF BufferInv
  <2>3. QED
    BY <1>2, <2>1, <2>2
<1>4. mem' \subseteq mem \cup {new}
  BY DEF new
<1>5. Behind'
  BY <1>1, <1>3, <1>4 DEF Behind
<1>6. Apart'
  BY <1>3, <1>4 DEF Apart, BufferInv
<1>7. QED
  BY <1>5, <1>6 DEF BufferInv

LEMMA BufferPack ==
  ASSUME BufferInv, IInv, IInv', Pack
  PROVE  BufferInv'
<1>1. /\ sets # <<>> /\ Len(Set) \in Nat /\ offs \in Nat /\ done \in Nat /\ done < Len(Set)
      /\ \A i \in 1..Len(Set) : Set[i] \in Parms
  BY SetFacts DEF IInv, TypeOK, PackInv, Pack
<1>2. done + 1 \in 1..Len(Set)
  BY <1>1
<1>3. PICK p \in Parms : p = Set[done + 1]
  BY <1>1, <1>2
<1> DEFINE a == Align(offs, 4)
           d == DataAt(offs, p)
           T == Field(a, 4, "type", p.type)
           L == Field(a + 4, 4, "length", Size(p))
           D == Field(d, Size(p), "data", <<Len(sets), done + 1>>)
<1>4. a \in Nat /\ a >= offs /\ d \in Nat /\ d >= a + 4 /\ Size(p) \in Nat
  BY <1>1, AlignFacts, DataFacts, SizeFacts
<1>5. Counted(p.type) => d = a + 8
  BY <1>1, DataFacts
<1>6. offs' = d + Size(p) /\ offs' \in Nat
  BY <1>3, <1>4 DEF Pack, After
<1>7. mem' = mem \cup {T} \cup (IF Counted(p.type) THEN {L} ELSE {}) \cup {D}
  BY <1>3 DEF Pack
<1>8. /\ T.at = a /\ T.size = 4 /\ T.what = "type"
      /\ L.at = a + 4 /\ L.size = 4 /\ L.what = "length"
      /\ D.at = d /\ D.size = Size(p) /\ D.what = "data"
  BY DEF Field
<1> HIDE DEF a, d, T, L, D
<1>9. ASSUME NEW f \in mem
      PROVE  /\ f.at + f.size <= offs' /\ (f.what # "data" => f.size = 4)
             /\ ~(f.at = a /\ f.what = "type")
             /\ ~(f.at = a + 4 /\ f.what = "length")
             /\ ~(f.at = d /\ f.what = "data")
  <2>1. f.at \in Nat /\ f.size \in Nat /\ f.at + f.size <= offs /\ (f.what # "data" => f.size = 4)
    BY DEF IInv, FieldsInv, BufferInv, Behind
  <2>2. QED
    BY <1>1, <1>4, <1>6, <2>1
<1>10. Behind'
  <2>1. T.at + T.size <= offs' /\ D.at + D.size <= offs'
    BY <1>4, <1>6, <1>8
  <2>2. Counted(p.type) => L.at + L.size <= offs'
    BY <1>4, <1>5, <1>6, <1>8
  <2>3. QED
    BY <1>7, <1>8, <1>9, <2>1, <2>2 DEF Behind
<1>11. ASSUME NEW f \in mem', NEW g \in mem', f.at = g.at, f.what = g.what
       PROVE  f = g
  <2>1. f \in mem \cup {T, L, D} /\ g \in mem \cup {T, L, D}
    BY <1>7
  <2>2. CASE f \in mem /\ g \in mem
    BY <1>11, <2>2 DEF BufferInv, Apart
  <2>3. CASE f \in {T, L, D} /\ g \in {T, L, D}
    BY <1>8, <1>11, <2>3
  <2>4. ~(f \in mem /\ g \in {T, L, D}) /\ ~(g \in mem /\ f \in {T, L, D})
    BY <1>8, <1>9, <1>11
  <2>5. QED
    BY <2>1, <2>2, <2>3, <2>4
<1>12. QED
  BY <1>10, <1>11 DEF BufferInv, Apart

LEMMA BufferInductive ==
  ASSUME BufferInv, IInv, IInv', [Next]_vars
  PROVE  BufferInv'
<1>1. offs \in Nat
  BY DEF IInv, TypeOK
<1>2. ASSUME NEW ps \in Sets, BeginRow(ps)
      PROVE  BufferInv'
  <2>1. mem' \subseteq mem \cup {Field(offs, 4, "code", Len(sets'))} /\ offs' = offs + 4
    BY <1>2 DEF BeginRow, Below
  <2>2. offs >= offs /\ offs' >= offs + 4
    BY <1>1, <2>1
  <2>3. QED
    BY <1>1, <2>1, <2>2, BufferGrows
<1>3. CASE Grow
  <2>1. /\ mem' \subseteq mem \cup {Field(Align(offs, 8), 4, "count", Len(Set))}
        /\ offs' = Align(offs, 8) + 4
    BY <1>3 DEF Grow, Below
  <2>2. Align(offs, 8) \in Nat /\ Align(offs, 8) >= offs
    BY <1>1, AlignFacts
  <2>3. offs' >= Align(offs, 8) + 4
    BY <2>1, <2>2
  <2>4. QED
    BY <2>1, <2>2, <2>3, BufferGrows
<1>4. CASE Pack
  BY <1>4, BufferPack
<1>5. CASE PackEnd
  <2>1. mem' = mem /\ offs' >= offs
    BY <1>1, <1>5, AlignFacts DEF PackEnd
  <2>2. QED
    BY <2>1, BufferKept
<1>6. CASE mem' = mem /\ offs' = offs
  <2>1. mem' \subseteq mem /\ offs' >= offs
    BY <1>1, <1>6
  <2>2. QED
    BY <2>1, BufferKept
<1>7. \/ \E ps \in Sets : BeginRow(ps)
      \/ Grow \/ Pack \/ PackEnd
      \/ mem' = mem /\ offs' = offs
  <2>1. Fail \/ Garbage => mem' = mem /\ offs' = offs
    BY DEF Fail, Garbage, packvars
  <2>2. \A t, from, at, size, l : Deliver(t, from, at, size, l) => mem' = mem /\ offs' = offs
    BY <2>1 DEF Deliver, packvars
  <2>3. Unpacking => mem' = mem /\ offs' = offs
    BY <2>1, <2>2 DEF Unpacking, Receive, ReadCode, ReadCount, Unpack, UnpackEnd, DeliverCounted, packvars
  <2>4. QED
    BY <2>3 DEF Next, Packing, BeginRequest, Estimate, RowsEnd, NoMemory, packvars, vars
<1>8. QED
  BY <1>2, <1>3, <1>4, <1>5, <1>6, <1>7

\* A field is found where it was written, and nothing else is.
LEMMA Found ==
  ASSUME Apart, NEW at, NEW size, NEW what, NEW val, Field(at, size, what, val) \in mem
  PROVE  Stored(at, size, what) = {val}
<1> DEFINE w == Field(at, size, what, val)
<1>1. w \in mem /\ w.at = at /\ w.size = size /\ w.what = what /\ w.val = val
  BY DEF Field
<1> HIDE DEF w
<1>2. \A g \in mem : g.at = at /\ g.size = size /\ g.what = what => g = w
  BY <1>1 DEF Apart
<1>3. QED
  BY <1>1, <1>2 DEF Stored

-----------------------------------------------------------------------------
(* Where it is.  The places a set is packed at follow from one another; some *)
(* functions give them: base[k] that of set k, with the code before it if it *)
(* has one, and at[k][i] that of its parameter i, or of its end.             *)

Start(b) == IF caller = "rows" THEN b + 4 ELSE b

CountIn(m, s, a, ps) ==
  /\ a[1] = Align(s, 8) + 4
  /\ Field(Align(s, 8), 4, "count", Len(ps)) \in m

ParmIn(m, a, k, i, p) ==
  /\ a[i + 1] = After(a[i], p)
  /\ Field(Align(a[i], 4), 4, "type", p.type) \in m
  /\ Counted(p.type) => Field(Align(a[i], 4) + 4, 4, "length", Size(p)) \in m
  /\ Field(DataAt(a[i], p), Size(p), "data", <<k, i>>) \in m

\* Set k, which is ps and starts at s, as far as its first n parameters.
Packed(m, s, a, k, ps, n) ==
  /\ CountIn(m, s, a, ps)
  /\ \A i \in 1..n : ParmIn(m, a, k, i, ps[i])

EndOf(a, ps) == Align(a[Len(ps) + 1], 4)

Reading == {"code", "count", "unpack", "read"}

Base == [Nat -> Nat]
Places == [Nat -> [Nat -> Nat]]

\* The codes, and the sets before the last one.
Earlier(base, at) ==
  /\ base[1] = IF caller = "rows" THEN 4 ELSE start
  /\ caller = "rows" => \A k \in 1..Len(sets) : Field(base[k], 4, "code", k) \in mem
  /\ \A k \in 1..Len(sets) - 1 :
       /\ Packed(mem, Start(base[k]), at[k], k, sets[k], Len(sets[k]))
       /\ base[k + 1] = EndOf(at[k], sets[k])

\* The last one, so far.
Latest(base, at) ==
  LET k == Len(sets)
  IN  /\ pc = "estimate" => Start(base[k]) = offs
      /\ pc = "pack" => /\ Packed(mem, Start(base[k]), at[k], k, Set, done)
                        /\ offs = at[k][done + 1]
      /\ pc \in {"begin", "packed"} \cup Reading =>
           /\ Packed(mem, Start(base[k]), at[k], k, Set, Len(Set))
           /\ offs = EndOf(at[k], Set)

Laid(base, at) == sets # <<>> => Earlier(base, at) /\ Latest(base, at)

\* What does not depend on whether the sets fit.
Once ==
  /\ caller = "request" => Len(sets) <= 1
  /\ sets = <<>> => pc = "begin" /\ (caller = "rows" => offs = 4)
  /\ pc \notin Reading \cup {"bad", "garbage"} => got = <<>>

Fits == pc \in {"begin", "estimate"} => offs <= bufsz

\* Where the reader is, and what it has got.
Item == [type : Types, sz : Nat, data : Nat \X Nat]

Got(n) == \A k \in 1..n : got[k] = Sent(k)

Reader(base, at) ==
  /\ got \in Seq(Seq(Item))
  /\ pc \notin {"bad", "garbage"}
  /\ pc = "code" => /\ caller = "rows" /\ Len(got) < Len(sets)
                    /\ rd = base[Len(got) + 1] /\ Got(Len(got))
  /\ pc = "count" => /\ Len(got) < Len(sets)
                     /\ rd = Start(base[Len(got) + 1]) /\ Got(Len(got))
  /\ pc = "unpack" =>
       LET g == Len(got)
       IN  /\ g \in 1..Len(sets) /\ Got(g - 1)
           /\ count = Len(sets[g]) /\ done \in 0..count
           /\ Len(got[g]) = done /\ \A i \in 1..done : got[g][i] = Sent(g)[i]
           /\ rd = at[g][done + 1] /\ left >= offs - rd
  /\ pc = "read" => Len(got) = Len(sets) /\ Got(Len(sets))

JInv ==
  /\ IInv /\ BufferInv /\ Once
  /\ ~overran => Fits /\ \E base \in Base, at \in Places : Laid(base, at) /\ Reader(base, at)

\* More fields, or places further on, take away nothing of what has been packed.
LEMMA PackedKept ==
  ASSUME NEW m, NEW m2, m \subseteq m2, NEW s, NEW a, NEW a2, NEW k, NEW ps, NEW n \in Nat,
         \A i \in 1..n + 1 : a2[i] = a[i],
         Packed(m, s, a, k, ps, n)
  PROVE  Packed(m2, s, a2, k, ps, n)
<1>1. CountIn(m2, s, a2, ps)
  <2>1. 1 \in 1..n + 1
    OBVIOUS
  <2>2. a2[1] = a[1]
    BY <2>1
  <2>3. QED
    BY <2>2 DEF Packed, CountIn
<1>2. ASSUME NEW i \in 1..n
      PROVE  ParmIn(m2, a2, k, i, ps[i])
  <2>1. i \in 1..n + 1 /\ i + 1 \in 1..n + 1
    OBVIOUS
  <2>2. a2[i] = a[i] /\ a2[i + 1] = a[i + 1]
    BY <2>1
  <2>3. ParmIn(m, a, k, i, ps[i])
    BY DEF Packed
  <2>4. QED
    BY <2>2, <2>3 DEF ParmIn
<1>3. QED
  BY <1>1, <1>2 DEF Packed

\* The lengths of the sets packed.
LEMMA SetsFacts ==
  ASSUME TypeOK
  PROVE  /\ Len(sets) \in Nat /\ (sets # <<>> <=> Len(sets) >= 1)
         /\ sets # <<>> => Set = sets[Len(sets)]
         /\ \A k \in 1..Len(sets) :
              /\ Len(sets[k]) \in Nat /\ DOMAIN sets[k] = 1..Len(sets[k])
              /\ \A i \in 1..Len(sets[k]) : sets[k][i] \in Parms
<1>1. sets \in Seq(Sets)
  BY DEF TypeOK
<1>2. Len(sets) \in Nat /\ (sets # <<>> <=> Len(sets) >= 1)
  BY <1>1, LenProperties, EmptySeq
<1>3. sets # <<>> => Set = sets[Len(sets)]
  BY <1>2 DEF Set, Last
<1>4. ASSUME NEW k \in 1..Len(sets)
      PROVE  /\ Len(sets[k]) \in Nat /\ DOMAIN sets[k] = 1..Len(sets[k])
             /\ \A i \in 1..Len(sets[k]) : sets[k][i] \in Parms
  <2>1. sets[k] \in Sets
    BY <1>1, ElementOfSeq
  <2>2. PICK n \in 0..MaxParms : sets[k] \in [1..n -> Parms]
    BY <2>1 DEF Sets
  <2>3. n \in Nat /\ sets[k] \in Seq(Parms)
    BY <2>2, SizesAssumption, SeqDef
  <2>4. QED
    BY <2>3, LenProperties, ElementOfSeq
<1>5. QED
  BY <1>2, <1>3, <1>4

LEMMA InitJInv == Init => JInv
<1> SUFFICES ASSUME Init PROVE JInv
  OBVIOUS
<1>1. IInv /\ BufferInv
  BY InitIInv, InitBuffer
<1>2. Once /\ Fits
  BY SizesAssumption DEF Init, Once, Fits
<1>3. [n \in Nat |-> 0] \in Base /\ [n \in Nat |-> [j \in Nat |-> 0]] \in Places
  BY DEF Base, Places
<1>4. \A base, at : Laid(base, at) /\ Reader(base, at)
  BY DEF Init, Laid, Reader
<1>5. QED
  BY <1>1, <1>2, <1>3, <1>4 DEF JInv

-----------------------------------------------------------------------------
(* Packing. *)

\* Where the sets have had room, a larger buffer keeps all that is in it.
LEMMA AllKept ==
  ASSUME IInv, Behind, offs <= bufsz
  PROVE  Below(bufsz) = mem
<1>1. ASSUME NEW f \in mem PROVE f.at + f.size <= bufsz
  <2>1. f.at \in Nat /\ f.size \in Nat /\ f.at + f.size <= offs /\ offs \in Nat /\ bufsz \in Nat
    BY DEF IInv, FieldsInv, TypeOK, Behind
  <2>2. QED
    BY <2>1
<1>2. QED
  BY <1>1 DEF Below

\* The reader changes nothing of what has been packed.
LEMMA UnpackingLeads ==
  ASSUME Unpacking
  PROVE  UNCHANGED packvars /\ pc' \in Reading \cup {"bad", "garbage"}
<1> DEFINE P == UNCHANGED packvars /\ pc' \in Reading \cup {"bad", "garbage"}
<1>1. Fail \/ Garbage => P
  BY DEF Fail, Garbage
<1>2. ASSUME pc = "unpack", NEW t, NEW from, NEW at, NEW size, NEW l, Deliver(t, from, at, size, l)
      PROVE  P
  BY <1>1, <1>2 DEF Deliver, Reading
<1>3. Unpack => P
  BY <1>1, <1>2 DEF Unpack, DeliverCounted
<1>4. QED
  BY <1>1, <1>3 DEF Unpacking, Receive, ReadCode, ReadCount, UnpackEnd, Reading

LEMMA OnceInductive ==
  ASSUME JInv, [Next]_vars
  PROVE  Once'
<1>1. Once /\ TypeOK
  BY DEF JInv, IInv
<1>2. ASSUME NEW ps \in Sets, BeginRequest(ps)
      PROVE  Once'
  <2>1. sets' = <<ps>> /\ pc' = "estimate" /\ got' = got /\ pc = "begin"
    BY <1>2 DEF BeginRequest, readvars
  <2>2. Len(sets') = 1 /\ sets' # <<>>
    BY <2>1
  <2>3. QED
    BY <1>1, <2>1, <2>2 DEF Once, Reading
<1>3. ASSUME NEW ps \in Sets, BeginRow(ps)
      PROVE  Once'
  <2>1. /\ sets' = Append(sets, ps) /\ pc' = "estimate" /\ got' = got /\ pc = "begin"
        /\ caller = "rows" /\ caller' = caller
    BY <1>3 DEF BeginRow, readvars
  <2>2. sets' # <<>>
    BY <1>1, <2>1, AppendProperties DEF TypeOK
  <2>3. QED
    BY <1>1, <2>1, <2>2 DEF Once, Reading
<1>4. ASSUME UNCHANGED <<caller, sets, got>>, sets # <<>>,
             pc' \in Reading \cup {"bad", "garbage"} \/ pc \notin Reading \cup {"bad", "garbage"}
      PROVE  Once'
  BY <1>1, <1>4 DEF Once
<1>5. ASSUME pc # "begin" PROVE sets # <<>>
  BY <1>1, <1>5 DEF Once
<1>6. CASE Packing \/ RowsEnd \/ NoMemory
  <2>1. UNCHANGED <<caller, sets, got>> /\ pc \notin Reading \cup {"bad", "garbage"}
    BY <1>6 DEF Packing, Estimate, Grow, Pack, PackEnd, RowsEnd, NoMemory, packvars, readvars, Reading
  <2>2. sets # <<>>
    BY <1>5, <1>6 DEF Packing, Estimate, Grow, Pack, PackEnd, RowsEnd, NoMemory
  <2>3. QED
    BY <1>4, <2>1, <2>2
<1>7. CASE Unpacking
  <2>1. pc # "begin"
    BY <1>7 DEF Unpacking, Receive, ReadCode, ReadCount, Unpack, UnpackEnd
  <2>2. UNCHANGED <<caller, sets>> /\ pc' \in Reading \cup {"bad", "garbage"}
    BY <1>7, UnpackingLeads DEF packvars
  <2>3. QED
    BY <1>1, <1>5, <2>1, <2>2 DEF Once
<1>8. CASE UNCHANGED vars
  BY <1>1, <1>8 DEF Once, vars, packvars, readvars
<1>9. QED
  BY <1>2, <1>3, <1>6, <1>7, <1>8 DEF Next

LEMMA FitsInductive ==
  ASSUME JInv, [Next]_vars, ~overran'
  PROVE  ~overran /\ Fits'
<1>1. /\ overran \in BOOLEAN /\ offs \in Nat /\ bufsz \in Nat
      /\ Frame \in Nat /\ Frame >= 24
  BY SizesAssumption DEF JInv, IInv, TypeOK
<1>2. CASE PackEnd
  <2>1. ~overran /\ ~(offs' > bufsz) /\ bufsz' = bufsz /\ offs' = Align(offs, 4)
    BY <1>2 DEF PackEnd
  <2>2. offs' \in Nat
    BY <1>1, <2>1, AlignFacts
  <2>3. QED
    BY <1>1, <2>1, <2>2 DEF Fits
<1>3. ASSUME NEW ps \in Sets, BeginRow(ps)
      PROVE  ~overran /\ Fits'
  <2>1. /\ ~overran /\ offs' = offs + 4
        /\ bufsz' = IF offs + 4 >= bufsz THEN offs + Frame ELSE bufsz
    BY <1>3 DEF BeginRow
  <2>2. QED
    BY <1>1, <2>1 DEF Fits
<1>4. ASSUME overran' = overran, UNCHANGED <<offs, bufsz>>,
             pc' \in {"begin", "estimate"} => pc \in {"begin", "estimate"}
      PROVE  ~overran /\ Fits'
  BY <1>4 DEF JInv, Fits
<1>5. ASSUME overran' = overran, pc' \notin {"begin", "estimate"}
      PROVE  ~overran /\ Fits'
  BY <1>5 DEF Fits
<1>6. ASSUME NEW ps \in Sets, BeginRequest(ps)
      PROVE  ~overran /\ Fits'
  BY <1>4, <1>6 DEF BeginRequest
<1>7. CASE Estimate \/ UNCHANGED vars
  BY <1>4, <1>7 DEF Estimate, vars, packvars
<1>8. CASE Grow \/ Pack \/ RowsEnd \/ NoMemory
  BY <1>5, <1>8 DEF Grow, Pack, RowsEnd, NoMemory, packvars
<1>9. CASE Unpacking
  <2>1. overran' = overran /\ pc' \notin {"begin", "estimate"}
    BY <1>9, UnpackingLeads DEF packvars, Reading
  <2>2. QED
    BY <1>5, <2>1
<1>10. QED
  BY <1>2, <1>3, <1>6, <1>7, <1>8, <1>9 DEF Next, Packing

\* A set begins where the one before it has ended, and its code is written there.
LEMMA BeginRowLaid ==
  ASSUME JInv, NEW ps \in Sets, BeginRow(ps), ~overran
  PROVE  \E base \in Base, at \in Places : Laid(base, at)'
<1>1. TypeOK /\ IInv /\ Behind /\ Once /\ offs <= bufsz /\ offs \in Nat
  BY DEF JInv, BufferInv, IInv, TypeOK, Fits, BeginRow
<1>2. PICK old \in Base, at \in Places : Laid(old, at)
  BY DEF JInv
<1>3. PICK n \in Nat : n = Len(sets)
  BY <1>1, SetsFacts
<1>4. PICK o \in Nat : o = offs
  BY <1>1
<1>5. PICK base \in Base : base = [old EXCEPT ![n + 1] = o]
  BY DEF Base
<1>6. /\ base[n + 1] = o
      /\ \A k \in 1..n : base[k] = old[k]
  BY <1>5 DEF Base
<1>7. /\ caller = "rows" /\ caller' = caller /\ pc = "begin" /\ pc' = "estimate"
      /\ sets' = Append(sets, ps) /\ offs' = o + 4
  BY <1>4 DEF BeginRow
<1>8. sets \in Seq(Sets)
  BY <1>1 DEF TypeOK
<1>9. /\ Len(sets') = n + 1 /\ \A k \in 1..n : sets'[k] = sets[k]
  BY <1>3, <1>7, <1>8, AppendProperties
<1>10. mem' = mem \cup {Field(o, 4, "code", n + 1)}
  BY <1>1, <1>4, <1>9, AllKept DEF BeginRow
<1>11. n = 0 => o = 4
  <2>1. n = 0 => sets = <<>>
    BY <1>3, <1>8, EmptySeq
  <2>2. QED
    BY <1>1, <1>4, <1>7, <2>1 DEF Once
<1>12. n # 0 => Earlier(old, at) /\ Packed(mem, old[n] + 4, at[n], n, sets[n], Len(sets[n]))
                 /\ o = EndOf(at[n], sets[n])
  <2>1. n # 0 => sets # <<>> /\ Set = sets[n]
    BY <1>1, <1>3, SetsFacts
  <2>2. QED
    BY <1>2, <1>3, <1>4, <1>7, <2>1 DEF Laid, Latest, Start
<1>13. base[1] = 4
  <2>1. CASE n = 0
    BY <1>6, <1>11, <2>1
  <2>2. CASE n # 0
    <3>1. 1 \in 1..n
      BY <2>2
    <3>2. QED
      BY <1>6, <1>7, <1>12, <2>2, <3>1 DEF Earlier
  <2>3. QED
    BY <2>1, <2>2
<1>14. ASSUME NEW k \in 1..n
       PROVE  /\ Packed(mem', base[k] + 4, at[k], k, sets'[k], Len(sets'[k]))
              /\ base[k + 1] = EndOf(at[k], sets'[k])
  <2>1. CASE k = n
    <3>1. Packed(mem, old[k] + 4, at[k], k, sets[k], Len(sets[k])) /\ base[k + 1] = EndOf(at[k], sets[k])
      BY <1>6, <1>12, <2>1
    <3>2. Len(sets[k]) \in Nat
      BY <1>1, <1>3, SetsFacts
    <3>3. QED
      BY <1>6, <1>9, <1>10, <3>1, <3>2, PackedKept
  <2>2. CASE k # n
    <3>1. k \in 1..n - 1 /\ k + 1 \in 1..n /\ n # 0
      BY <2>2
    <3>2. /\ Packed(mem, old[k] + 4, at[k], k, sets[k], Len(sets[k]))
          /\ base[k + 1] = EndOf(at[k], sets[k])
      BY <1>3, <1>6, <1>7, <1>12, <3>1 DEF Earlier, Start
    <3>3. Len(sets[k]) \in Nat
      BY <1>1, <1>3, SetsFacts
    <3>4. QED
      BY <1>6, <1>9, <1>10, <3>2, <3>3, PackedKept
  <2>3. QED
    BY <2>1, <2>2
<1>15. \A k \in 1..n + 1 : Field(base[k], 4, "code", k) \in mem'
  <2>1. \A k \in 1..n : Field(base[k], 4, "code", k) \in mem'
    <3>1. ASSUME NEW k \in 1..n PROVE Field(old[k], 4, "code", k) \in mem
      <4>1. n # 0
        OBVIOUS
      <4>2. QED
        BY <1>3, <1>7, <1>12, <4>1 DEF Earlier
    <3>2. QED
      BY <1>6, <1>10, <3>1
  <2>2. \A k \in 1..n + 1 : k \in 1..n \/ k = n + 1
    OBVIOUS
  <2>3. QED
    BY <1>6, <1>10, <2>1, <2>2
<1>16. Earlier(base, at)'
  <2>1. Len(sets') - 1 = n
    BY <1>9
  <2>2. QED
    BY <1>7, <1>9, <1>13, <1>14, <1>15, <2>1 DEF Earlier, Start
<1>17. Latest(base, at)'
  BY <1>6, <1>7, <1>9, <1>10 DEF Latest, Start, Reading
<1>18. QED
  BY <1>16, <1>17 DEF Laid

LEMMA BeginRequestLaid ==
  ASSUME JInv, NEW ps \in Sets, BeginRequest(ps)
  PROVE  \E base \in Base, at \in Places : Laid(base, at)'
<1>1. PICK o \in Nat : o = offs
  BY DEF JInv, IInv, TypeOK
<1>2. PICK base \in Base : base[1] = o
  <2>1. [n \in Nat |-> o] \in Base /\ [n \in Nat |-> o][1] = o
    BY DEF Base
  <2>2. QED
    BY <2>1
<1>3. PICK at \in Places : TRUE
  <2>1. [n \in Nat |-> [j \in Nat |-> 0]] \in Places
    BY DEF Places
  <2>2. QED
    BY <2>1
<1>4. /\ caller = "request" /\ caller' = caller /\ start' = o /\ offs' = o /\ pc' = "estimate"
      /\ Len(sets') = 1
  BY <1>1 DEF BeginRequest
<1>5. Earlier(base, at)'
  <2>1. 1..Len(sets') - 1 = {}
    BY <1>4
  <2>2. QED
    BY <1>2, <1>4, <2>1 DEF Earlier
<1>6. Latest(base, at)'
  BY <1>2, <1>4 DEF Latest, Start, Reading
<1>7. QED
  BY <1>5, <1>6 DEF Laid

\* The sets before the last one stay where they are.
LEMMA EarlierKept ==
  ASSUME TypeOK, NEW base, NEW old, NEW at, Earlier(base, old),
         UNCHANGED <<caller, sets, start>>, mem \subseteq mem',
         \A k \in 1..Len(sets) - 1 : at[k] = old[k]
  PROVE  Earlier(base, at)'
<1>1. ASSUME NEW k \in 1..Len(sets) - 1
      PROVE  /\ Packed(mem', Start(base[k]), at[k], k, sets[k], Len(sets[k]))
             /\ base[k + 1] = EndOf(at[k], sets[k])
  <2>1. Len(sets[k]) \in Nat
    BY SetsFacts
  <2>2. Packed(mem, Start(base[k]), old[k], k, sets[k], Len(sets[k]))
    BY DEF Earlier
  <2>3. \A i \in 1..Len(sets[k]) + 1 : at[k][i] = old[k][i]
    OBVIOUS
  <2>4. Packed(mem', Start(base[k]), at[k], k, sets[k], Len(sets[k]))
    BY <2>1, <2>2, <2>3, PackedKept
  <2>5. base[k + 1] = EndOf(at[k], sets[k])
    BY DEF Earlier
  <2>6. QED
    BY <2>4, <2>5
<1>2. \A k : Start(base[k])' = Start(base[k])
  BY DEF Start
<1>3. QED
  BY <1>1, <1>2 DEF Earlier

LEMMA GrowLaid ==
  ASSUME JInv, Grow, ~overran
  PROVE  \E base \in Base, at \in Places : Laid(base, at)'
<1>1. /\ TypeOK /\ IInv /\ Behind /\ offs \in Nat /\ offs <= bufsz
      /\ pc = "estimate" /\ sets # <<>>
  BY DEF JInv, BufferInv, IInv, TypeOK, Fits, Grow, Once
<1>2. PICK base \in Base, old \in Places : Laid(base, old)
  BY DEF JInv
<1>3. PICK n \in Nat : n = Len(sets)
  BY <1>1, SetsFacts
<1>4. PICK c \in Nat : c = Align(offs, 8) + 4
  <2>1. Align(offs, 8) \in Nat
    BY <1>1, AlignFacts
  <2>2. QED
    BY <2>1
<1>5. PICK at \in Places : at = [old EXCEPT ![n] = [old[n] EXCEPT ![1] = c]]
  BY DEF Places
<1>6. at[n][1] = c /\ \A k \in 1..n - 1 : at[k] = old[k]
  <2>1. old \in [Nat -> [Nat -> Nat]] /\ old[n] \in [Nat -> Nat]
    BY DEF Places
  <2>2. \A k \in 1..n - 1 : k # n /\ k \in Nat
    OBVIOUS
  <2>3. QED
    BY <1>5, <2>1, <2>2
<1>7. /\ UNCHANGED <<caller, sets, start>> /\ pc' = "pack" /\ done' = 0 /\ offs' = c
      /\ mem' = mem \cup {Field(Align(offs, 8), 4, "count", Len(Set))} /\ Set' = Set
  BY <1>1, <1>4, AllKept DEF Grow, Set
<1>8. Earlier(base, old) /\ Start(base[n]) = offs
  BY <1>1, <1>2, <1>3 DEF Laid, Latest
<1>9. Earlier(base, at)'
  BY <1>1, <1>3, <1>6, <1>7, <1>8, EarlierKept
<1>10. Packed(mem', Start(base[n]), at[n], n, Set, 0)
  <2>1. 1..0 = {}
    OBVIOUS
  <2>2. QED
    BY <1>4, <1>6, <1>7, <1>8, <2>1 DEF Packed, CountIn
<1>11. Latest(base, at)'
  <2>1. Start(base[n])' = Start(base[n])
    BY <1>7 DEF Start
  <2>2. QED
    BY <1>3, <1>6, <1>7, <1>10, <2>1 DEF Latest, Reading
<1>12. QED
  BY <1>9, <1>11 DEF Laid

LEMMA PackLaid ==
  ASSUME JInv, Pack, ~overran
  PROVE  \E base \in Base, at \in Places : Laid(base, at)'
<1>1. /\ TypeOK /\ IInv /\ offs \in Nat /\ pc = "pack" /\ sets # <<>> /\ Set' = Set
      /\ done \in Nat /\ done < Len(Set)
  BY DEF JInv, IInv, TypeOK, Pack, Once, Set
<1>2. PICK base \in Base, old \in Places : Laid(base, old)
  BY DEF JInv
<1>3. PICK n \in Nat : n = Len(sets)
  BY <1>1, SetsFacts
<1>4. PICK d \in Nat : d = done
  BY <1>1
<1>5. PICK p \in Parms : p = Set[d + 1]
  <2>1. d + 1 \in 1..Len(Set)
    BY <1>1, <1>4, SetFacts
  <2>2. QED
    BY <1>1, <2>1, SetFacts
<1>6. PICK e \in Nat : e = After(offs, p)
  BY <1>1, DataFacts
<1>7. PICK at \in Places : at = [old EXCEPT ![n] = [old[n] EXCEPT ![d + 2] = e]]
  <2>1. d + 2 \in Nat
    OBVIOUS
  <2>2. QED
    BY <2>1 DEF Places
<1>8. /\ at[n][d + 2] = e /\ \A i \in 1..d + 1 : at[n][i] = old[n][i]
      /\ \A k \in 1..n - 1 : at[k] = old[k]
  <2>1. old \in [Nat -> [Nat -> Nat]] /\ old[n] \in [Nat -> Nat] /\ d + 2 \in Nat
    BY DEF Places
  <2>2. \A k \in 1..n - 1 : k # n /\ k \in Nat
    OBVIOUS
  <2>3. \A i \in 1..d + 1 : i # d + 2 /\ i \in Nat
    OBVIOUS
  <2>4. QED
    BY <1>7, <2>1, <2>2, <2>3
<1>9. /\ UNCHANGED <<caller, sets, start, pc>> /\ done' = d + 1 /\ offs' = e
      /\ mem' = mem \cup {Field(Align(offs, 4), 4, "type", p.type)}
           \cup (IF Counted(p.type) THEN {Field(Align(offs, 4) + 4, 4, "length", Size(p))} ELSE {})
           \cup {Field(DataAt(offs, p), Size(p), "data", <<n, d + 1>>)}
  BY <1>3, <1>4, <1>5, <1>6 DEF Pack
<1>10. /\ Earlier(base, old)
       /\ Packed(mem, Start(base[n]), old[n], n, Set, d) /\ offs = old[n][d + 1]
  BY <1>1, <1>2, <1>3, <1>4 DEF Laid, Latest
<1>11. mem \subseteq mem'
  BY <1>9
<1>12. Earlier(base, at)'
  BY <1>1, <1>3, <1>8, <1>9, <1>10, <1>11, EarlierKept
<1>13. Packed(mem', Start(base[n]), at[n], n, Set, d)
  BY <1>8, <1>10, <1>11, PackedKept
<1>14. ParmIn(mem', at[n], n, d + 1, p)
  <2>1. at[n][d + 1] = offs
    <3>1. d + 1 \in 1..d + 1
      OBVIOUS
    <3>2. QED
      BY <1>8, <1>10, <3>1
  <2>2. at[n][d + 1 + 1] = After(at[n][d + 1], p)
    <3>1. d + 1 + 1 = d + 2
      OBVIOUS
    <3>2. QED
      BY <1>6, <1>8, <2>1, <3>1
  <2>3. QED
    BY <1>9, <2>1, <2>2 DEF ParmIn
<1>15. Packed(mem', Start(base[n]), at[n], n, Set, d + 1)
  <2>1. \A i \in 1..d + 1 : i \in 1..d \/ i = d + 1
    OBVIOUS
  <2>2. QED
    BY <1>5, <1>13, <1>14, <2>1 DEF Packed
<1>16. Latest(base, at)'
  <2>1. Start(base[n])' = Start(base[n])
    BY <1>9 DEF Start
  <2>2. offs' = at[n][done' + 1]
    <3>1. d + 1 + 1 = d + 2
      OBVIOUS
    <3>2. QED
      BY <1>8, <1>9, <3>1
  <2>3. QED
    BY <1>1, <1>3, <1>9, <1>15, <2>1, <2>2 DEF Latest, Reading
<1>17. QED
  BY <1>12, <1>16 DEF Laid

LEMMA PackEndLaid ==
  ASSUME JInv, PackEnd, NEW base, NEW at, Laid(base, at)
  PROVE  Laid(base, at)'
<1>1. TypeOK /\ pc = "pack" /\ sets # <<>> /\ Set' = Set
  BY DEF JInv, IInv, PackEnd, Once, Set
<1>2. /\ UNCHANGED <<caller, sets, start, mem>> /\ pc' \in {"begin", "packed"}
      /\ done = Len(Set) /\ offs' = Align(offs, 4)
  BY DEF PackEnd
<1>3. Earlier(base, at)'
  BY <1>1, <1>2, EarlierKept DEF Laid
<1>4. Latest(base, at)'
  <2>1. \A k : Start(base[k])' = Start(base[k])
    BY <1>2 DEF Start
  <2>2. QED
    BY <1>1, <1>2, <2>1 DEF Laid, Latest, EndOf, Reading
<1>5. QED
  BY <1>3, <1>4 DEF Laid

\* Nothing is written any more, or not yet.
LEMMA LaidKept ==
  ASSUME JInv, NEW base, NEW at, Laid(base, at), UNCHANGED <<caller, sets, start, offs, mem>>,
         \/ pc' = pc /\ pc # "pack"
         \/ pc = "begin" /\ pc' = "packed"
         \/ pc' \in {"failed", "bad", "garbage"}
         \/ pc \in {"packed"} \cup Reading /\ pc' \in Reading
  PROVE  Laid(base, at)'
<1>1. TypeOK /\ Set' = Set
  BY DEF JInv, IInv, Set
<1>2. CASE sets # <<>>
  <2>1. Earlier(base, at)'
    BY <1>1, <1>2, EarlierKept DEF Laid
  <2>2. \A k : Start(base[k])' = Start(base[k])
    BY DEF Start
  <2>3. Latest(base, at)'
    BY <1>1, <1>2, <2>2 DEF Laid, Latest, Reading
  <2>4. QED
    BY <2>1, <2>3 DEF Laid
<1>3. QED
  BY <1>2 DEF Laid

-----------------------------------------------------------------------------
(* Unpacking. *)

\* No field reaches past the end.
LEMMA Within ==
  ASSUME IInv, Behind, NEW at, NEW size, NEW what, NEW val, Field(at, size, what, val) \in mem
  PROVE  at \in Nat /\ size \in Nat /\ at + size <= offs
<1> DEFINE w == Field(at, size, what, val)
<1>1. w \in mem /\ w.at = at /\ w.size = size
  BY DEF Field
<1> HIDE DEF w
<1>2. QED
  BY <1>1 DEF IInv, FieldsInv, Behind

\* What is left, as the code counts it, is never less than there is.
LEMMA RoomThere ==
  ASSUME NEW from \in Nat, NEW to \in Nat, NEW size \in Nat, NEW end \in Nat, NEW l \in Int,
         l >= end - from, to >= from, to + size <= end
  PROVE  Room(l, from, to, size) /\ Skip(l, from, to) - size >= end - (to + size)
BY DEF Room, Skip

\* What a reader finds of the set it is at.
LEMMA Written ==
  ASSUME JInv, pc \in {"packed"} \cup Reading, NEW base \in Base, NEW at \in Places, Laid(base, at),
         NEW g \in 1..Len(sets)
  PROVE  /\ caller = "rows" => Field(base[g], 4, "code", g) \in mem
         /\ Packed(mem, Start(base[g]), at[g], g, sets[g], Len(sets[g]))
         /\ EndOf(at[g], sets[g]) = IF g = Len(sets) THEN offs ELSE base[g + 1]
<1>1. Len(sets) \in Nat /\ sets # <<>> /\ Set = sets[Len(sets)]
  <2>1. Len(sets) \in Nat /\ (sets # <<>> <=> Len(sets) >= 1) /\ (sets # <<>> => Set = sets[Len(sets)])
    BY SetsFacts DEF JInv, IInv
  <2>2. QED
    BY <2>1
<1>2. Earlier(base, at) /\ Latest(base, at)
  BY <1>1 DEF Laid
<1>3. CASE g = Len(sets)
  BY <1>1, <1>2, <1>3 DEF Earlier, Latest
<1>4. CASE g # Len(sets)
  <2>1. g \in 1..Len(sets) - 1
    BY <1>1, <1>4
  <2>2. QED
    BY <1>2, <1>4, <2>1 DEF Earlier
<1>5. QED
  BY <1>3, <1>4

LEMMA ReceiveReader ==
  ASSUME JInv, NEW base \in Base, NEW at \in Places, Laid(base, at), Receive
  PROVE  Reader(base, at)'
<1>1. /\ pc = "packed" /\ rd' = (IF caller = "request" THEN start ELSE 4)
      /\ pc' = (IF caller = "request" THEN "count" ELSE "code")
      /\ UNCHANGED <<caller, sets, got>>
  BY DEF Receive, packvars
<1>2. got = <<>> /\ sets # <<>> /\ caller \in {"request", "rows"} /\ Len(sets) \in Nat /\ Len(sets) >= 1
  BY <1>1, SetsFacts DEF JInv, Once, Reading, IInv, TypeOK
<1>3. base[1] = IF caller = "rows" THEN 4 ELSE start
  BY <1>2 DEF Laid, Earlier
<1>4. Len(got) = 0 /\ Len(got) < Len(sets) /\ 1..0 = {} /\ got \in Seq(Seq(Item))
  BY <1>2
<1>5. QED
  BY <1>1, <1>2, <1>3, <1>4 DEF Reader, Got, Start

LEMMA ReadCodeReader ==
  ASSUME JInv, NEW base \in Base, NEW at \in Places, Laid(base, at), Reader(base, at), ReadCode
  PROVE  Reader(base, at)'
<1>1. /\ pc = "code" /\ caller = "rows" /\ got \in Seq(Seq(Item)) /\ Len(got) < Len(sets)
      /\ rd = base[Len(got) + 1] /\ Got(Len(got))
  BY DEF ReadCode, Reader
<1>2. Len(got) + 1 \in 1..Len(sets)
  <2>1. Len(got) \in Nat /\ Len(sets) \in Nat
    BY <1>1, LenProperties, SetsFacts DEF JInv, IInv
  <2>2. QED
    BY <1>1, <2>1
<1>3. Field(rd, 4, "code", Len(got) + 1) \in mem
  BY <1>1, <1>2, Written DEF Reading
<1>4. IInv /\ Behind /\ Apart /\ rd \in Nat /\ offs \in Nat
  BY DEF JInv, BufferInv, IInv, TypeOK
<1>5. rd + 4 <= offs /\ Stored(rd, 4, "code") # {} /\ ~(rd + 4 > offs)
  <2>1. rd + 4 <= offs
    BY <1>3, <1>4, Within
  <2>2. Stored(rd, 4, "code") = {Len(got) + 1}
    BY <1>3, <1>4, Found
  <2>3. ~(rd + 4 > offs)
    BY <1>4, <2>1
  <2>4. QED
    BY <2>1, <2>2, <2>3
<1>6. rd' = rd + 4 /\ pc' = "count" /\ UNCHANGED <<packvars, done, left, count, got>>
  BY <1>5 DEF ReadCode
<1>7. QED
  BY <1>1, <1>6 DEF Reader, Got, Sent, Start, packvars

LEMMA ReadCountReader ==
  ASSUME JInv, NEW base \in Base, NEW at \in Places, Laid(base, at), Reader(base, at), ReadCount
  PROVE  Reader(base, at)'
<1>1. /\ pc = "count" /\ got \in Seq(Seq(Item)) /\ Len(got) < Len(sets)
      /\ rd = Start(base[Len(got) + 1]) /\ Got(Len(got))
  BY DEF ReadCount, Reader
<1>2. PICK g \in Nat : g = Len(got) + 1
  BY <1>1, LenProperties
<1>3. Len(sets) \in Nat /\ Len(got) \in Nat /\ g \in 1..Len(sets)
  <2>1. Len(got) \in Nat /\ Len(sets) \in Nat
    BY <1>1, LenProperties, SetsFacts DEF JInv, IInv
  <2>2. QED
    BY <1>1, <1>2, <2>1
<1>4. Len(sets[g]) \in Nat
  BY <1>3, SetsFacts DEF JInv, IInv
<1> DEFINE to == Align(rd, 8)
           l == offs - rd
<1>5. Field(to, 4, "count", Len(sets[g])) \in mem /\ at[g][1] = to + 4
  BY <1>1, <1>2, <1>3, Written DEF Packed, CountIn, Reading
<1>6. /\ rd \in Nat /\ offs \in Nat /\ to \in Nat /\ to >= rd /\ to + 4 <= offs
      /\ Stored(to, 4, "count") = {Len(sets[g])}
  <2>1. IInv /\ Behind /\ Apart /\ rd \in Nat /\ offs \in Nat
    BY DEF JInv, BufferInv, IInv, TypeOK
  <2>2. to \in Nat /\ to >= rd
    BY <2>1, AlignFacts
  <2>3. to + 4 <= offs
    BY <1>5, <2>1, Within
  <2>4. Stored(to, 4, "count") = {Len(sets[g])}
    BY <1>5, <2>1, Found
  <2>5. QED
    BY <2>1, <2>2, <2>3, <2>4
<1>7. Room(l, rd, to, 4) /\ Skip(l, rd, to) - 4 >= offs - (to + 4)
  <2> HIDE DEF to
  <2>1. l \in Int /\ l >= offs - rd
    BY <1>6
  <2> HIDE DEF l
  <2>2. QED
    BY <1>6, <2>1, RoomThere
<1>8. /\ count' = Len(sets[g]) /\ left' = Skip(l, rd, to) - 4 /\ rd' = to + 4
      /\ got' = Append(got, <<>>) /\ done' = 0 /\ pc' = "unpack" /\ UNCHANGED packvars
  <2> HIDE DEF to, l
  <2>1. /\ count' \in Stored(to, 4, "count") /\ left' = Skip(l, rd, to) - 4 /\ rd' = to + 4
        /\ got' = Append(got, <<>>) /\ done' = 0 /\ pc' = "unpack" /\ UNCHANGED packvars
    BY <1>6, <1>7 DEF ReadCount, to, l
  <2>2. QED
    BY <1>6, <2>1
<1> HIDE DEF to, l
<1>9. /\ got' \in Seq(Seq(Item)) /\ Len(got') = g
      /\ got'[g] = <<>> /\ \A k \in 1..g - 1 : got'[k] = got[k]
  <2>1. <<>> \in Seq(Item)
    OBVIOUS
  <2>2. g - 1 = Len(got)
    BY <1>2, <1>3
  <2>3. QED
    BY <1>1, <1>2, <1>8, <2>1, <2>2, AppendProperties
<1>10. Got(g - 1)'
  <2>1. g - 1 = Len(got)
    BY <1>2, <1>3
  <2>2. \A k : Sent(k)' = Sent(k)
    BY <1>8 DEF Sent, packvars
  <2>3. QED
    BY <1>1, <1>9, <2>1, <2>2 DEF Got
<1>11. /\ rd' = at[g][done' + 1] /\ done' \in 0..count' /\ left' >= offs' - rd'
       /\ Len(got'[g]) = done' /\ 1..done' = {}
  BY <1>4, <1>5, <1>7, <1>8, <1>9 DEF packvars
<1>12. QED
  BY <1>3, <1>8, <1>9, <1>10, <1>11 DEF Reader, packvars

LEMMA UnpackEndReader ==
  ASSUME JInv, NEW base \in Base, NEW at \in Places, Laid(base, at), Reader(base, at), UnpackEnd
  PROVE  Reader(base, at)'
<1>1. PICK g : g = Len(got)
  OBVIOUS
<1>2. /\ pc = "unpack" /\ got \in Seq(Seq(Item)) /\ g \in 1..Len(sets) /\ Got(g - 1)
      /\ done = Len(sets[g]) /\ Len(got[g]) = done /\ \A i \in 1..done : got[g][i] = Sent(g)[i]
      /\ rd = at[g][done + 1] /\ left >= offs - rd
  BY <1>1 DEF UnpackEnd, Reader
<1>3. /\ Len(sets) \in Nat /\ rd \in Nat /\ offs \in Nat /\ left \in Nat
      /\ DOMAIN sets[g] = 1..Len(sets[g])
  BY <1>2, SetsFacts DEF JInv, IInv, TypeOK
<1> DEFINE to == Align(rd, 4)
<1>4. to \in Nat /\ to >= rd
  BY <1>3, AlignFacts
<1>5. to = IF g = Len(sets) THEN offs ELSE base[g + 1]
  BY <1>2, Written DEF EndOf, Reading
<1> HIDE DEF to
<1>6. g # Len(sets) => to + 4 <= offs /\ caller = "rows"
  <2>1. ASSUME g # Len(sets) PROVE g + 1 \in 1..Len(sets) /\ Len(sets) > 1
    BY <1>2, <1>3, <2>1
  <2>2. ASSUME g # Len(sets) PROVE caller = "rows"
    BY <2>1, <2>2, <1>3 DEF JInv, Once, IInv, TypeOK
  <2>3. ASSUME g # Len(sets) PROVE Field(to, 4, "code", g + 1) \in mem
    BY <1>2, <1>5, <2>1, <2>2, <2>3, Written DEF Reading
  <2>4. QED
    BY <2>2, <2>3, Within DEF JInv, BufferInv
<1>7. to <= offs /\ (to = offs <=> g = Len(sets)) /\ ~(left < to - rd)
      /\ ~(caller = "request" /\ to # offs)
  <2>1. caller \in {"request", "rows"} /\ ~(caller = "request" /\ caller = "rows")
    BY DEF JInv, IInv, TypeOK
  <2>2. to <= offs /\ (to = offs <=> g = Len(sets))
    <3>1. CASE g = Len(sets)
      BY <1>3, <1>4, <1>5, <3>1
    <3>2. CASE g # Len(sets)
      BY <1>3, <1>4, <1>6, <3>2
    <3>3. QED
      BY <3>1, <3>2
  <2>3. left >= to - rd
    <3>1. left >= offs - rd
      BY <1>2
    <3>2. QED
      BY ONLY <3>1, <2>2, <1>3, <1>4
  <2>4. ~(left < to - rd)
    BY ONLY <2>3, <1>3, <1>4
  <2>5. QED
    BY <1>6, <2>1, <2>2, <2>4
<1>8. rd' = to /\ pc' = (IF to = offs THEN "read" ELSE "code")
      /\ UNCHANGED <<packvars, done, left, count, got>>
  BY <1>7 DEF UnpackEnd, to
<1>9. got[g] = Sent(g)
  <2>1. got[g] \in Seq(Item)
    BY <1>1, <1>2, ElementOfSeq
  <2>2. DOMAIN got[g] = 1..done /\ got[g] = [i \in 1..done |-> got[g][i]]
    BY <1>2, <2>1, LenProperties
  <2>3. Sent(g) = [i \in 1..done |-> Sent(g)[i]]
    BY <1>2, <1>3 DEF Sent
  <2>4. QED
    BY <1>2, <2>2, <2>3
<1>10. Got(g)
  <2>1. \A k \in 1..g : k \in 1..g - 1 \/ k = g
    BY <1>2, <1>3
  <2>2. QED
    BY <1>2, <1>9, <2>1 DEF Got
<1>11. Got(g)'
  <2>1. \A k : Sent(k)' = Sent(k)
    BY <1>8 DEF Sent, packvars
  <2>2. QED
    BY <1>8, <1>10, <2>1 DEF Got
<1>12. CASE g = Len(sets)
  BY <1>1, <1>2, <1>7, <1>8, <1>11, <1>12 DEF Reader, packvars
<1>13. CASE g # Len(sets)
  <2>1. g < Len(sets)
    BY <1>2, <1>3, <1>13
  <2>2. QED
    BY <1>1, <1>2, <1>5, <1>6, <1>7, <1>8, <1>11, <1>13, <2>1 DEF Reader, packvars
<1>14. QED
  BY <1>12, <1>13

\* A string has its last byte at least, and a NULL has no data.
LEMMA StringSize ==
  ASSUME NEW p \in Parms
  PROVE  ~(p.type = "STRING" /\ Size(p) = 0)
<1>1. p.strlen \in Nat
  <2>1. Lengths \subseteq Nat /\ 0 \in Nat
    BY SizesAssumption
  <2>2. QED
    BY <2>1 DEF Parms
<1>2. p.strlen + 1 # 0
  BY <1>1
<1>3. QED
  BY <1>2 DEF Size, Wide

LEMMA SizeNone ==
  ASSUME NEW p \in Parms, ~Counted(p.type), ~Wide(p.type)
  PROVE  Size(p) = 0
BY DEF Parms, Size, Counted, Wide, Types

\* What is there is delivered.
LEMMA Delivered ==
  ASSUME Apart, NEW t, NEW from, NEW to, NEW size, NEW l, NEW v,
         Room(l, from, to, size), Field(to, size, "data", v) \in mem, Deliver(t, from, to, size, l)
  PROVE  /\ got' = [got EXCEPT ![Len(got)] = Append(@, [type |-> t, sz |-> size, data |-> v])]
         /\ rd' = to + size /\ left' = Skip(l, from, to) - size /\ done' = done + 1
         /\ UNCHANGED <<pc, packvars, count>>
<1>1. Stored(to, size, "data") = {v}
  BY Found
<1>2. \E w \in Stored(to, size, "data") :
        got' = [got EXCEPT ![Len(got)] = Append(@, [type |-> t, sz |-> size, data |-> w])]
  BY <1>1 DEF Deliver
<1>3. QED
  BY <1>1, <1>2 DEF Deliver

\* The data of a parameter, wherever padding and length have left the reader.
LEMMA UnpackDelivers ==
  ASSUME JInv, Unpack, NEW g \in Nat, NEW i \in Nat, NEW a, NEW p \in Parms,
         ParmIn(mem, a, g, i, p), rd = a[i], left >= offs - rd
  PROVE  \E from \in Nat, l \in Int :
           /\ l >= offs - from /\ DataAt(rd, p) >= from
           /\ Deliver(p.type, from, DataAt(rd, p), Size(p), l)
<1> DEFINE to == Align(rd, 4)
           dat == DataAt(rd, p)
           next == to + 4
           l == Skip(left, rd, to) - 4
<1>1. IInv /\ Behind /\ Apart /\ rd \in Nat /\ offs \in Nat /\ left \in Nat
  BY DEF JInv, BufferInv, IInv, TypeOK
<1>2. /\ Field(to, 4, "type", p.type) \in mem
      /\ Counted(p.type) => Field(next, 4, "length", Size(p)) \in mem
  BY DEF ParmIn
<1>3. to \in Nat /\ to >= rd /\ to + 4 <= offs /\ Stored(to, 4, "type") = {p.type}
  <2>1. to \in Nat /\ to >= rd
    BY <1>1, AlignFacts
  <2>2. to + 4 <= offs
    BY <1>1, <1>2, Within
  <2>3. Stored(to, 4, "type") = {p.type}
    BY <1>1, <1>2, Found
  <2>4. QED
    BY <2>1, <2>2, <2>3
<1>4. Room(left, rd, to, 4) /\ l >= offs - next /\ l \in Int /\ next \in Nat
  <2> HIDE DEF to
  <2>1. Room(left, rd, to, 4) /\ Skip(left, rd, to) - 4 >= offs - (to + 4)
    <3>1. left \in Int /\ left >= offs - rd
      BY <1>1
    <3>2. rd \in Nat /\ to \in Nat /\ 4 \in Nat /\ offs \in Nat /\ to >= rd /\ to + 4 <= offs
      BY <1>1, <1>3
    <3>3. QED
      BY ONLY <3>1, <3>2, RoomThere
  <2>2. l \in Int
    BY <1>1, <1>3 DEF Skip
  <2>3. QED
    BY <1>3, <2>1, <2>2
<1>5. dat \in Nat /\ dat >= next /\ Size(p) \in Nat
  BY <1>1, DataFacts, SizeFacts
<1>6. IF Counted(p.type) THEN DeliverCounted(p.type, next, l)
      ELSE IF Wide(p.type) THEN Deliver(p.type, next, Align(next, 8), 8, l)
      ELSE Deliver(p.type, next, next, 0, l)
  <2> HIDE DEF to, l, next
  <2>1. \E t \in Stored(to, 4, "type") :
          IF Counted(t) THEN DeliverCounted(t, next, l)
          ELSE IF Wide(t) THEN Deliver(t, next, Align(next, 8), 8, l)
          ELSE Deliver(t, next, next, 0, l)
    BY <1>3, <1>4 DEF Unpack, to, l, next
  <2>2. QED
    BY <1>3, <2>1
<1>7. CASE Counted(p.type)
  <2>1. dat = next + 4 /\ next + 4 \in Nat
    <3>1. dat = to + 8
      BY <1>1, <1>7, DataFacts
    <3>2. QED
      BY <1>3, <3>1
  <2>2. next + 4 <= offs /\ Stored(next, 4, "length") = {Size(p)}
    <3>1. next + 4 <= offs
      BY <1>1, <1>2, <1>7, Within
    <3>2. Stored(next, 4, "length") = {Size(p)}
      BY <1>1, <1>2, <1>7, Found
    <3>3. QED
      BY <3>1, <3>2
  <2>3. l >= 4 /\ l - 4 \in Int /\ l - 4 >= offs - (next + 4)
    <3> HIDE DEF l, next
    <3>1. QED
      BY <1>1, <1>4, <2>2
  <2>4. ~(p.type = "STRING" /\ Size(p) = 0)
    BY StringSize
  <2>5. Deliver(p.type, next + 4, next + 4, Size(p), l - 4)
    <3> HIDE DEF l, next
    <3>1. \E n \in Stored(next, 4, "length") :
            IF p.type = "STRING" /\ n = 0 THEN Fail ELSE Deliver(p.type, next + 4, next + 4, n, l - 4)
      <4>1. ~(l < 4)
        BY <1>4, <2>3
      <4>2. QED
        BY <1>6, <1>7, <2>2, <4>1 DEF DeliverCounted
    <3>2. QED
      BY <2>2, <2>4, <3>1
  <2> HIDE DEF l, next, dat
  <2>6. dat >= next + 4
    BY <1>5, <2>1
  <2>7. /\ l - 4 >= offs - (next + 4) /\ dat >= next + 4
        /\ Deliver(p.type, next + 4, dat, Size(p), l - 4)
    BY <2>1, <2>3, <2>5, <2>6
  <2>8. QED
    BY <2>1, <2>3, <2>7 DEF dat
<1>8. CASE Wide(p.type)
  <2>1. ~Counted(p.type) /\ dat = Align(next, 8) /\ Size(p) = 8
    BY <1>8, SizeFacts DEF Wide, Counted, DataAt
  <2> HIDE DEF l, next
  <2>2. Deliver(p.type, next, dat, Size(p), l)
    BY <1>6, <1>8, <2>1
  <2> HIDE DEF dat
  <2>3. QED
    BY <1>4, <1>5, <2>2 DEF dat
<1>9. CASE ~Counted(p.type) /\ ~Wide(p.type)
  <2>1. dat = next /\ Size(p) = 0
    BY <1>9, SizeNone DEF DataAt
  <2> HIDE DEF l, next
  <2>2. Deliver(p.type, next, dat, Size(p), l)
    BY <1>6, <1>9, <2>1
  <2> HIDE DEF dat
  <2>3. QED
    BY <1>4, <1>5, <2>2 DEF dat
<1>10. QED
  BY <1>7, <1>8, <1>9

LEMMA UnpackReader ==
  ASSUME JInv, NEW base \in Base, NEW at \in Places, Laid(base, at), Reader(base, at), Unpack
  PROVE  Reader(base, at)'
<1>1. PICK g : g = Len(got)
  OBVIOUS
<1>2. PICK d : d = done
  OBVIOUS
<1>3. /\ pc = "unpack" /\ got \in Seq(Seq(Item)) /\ g \in 1..Len(sets) /\ Got(g - 1)
      /\ count = Len(sets[g]) /\ d \in 0..count /\ d < Len(sets[g])
      /\ Len(got[g]) = d /\ \A i \in 1..d : got[g][i] = Sent(g)[i]
      /\ rd = at[g][d + 1] /\ left >= offs - rd
  BY <1>1, <1>2 DEF Unpack, Reader
<1>4. /\ Len(sets) \in Nat /\ rd \in Nat /\ offs \in Nat /\ Apart
      /\ Len(sets[g]) \in Nat /\ d \in Nat /\ g \in Nat /\ DOMAIN sets[g] = 1..Len(sets[g])
  BY <1>3, SetsFacts DEF JInv, BufferInv, IInv, TypeOK
<1>5. d + 1 \in 1..Len(sets[g])
  BY <1>3, <1>4
<1>6. PICK p \in Parms : p = sets[g][d + 1]
  BY <1>3, <1>5, SetsFacts DEF JInv, IInv
<1>7. ParmIn(mem, at[g], g, d + 1, p)
  BY <1>3, <1>5, <1>6, Written DEF Packed, Reading
<1> DEFINE dat == DataAt(rd, p)
           item == [type |-> p.type, sz |-> Size(p), data |-> <<g, d + 1>>]
<1>8. /\ Field(dat, Size(p), "data", <<g, d + 1>>) \in mem
      /\ at[g][d + 2] = dat + Size(p)
  <2>1. d + 1 + 1 = d + 2
    BY <1>4
  <2>2. QED
    BY <1>3, <1>7, <2>1 DEF ParmIn, After
<1>9. PICK from \in Nat, l \in Int :
        l >= offs - from /\ dat >= from /\ Deliver(p.type, from, dat, Size(p), l)
  <2>1. d + 1 \in Nat
    BY <1>4
  <2>2. QED
    BY <1>3, <1>4, <1>7, <2>1, UnpackDelivers
<1>10. dat \in Nat /\ Size(p) \in Nat /\ dat + Size(p) <= offs
  <2>1. IInv /\ Behind
    BY DEF JInv, BufferInv
  <2>2. QED
    BY <1>8, <2>1, Within
<1>11. Room(l, from, dat, Size(p)) /\ Skip(l, from, dat) - Size(p) >= offs - (dat + Size(p))
  <2> HIDE DEF dat
  <2>1. QED
    BY ONLY <1>4, <1>9, <1>10, RoomThere
<1>12. /\ got' = [got EXCEPT ![g] = Append(@, item)]
       /\ rd' = dat + Size(p) /\ left' = Skip(l, from, dat) - Size(p) /\ done' = d + 1
       /\ UNCHANGED <<pc, packvars, count>>
  <2> HIDE DEF dat
  <2>1. Deliver(p.type, from, dat, Size(p), l) /\ Apart
    BY <1>4, <1>9
  <2>2. /\ got' = [got EXCEPT ![Len(got)] = Append(@, item)]
        /\ rd' = dat + Size(p) /\ left' = Skip(l, from, dat) - Size(p) /\ done' = done + 1
        /\ UNCHANGED <<pc, packvars, count>>
    BY <1>8, <1>11, <2>1, Delivered
  <2>3. QED
    BY <1>1, <1>2, <2>2
<1>13. item \in Item
  BY <1>4, SizeFacts DEF Item
<1>14. /\ Len(got) \in Nat /\ DOMAIN got = 1..g /\ g \in 1..g /\ got[g] \in Seq(Item)
       /\ Append(got[g], item) \in Seq(Item)
       /\ Len(Append(got[g], item)) = d + 1
       /\ \A i \in 1..d : Append(got[g], item)[i] = got[g][i]
       /\ Append(got[g], item)[d + 1] = item
  <2> HIDE DEF item
  <2>1. Len(got) \in Nat /\ DOMAIN got = 1..g /\ g \in 1..g
    BY <1>1, <1>3, <1>4, LenProperties
  <2>2. got[g] \in Seq(Item)
    BY <1>1, <1>3, <2>1, ElementOfSeq
  <2>3. QED
    BY <1>3, <1>13, <2>1, <2>2, AppendProperties
<1>15. /\ got' \in Seq(Seq(Item)) /\ Len(got') = g
       /\ got'[g] = Append(got[g], item) /\ \A k \in 1..g - 1 : got'[k] = got[k]
  <2> HIDE DEF item
  <2>1. got \in [1..g -> Seq(Item)]
    BY <1>3, <1>14, <1>1, LenProperties
  <2>2. got' \in [1..g -> Seq(Item)]
    BY <1>12, <1>14, <2>1
  <2>3. got' \in Seq(Seq(Item)) /\ Len(got') = g
    BY <1>4, <2>2
  <2>4. \A k \in 1..g - 1 : k \in 1..g /\ k # g
    BY <1>4
  <2>5. QED
    BY <1>12, <1>14, <2>1, <2>3, <2>4
<1>16. \A k : Sent(k)' = Sent(k)
  BY <1>12 DEF Sent, packvars
<1>17. Sent(g)[d + 1] = item
  BY <1>4, <1>5, <1>6 DEF Sent
<1>18. Got(g - 1)'
  BY <1>3, <1>15, <1>16 DEF Got
<1> HIDE DEF dat, item
<1>19. \A i \in 1..d + 1 : got'[g][i] = Sent(g)[i]
  <2>1. \A i \in 1..d + 1 : i \in 1..d \/ i = d + 1
    BY <1>4
  <2>2. QED
    BY <1>3, <1>14, <1>15, <1>17, <2>1
<1>20. /\ rd' = at[g][done' + 1] /\ done' \in 0..count' /\ left' >= offs' - rd'
       /\ Len(got'[g]) = done'
  <2>1. d + 1 + 1 = d + 2 /\ d + 1 \in 0..count
    BY <1>3, <1>4, <1>5
  <2>2. offs' = offs /\ count' = count
    BY <1>12 DEF packvars
  <2>3. QED
    BY <1>8, <1>11, <1>12, <1>14, <1>15, <2>1, <2>2
<1>21. sets' = sets /\ pc' = "unpack" /\ count' = count
  BY <1>3, <1>12 DEF packvars
<1>22. QED
  BY <1>3, <1>12, <1>15, <1>16, <1>18, <1>19, <1>20, <1>21 DEF Reader

-----------------------------------------------------------------------------
(* All of it. *)

\* Before the frame has arrived the reader has nothing.
LEMMA NotYetRead ==
  ASSUME Once', got' = <<>>, pc' \notin Reading \cup {"bad", "garbage"}, NEW base, NEW at
  PROVE  Reader(base, at)'
<1>1. got' \in Seq(Seq(Item))
  OBVIOUS
<1>2. QED
  BY <1>1 DEF Reader, Reading

LEMMA JInvInductive ==
  ASSUME JInv, [Next]_vars
  PROVE  JInv'
<1>1. IInv' /\ BufferInv' /\ Once'
  BY InvInductive, BufferInductive, OnceInductive DEF JInv
<1> SUFFICES ASSUME ~overran'
             PROVE  Fits' /\ \E base \in Base, at \in Places : Laid(base, at)' /\ Reader(base, at)'
  BY <1>1 DEF JInv
<1>2. ~overran
  BY FitsInductive
<1>3. Fits'
  BY <1>2, FitsInductive
<1> SUFFICES \E b \in Base, a \in Places : Laid(b, a)' /\ Reader(b, a)'
  BY <1>3
<1>4. PICK base \in Base, at \in Places : Laid(base, at) /\ Reader(base, at)
  BY <1>2 DEF JInv
<1>5. ASSUME pc' \notin Reading \cup {"bad", "garbage"},
             \E b \in Base, a \in Places : Laid(b, a)'
      PROVE  \E b \in Base, a \in Places : Laid(b, a)' /\ Reader(b, a)'
  <2>1. got' = <<>>
    BY <1>1, <1>5 DEF Once
  <2>2. QED
    BY <1>1, <1>5, <2>1, NotYetRead
<1>6. ASSUME NEW ps \in Sets, BeginRequest(ps) \/ BeginRow(ps)
      PROVE  \E b \in Base, a \in Places : Laid(b, a)' /\ Reader(b, a)'
  <2>1. pc' = "estimate"
    BY <1>6 DEF BeginRequest, BeginRow
  <2>2. QED
    BY <1>2, <1>5, <1>6, <2>1, BeginRequestLaid, BeginRowLaid DEF Reading
<1>7. CASE Estimate
  <2>1. pc = "estimate" /\ UNCHANGED <<pc, caller, sets, start, offs, mem>>
    BY <1>7 DEF Estimate
  <2>2. QED
    BY <1>4, <1>5, <2>1, LaidKept DEF Reading
<1>8. CASE Grow
  <2>1. pc' = "pack"
    BY <1>8 DEF Grow
  <2>2. QED
    BY <1>2, <1>5, <1>8, <2>1, GrowLaid DEF Reading
<1>9. CASE Pack
  <2>1. pc' = "pack"
    BY <1>9 DEF Pack
  <2>2. QED
    BY <1>2, <1>5, <1>9, <2>1, PackLaid DEF Reading
<1>10. CASE PackEnd
  <2>1. pc' \in {"begin", "packed"}
    BY <1>10 DEF PackEnd
  <2>2. QED
    BY <1>4, <1>5, <1>10, <2>1, PackEndLaid DEF Reading
<1>11. CASE RowsEnd
  <2>1. pc = "begin" /\ pc' = "packed" /\ UNCHANGED <<caller, sets, start, offs, mem>>
    BY <1>11 DEF RowsEnd, packvars
  <2>2. QED
    BY <1>4, <1>5, <2>1, LaidKept DEF Reading
<1>12. CASE NoMemory
  <2>1. pc' = "failed" /\ UNCHANGED <<caller, sets, start, offs, mem>>
    BY <1>12 DEF NoMemory, packvars
  <2>2. QED
    BY <1>4, <1>5, <2>1, LaidKept DEF Reading
<1>13. CASE Unpacking
  <2>1. Reader(base, at)'
    BY <1>4, <1>13, ReceiveReader, ReadCodeReader, ReadCountReader, UnpackReader, UnpackEndReader
       DEF Unpacking
  <2>2. UNCHANGED <<caller, sets, start, offs, mem>>
    BY <1>13, UnpackingLeads DEF packvars
  <2>3. pc \in {"packed"} \cup Reading
    BY <1>13 DEF Unpacking, Receive, ReadCode, ReadCount, Unpack, UnpackEnd, Reading
  <2>4. pc' \in Reading
    <3>1. pc' \in Reading \cup {"bad", "garbage"}
      BY <1>13, UnpackingLeads
    <3>2. pc' \notin {"bad", "garbage"}
      BY <2>1 DEF Reader
    <3>3. QED
      BY <3>1, <3>2
  <2>5. Laid(base, at)'
    BY <1>4, <2>2, <2>3, <2>4, LaidKept
  <2>6. QED
    BY <2>1, <2>5
<1>14. CASE UNCHANGED vars
  <2>1. UNCHANGED <<caller, sets, start, offs, mem, pc, got, rd, count, done, left>>
    BY <1>14 DEF vars, packvars, readvars
  <2>2. Laid(base, at)'
    <3>1. CASE pc # "pack"
      BY <1>4, <2>1, <3>1, LaidKept
    <3>2. CASE pc = "pack"
      BY <1>4, <2>1, <3>2 DEF Laid, Earlier, Latest, Start, Set
    <3>3. QED
      BY <3>1, <3>2
  <2>3. Reader(base, at)'
    <3>1. \A b : Start(b)' = Start(b)
      BY <2>1 DEF Start
    <3>2. \A k : Sent(k)' = Sent(k)
      BY <2>1 DEF Sent
    <3>3. \A n : Got(n)' = Got(n)
      BY <2>1, <3>2 DEF Got
    <3>4. QED
      BY <1>4, <2>1, <3>1, <3>2, <3>3 DEF Reader
  <2>4. QED
    BY <2>2, <2>3
<1>15. QED
  BY <1>6, <1>7, <1>8, <1>9, <1>10, <1>11, <1>12, <1>13, <1>14 DEF Next, Packing

\* Whatever sets are packed into whatever buffer, the fields of a set lie where
\* both sides of the layout say, as long as none overran the buffer.
THEOREM Layout == Spec => []JInv
<1>1. Init => JInv
  BY InitJInv
<1>2. JInv /\ [Next]_vars => JInv'
  BY JInvInductive
<1>3. QED
  BY <1>1, <1>2, PTL DEF Spec

LEMMA Returned == ASSUME JInv PROVE RoundTrip
<1> SUFFICES ASSUME ~overran
             PROVE  /\ pc \notin {"bad", "garbage"}
                    /\ pc \in {"count", "unpack"} => rd <= offs
                    /\ pc = "read" => got = [k \in DOMAIN sets |-> Sent(k)]
  BY DEF RoundTrip
<1>1. PICK base \in Base, at \in Places : Laid(base, at) /\ Reader(base, at)
  BY DEF JInv
<1>2. IInv /\ Behind /\ TypeOK /\ rd \in Nat /\ offs \in Nat /\ Len(sets) \in Nat
  BY SetsFacts DEF JInv, BufferInv, IInv, TypeOK
<1>3. pc \notin {"bad", "garbage"}
  BY <1>1 DEF Reader
<1>4. ASSUME pc = "count"
      PROVE  rd <= offs
  <2>1. PICK g : g = Len(got) + 1
    OBVIOUS
  <2>2. g \in 1..Len(sets) /\ rd = Start(base[g])
    <3>1. got \in Seq(Seq(Item)) /\ Len(got) < Len(sets) /\ rd = Start(base[g])
      BY <1>1, <1>4, <2>1 DEF Reader
    <3>2. Len(got) \in Nat
      BY <3>1, LenProperties
    <3>3. QED
      BY <1>2, <2>1, <3>1, <3>2
  <2>3. Field(Align(rd, 8), 4, "count", Len(sets[g])) \in mem
    BY <1>1, <1>4, <2>2, Written DEF Packed, CountIn, Reading
  <2>4. Align(rd, 8) + 4 <= offs /\ Align(rd, 8) \in Nat
    BY <1>2, <2>3, Within
  <2>5. Align(rd, 8) >= rd
    BY <1>2, AlignFacts
  <2>6. QED
    BY ONLY <1>2, <2>4, <2>5
<1>5. ASSUME pc = "unpack"
      PROVE  rd <= offs
  <2>1. PICK g : g = Len(got)
    OBVIOUS
  <2>2. g \in 1..Len(sets) /\ done \in 0..Len(sets[g]) /\ rd = at[g][done + 1]
    BY <1>1, <1>5, <2>1 DEF Reader
  <2>3. /\ \A i \in 1..Len(sets[g]) : ParmIn(mem, at[g], g, i, sets[g][i])
        /\ EndOf(at[g], sets[g]) = IF g = Len(sets) THEN offs ELSE base[g + 1]
    BY <1>1, <1>5, <2>2, Written DEF Packed, Reading
  <2>4. Len(sets[g]) \in Nat
    BY <1>2, <2>2, SetsFacts
  <2>5. CASE done < Len(sets[g])
    <3>1. done + 1 \in 1..Len(sets[g])
      BY <2>2, <2>4, <2>5
    <3>2. Field(Align(rd, 4), 4, "type", sets[g][done + 1].type) \in mem
      BY <2>2, <2>3, <3>1 DEF ParmIn
    <3>3. Align(rd, 4) + 4 <= offs /\ Align(rd, 4) \in Nat
      BY <1>2, <3>2, Within
    <3>4. Align(rd, 4) >= rd
      BY <1>2, AlignFacts
    <3>5. QED
      BY ONLY <1>2, <3>3, <3>4
  <2>6. CASE done = Len(sets[g])
    <3>1. Align(rd, 4) = IF g = Len(sets) THEN offs ELSE base[g + 1]
      BY <2>2, <2>3, <2>6 DEF EndOf
    <3>2. Align(rd, 4) >= rd /\ Align(rd, 4) \in Nat
      BY <1>2, AlignFacts
    <3>3. CASE g = Len(sets)
      BY <1>2, <3>1, <3>2, <3>3
    <3>4. CASE g # Len(sets)
      <4>1. g + 1 \in 1..Len(sets) /\ Len(sets) > 1
        BY <1>2, <2>2, <3>4
      <4>2. caller = "rows"
        BY <1>2, <4>1 DEF JInv, Once, TypeOK
      <4>3. Field(base[g + 1], 4, "code", g + 1) \in mem
        BY <1>1, <1>5, <4>1, <4>2, Written DEF Reading
      <4>4. Align(rd, 4) + 4 <= offs
        BY <1>2, <3>1, <3>4, <4>3, Within
      <4>5. QED
        BY ONLY <1>2, <3>2, <4>4
    <3>5. QED
      BY <3>3, <3>4
  <2>7. QED
    BY <2>2, <2>4, <2>5, <2>6
<1>6. ASSUME pc = "read"
      PROVE  got = [k \in DOMAIN sets |-> Sent(k)]
  <2>1. got \in Seq(Seq(Item)) /\ Len(got) = Len(sets) /\ \A k \in 1..Len(sets) : got[k] = Sent(k)
    BY <1>1, <1>6 DEF Reader, Got
  <2>2. DOMAIN sets = 1..Len(sets)
    BY <1>2, LenProperties DEF TypeOK
  <2>3. got = [k \in 1..Len(sets) |-> got[k]]
    BY <2>1, LenProperties
  <2>4. QED
    BY <2>1, <2>2, <2>3
<1>7. QED
  BY <1>3, <1>4, <1>5, <1>6

\* RoundTrip holds for all lengths, all numbers of parameters and rows and all
\* sizes of the buffer: where every set had room, the reader gets back what was
\* sent, is never past the end and never finds anything else.
THEOREM RoundTripHolds == Spec => []RoundTrip
<1>1. JInv => RoundTrip
  BY Returned
<1>2. QED
  BY <1>1, Layout, PTL
=============================================================================
