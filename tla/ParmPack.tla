------------------------------ MODULE ParmPack ------------------------------
(***************************************************************************)
(* Sets of parameters on their way through a buffer: sqlbox_parm_pack and  *)
(* sqlbox_parm_unpack with their callers, which send one set behind the    *)
(* header of a request (sqlbox_rebind, sqlbox_prepare_bind, sqlbox_exec)   *)
(* or one set per row, each behind a result code, in the reply to a step.  *)
(*                                                                         *)
(* Packing makes two passes over the set.  The first adds up how long it   *)
(* will be, from which the buffer is grown, the second writes at "offs".   *)
(* Both pad, integers and floats to eight bytes and everything to four,    *)
(* but the first pads its own sum and the second the place in the buffer.  *)
(*                                                                         *)
(* The buffer is the set of the fields that have been written to it.  Each *)
(* knows its place and size, so that clearing memory from some byte on     *)
(* takes away the fields there.  A reader pads by address; every buffer    *)
(* comes from malloc(3), so a place is aligned as its address is.          *)
(***************************************************************************)
EXTENDS Integers, SequencesExt

CONSTANTS
  Frame,     \* SQLBOX_FRAME, what a buffer holds at first
  CacheMax,  \* SQLBOX_CACHE_MAX, when the server stops adding rows
  Lengths,   \* bound: bytes of blobs and strings
  MaxParms,  \* bound: parameters in a set
  MaxSets    \* bound: rows in a reply

ASSUME SizesAssumption ==
  /\ Frame \in Nat /\ Frame >= 24
  /\ CacheMax \in Nat
  /\ Lengths \subseteq Nat
  /\ MaxParms \in Nat /\ MaxSets \in Nat \ {0}

VARIABLES
  pc,        \* "begin" of a set, "estimate", "pack", "packed", "code", "count",
             \* "unpack", "read"; "failed": no memory; "bad" frame; "garbage":
             \* something else is where a field should be
  caller,    \* a "request" or the "rows" of a reply
  sets,      \* the sets packed, the present one last
  est,       \* framesz after the prologue and after each parameter
  start,     \* offs when the packing of the set began
  offs,      \* where the next byte goes
  bufsz,     \* size of the buffer
  mem,       \* fields in the buffer
  overran,   \* some set did not fit the buffer
  done,      \* parameters of the set that have been packed or unpacked
  rd, left,  \* unpacking: the place, and the bytes left as the code counts them
  count,     \* unpacking: parameters in the set
  got        \* the sets unpacked, the present one last

packvars == <<caller, sets, est, start, offs, bufsz, mem, overran>>
readvars == <<rd, left, count, got>>
vars == <<pc, packvars, done, readvars>>

Types == {"NULL", "INT", "FLOAT", "BLOB", "STRING"}
Wide(t) == t \in {"INT", "FLOAT"}
Counted(t) == t \in {"BLOB", "STRING"}

\* The size of a string may be left to strlen(3), one byte short of its own.
Parms ==
  [type : Types \ {"BLOB", "STRING"}, sz : {0}, strlen : {0}]
  \cup [type : {"BLOB"}, sz : Lengths, strlen : {0}]
  \cup [type : {"STRING"}, sz : {0}, strlen : Lengths]
  \cup [type : {"STRING"}, sz : Lengths \ {0}, strlen : {0}]

Sets == UNION {[1..n -> Parms] : n \in 0..MaxParms}

(***************************************************************************)
(* The operators named Slip... are one mistake each in the definition that *)
(* follows them: the checks put them in its place to show that the         *)
(* property they name notices.  Next uses none of them.                    *)
(***************************************************************************)

\* Bytes of the data of a parameter.
Size(p) ==
  IF Wide(p.type) THEN 8
  ELSE IF p.type = "STRING" /\ p.sz = 0 THEN p.strlen + 1
  ELSE p.sz

\* sqlbox_parm_pack_align.
Align(n, algn) == IF n % algn # 0 THEN n + (algn - (n % algn)) ELSE n

\* The layout both passes follow: where the data of parameter p is, and where
\* the next one begins, if p begins at n.
DataAt(n, p) ==
  IF Wide(p.type) THEN Align(Align(n, 4) + 4, 8)
  ELSE IF Counted(p.type) THEN Align(n, 4) + 8
  ELSE Align(n, 4) + 4
After(n, p) == DataAt(n, p) + Size(p)

Field(at, size, what, val) == [at |-> at, size |-> size, what |-> what, val |-> val]

\* What is still there when the bytes from "from" on are cleared or lost.
Below(from) == {f \in mem : f.at + f.size <= from}

Set == Last(sets)

Init ==
  /\ pc = "begin"
  /\ caller \in {"request", "rows"}
  /\ offs \in IF caller = "request" THEN {12, 20} ELSE {4}
  /\ start = 0
  /\ bufsz = Frame
  /\ sets = <<>> /\ est = <<>> /\ mem = {} /\ overran = FALSE
  /\ done = 0 /\ rd = 0 /\ left = 0 /\ count = 0 /\ got = <<>>

-----------------------------------------------------------------------------
(* Packing. *)

\* ShortByFour: it starts with the number of parameters alone.
SlipPrologue(n) == 4

\* The first pass starts with the eight bytes it takes the padding for.
Prologue(n) == (8 - (n % 8)) + 4

\* A request: the header has been written, the set follows.
BeginRequest(ps) ==
  /\ pc = "begin" /\ caller = "request" /\ sets = <<>>
  /\ pc' = "estimate"
  /\ sets' = <<ps>>
  /\ start' = offs
  /\ est' = <<Prologue(offs)>>
  /\ UNCHANGED <<caller, offs, bufsz, mem, overran, done, readvars>>

(***************************************************************************)
(* sqlbox_pack_step: the buffer is given room for the code, which is then  *)
(* written.  All rows have the same columns, and the one that says there   *)
(* are no more has none.                                                   *)
(***************************************************************************)
BeginRow(ps) ==
  /\ pc = "begin" /\ caller = "rows" /\ Len(sets) < MaxSets
  /\ sets # <<>> => Set # <<>> /\ Len(ps) \in {0, Len(Set)}
  /\ sets # <<>> => offs < CacheMax
  /\ pc' = "estimate"
  /\ sets' = Append(sets, ps)
  /\ bufsz' = IF offs + 4 >= bufsz THEN offs + Frame ELSE bufsz
  /\ mem' = (IF offs + 4 >= bufsz THEN Below(bufsz) ELSE mem)
              \cup {Field(offs, 4, "code", Len(sets'))}
  /\ offs' = offs + 4
  /\ start' = offs'
  /\ est' = <<Prologue(offs')>>
  /\ UNCHANGED <<caller, overran, done, readvars>>

\* The first pass, a parameter at a time.
Estimate ==
  /\ pc = "estimate"
  /\ Len(est) <= Len(Set)
  /\ est' = Append(est, After(Last(est), Set[Len(est)]))
  /\ UNCHANGED <<pc, caller, sets, start, offs, bufsz, mem, overran, done, readvars>>

\* Its end: the buffer grows and the number of parameters is written.
Grow ==
  /\ pc = "estimate"
  /\ Len(est) > Len(Set)
  /\ LET size == offs + Align(Last(est), 4)
     IN bufsz' = IF size > bufsz THEN size ELSE bufsz
  /\ mem' = (IF bufsz' # bufsz THEN Below(bufsz) ELSE mem)
              \cup {Field(Align(offs, 8), 4, "count", Len(Set))}
  /\ offs' = Align(offs, 8) + 4
  /\ pc' = "pack"
  /\ done' = 0
  /\ UNCHANGED <<caller, sets, est, start, overran, readvars>>

\* The second pass, a parameter at a time.
Pack ==
  /\ pc = "pack"
  /\ done < Len(Set)
  /\ LET p == Set[done + 1]
         at == Align(offs, 4)
     IN /\ offs' = After(offs, p)
        /\ mem' = mem
             \cup {Field(at, 4, "type", p.type)}
             \cup (IF Counted(p.type) THEN {Field(at + 4, 4, "length", Size(p))} ELSE {})
             \cup {Field(DataAt(offs, p), Size(p), "data", <<Len(sets), done + 1>>)}
  /\ done' = done + 1
  /\ UNCHANGED <<pc, caller, sets, est, start, bufsz, overran, readvars>>

\* RoundTrip: the next row starts where this one's last byte was.
SlipPackEnd ==
  /\ pc = "pack"
  /\ done = Len(Set)
  /\ overran' = (overran \/ offs > bufsz)
  /\ pc' = IF caller = "rows" /\ Set # <<>> THEN "begin" ELSE "packed"
  /\ UNCHANGED <<caller, sets, est, start, offs, bufsz, mem, done, readvars>>

\* Its end.  A buffer written past its end may still hold what was written.
PackEnd ==
  /\ pc = "pack"
  /\ done = Len(Set)
  /\ offs' = Align(offs, 4)
  /\ overran' = (overran \/ offs' > bufsz)
  /\ pc' = IF caller = "rows" /\ Set # <<>> THEN "begin" ELSE "packed"
  /\ UNCHANGED <<caller, sets, est, start, bufsz, mem, done, readvars>>

\* Only the first row is packed (a single step), or CacheMax has been reached
\* (or, in the model, MaxSets).
RowsEnd ==
  /\ pc = "begin" /\ sets # <<>>
  /\ Len(sets) = 1 \/ offs >= CacheMax \/ Len(sets) = MaxSets
  /\ pc' = "packed"
  /\ UNCHANGED <<packvars, done, readvars>>

\* No memory for a larger buffer: the caller fails.
NoMemory ==
  /\ (pc = "begin" /\ sets # <<>>) \/ (pc = "estimate" /\ Len(est) > Len(Set))
  /\ pc' = "failed"
  /\ UNCHANGED <<packvars, done, readvars>>

-----------------------------------------------------------------------------
(* Unpacking, by the server from a request or by the client from a reply.  *)

\* sqlbox_parm_unpack or its caller gives up: the frame is bad.
Fail == pc' = "bad" /\ UNCHANGED <<packvars, done, readvars>>

\* What is at the place is not what was put there.
Garbage == pc' = "garbage" /\ UNCHANGED <<packvars, done, readvars>>

Stored(at, size, what) ==
  {f.val : f \in {g \in mem : g.at = at /\ g.size = size /\ g.what = what}}

\* sqlbox_parm_unpack_align and the check before a read: there is room to skip
\* to "at" and for "size" bytes there.  Skipping adds to the bytes left.
Skip(l, from, at) == l + (at - from)
Room(l, from, at, size) == l >= at - from /\ Skip(l, from, at) >= size

\* The frame has arrived and the part before the first set has been read.
Receive ==
  /\ pc = "packed"
  /\ rd' = IF caller = "request" THEN start ELSE 4
  /\ pc' = IF caller = "request" THEN "count" ELSE "code"
  /\ UNCHANGED <<packvars, done, left, count, got>>

\* sqlbox_step: the next set of the reply begins with a code.
ReadCode ==
  /\ pc = "code"
  /\ \/ rd + 4 > offs /\ Fail
     \/ rd + 4 <= offs /\ Stored(rd, 4, "code") = {} /\ Garbage
     \/ /\ rd + 4 <= offs /\ Stored(rd, 4, "code") # {}
        /\ rd' = rd + 4
        /\ pc' = "count"
        /\ UNCHANGED <<packvars, done, left, count, got>>

\* The prologue.  sqlbox_parm_unpack is given all bytes up to the frame's end.
ReadCount ==
  /\ pc = "count"
  /\ LET l == offs - rd
         at == Align(rd, 8)
     IN \/ ~Room(l, rd, at, 4) /\ Fail
        \/ Room(l, rd, at, 4) /\ Stored(at, 4, "count") = {} /\ Garbage
        \/ /\ Room(l, rd, at, 4)
           /\ count' \in Stored(at, 4, "count")
           /\ left' = Skip(l, rd, at) - 4
           /\ rd' = at + 4
           /\ got' = Append(got, <<>>)
           /\ done' = 0
           /\ pc' = "unpack"
           /\ UNCHANGED packvars

\* The data of a parameter of type t, after padding, with l bytes left.
Deliver(t, from, at, size, l) ==
  \/ ~Room(l, from, at, size) /\ Fail
  \/ Room(l, from, at, size) /\ Stored(at, size, "data") = {} /\ Garbage
  \/ /\ Room(l, from, at, size)
     /\ \E v \in Stored(at, size, "data") :
          got' = [got EXCEPT ![Len(got)] = Append(@, [type |-> t, sz |-> size, data |-> v])]
     /\ rd' = at + size
     /\ left' = Skip(l, from, at) - size
     /\ done' = done + 1
     /\ UNCHANGED <<pc, packvars, count>>

\* A blob or a string: its length, which is not zero for a string, and its data.
DeliverCounted(t, at, l) ==
  \/ l < 4 /\ Fail
  \/ l >= 4 /\ Stored(at, 4, "length") = {} /\ Garbage
  \/ /\ l >= 4
     /\ \E n \in Stored(at, 4, "length") :
          IF t = "STRING" /\ n = 0 THEN Fail ELSE Deliver(t, at + 4, at + 4, n, l - 4)

\* One turn of the loop.
Unpack ==
  /\ pc = "unpack"
  /\ done < count
  /\ LET at == Align(rd, 4)
         next == at + 4
         l == Skip(left, rd, at) - 4
     IN \/ ~Room(left, rd, at, 4) /\ Fail
        \/ Room(left, rd, at, 4) /\ Stored(at, 4, "type") = {} /\ Garbage
        \/ /\ Room(left, rd, at, 4)
           /\ \E t \in Stored(at, 4, "type") :
                IF Counted(t) THEN DeliverCounted(t, next, l)
                ELSE IF Wide(t) THEN Deliver(t, next, Align(next, 8), 8, l)
                ELSE Deliver(t, next, next, 0, l)

\* The epilogue.  A request has to end here, a reply may go on.
UnpackEnd ==
  /\ pc = "unpack"
  /\ done = count
  /\ LET at == Align(rd, 4)
     IN IF left < at - rd \/ (caller = "request" /\ at # offs) THEN Fail
        ELSE /\ rd' = at
             /\ pc' = IF at = offs THEN "read" ELSE "code"
             /\ UNCHANGED <<packvars, done, left, count, got>>

Packing == Estimate \/ Grow \/ Pack \/ PackEnd
Unpacking == Receive \/ ReadCode \/ ReadCount \/ Unpack \/ UnpackEnd

Next ==
  \/ \E ps \in Sets : BeginRequest(ps) \/ BeginRow(ps)
  \/ Packing \/ RowsEnd \/ NoMemory
  \/ Unpacking

Spec == Init /\ [][Next]_vars

-----------------------------------------------------------------------------
(* What packing and unpacking promise. *)

\* The variables hold what the code's variables hold.
TypeOK ==
  /\ pc \in {"begin", "estimate", "pack", "packed", "code", "count", "unpack",
             "read", "failed", "bad", "garbage"}
  /\ caller \in {"request", "rows"}
  /\ sets \in Seq(Sets) /\ est \in Seq(Nat)
  /\ start \in Nat /\ offs \in Nat /\ bufsz \in Nat
  /\ \A f \in mem : f.at \in Nat /\ f.size \in Nat
  /\ overran \in BOOLEAN
  /\ done \in Nat /\ rd \in Nat /\ left \in Nat /\ count \in Nat

\* The estimate falls short only where the set starts halfway between two
\* multiples of eight and has an integer or float, and then by four bytes.
ShortByFour ==
  pc \in {"pack", "packed"} /\ offs > bufsz =>
    /\ offs <= bufsz + 4
    /\ start % 8 = 4
    /\ \E i \in DOMAIN Set : Wide(Set[i].type)

\* What sets become on the other side.
Sent(k) ==
  [i \in DOMAIN sets[k] |->
     [type |-> sets[k][i].type, sz |-> Size(sets[k][i]), data |-> <<k, i>>]]

\* Where every set had room the receiver gets all of them back, finds the end
\* of the frame where it is, and never reads past it, although the code adds
\* the padding it has skipped to the bytes left instead of taking it off.
RoundTrip ==
  ~overran =>
    /\ pc \notin {"bad", "garbage"}
    /\ pc \in {"count", "unpack"} => rd <= offs
    /\ pc = "read" => got = [k \in DOMAIN sets |-> Sent(k)]

=============================================================================
