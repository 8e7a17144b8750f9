---------------------------- MODULE FrameProofs ----------------------------
(***************************************************************************)
(* Proofs about Frame: unless a hangup may come alone, what is written and *)
(* read through the socket is the plain pipe of FramePipe, for frames of   *)
(* any lengths, sends and reads cut anywhere and a socket of any size. A   *)
(* reader that sleeps has everything that was sent.                        *)
(*                                                                         *)
(* The frames written lie one behind the other in the stream of all bytes. *)
(* The inductive invariant has a place for each of them, and says that the *)
(* socket holds the stream from the place of the reader to that of the     *)
(* writer.  No induction on the frames is needed: a frame that is put adds *)
(* a place, and one that is got moves the reader to the next.              *)
(***************************************************************************)
EXTENDS Frame, SequenceTheorems, TLAPS

Byte == [frame : Nat, at : Nat, len : Nat]

\* What a frame takes of the stream, and its bytes there.
Span(f) == IF Len(f) < Basis THEN Basis ELSE Len(f)
ByteOf(f, k) == IF k <= Len(f) THEN f[k] ELSE Unset

\* The bytes of the frame it is at that the reader has.
Reading == pc \in {"basis", "size", "rest"}
Has == IF Reading THEN sz ELSE 0

\* The frame the reader is at, which may be only partly written.
Current == IF Len(got) < Len(put) THEN put[Len(got) + 1] ELSE out

Types ==
  /\ out \in Frames \cup {<<>>}
  /\ put \in Seq(Frames) /\ got \in Seq(Frames)
  /\ tsz \in Nat /\ sz \in Nat /\ bsz \in Nat
  /\ pipe \in Seq(Byte) /\ buf \in Seq(Byte)
  /\ end \in {"open", "between", "within"}
  /\ result \in {"frame", "eof", "failed"}
  /\ pc \in {"call", "basis", "size", "rest", "stopped"}

WriterInv ==
  /\ out = <<>> => tsz = 0
  /\ out # <<>> => tsz < Span(out) /\ out[1].frame = Len(put) + 1
  /\ \A k \in 1..Len(put) : put[k][1].frame = k
  /\ end # "open" => end = IF tsz = 0 THEN "between" ELSE "within"
  /\ Len(pipe) <= Capacity

ReaderInv ==
  /\ Len(got) <= Len(put)
  /\ \A k \in 1..Len(got) : got[k] = put[k]
  /\ result = "frame" <=> pc # "stopped"
  /\ buf # <<>> => Len(buf) >= Basis
  /\ Reading => buf # <<>>
  /\ sz <= Len(buf)
  /\ bsz \in Lengths \cup {0}
  /\ pc = "basis" => sz < Basis
  /\ pc = "size" => sz = Basis
  /\ pc = "rest" => Basis <= sz /\ sz < bsz /\ bsz <= Len(buf) /\ bsz = Len(Current)
  /\ Reading => \A k \in 1..sz : buf[k] = ByteOf(Current, k)

\* Frame k begins after place[k] bytes.
Places(place) ==
  /\ \A k \in 1..Len(put) : place[k + 1] = place[k] + Span(put[k])
  /\ \A j \in 1..Len(put) : \A k \in 1..Len(put) + 1 :
       j < k => place[j] + Span(put[j]) <= place[k]

\* The bytes of frame f behind the reader's place that were written.
Bytes(begin, here, f, upto) ==
  \A a \in 1..upto : begin + a > here => pipe[begin + a - here] = ByteOf(f, a)

Stream(place) ==
  LET here == place[Len(got) + 1] + Has IN
  /\ here + Len(pipe) = place[Len(put) + 1] + tsz
  /\ \A k \in 1..Len(put) : Bytes(place[k], here, put[k], Span(put[k]))
  /\ Bytes(place[Len(put) + 1], here, out, tsz)

StreamInv ==
  pc # "stopped" =>
    \E place \in [1..Len(put) + 1 -> Nat] : Places(place) /\ Stream(place)

IInv == Types /\ WriterInv /\ ReaderInv /\ StreamInv

\* A hangup that came alone within a frame has had the frame returned as it was: the
\* reader has run ahead of the writer, and there is nothing left to read.
Cut ==
  /\ out \in Frames \cup {<<>>} /\ put \in Seq(Frames) /\ tsz \in Nat
  /\ out = <<>> => tsz = 0
  /\ out # <<>> => tsz < Span(out)
  /\ end \in {"between", "within"} /\ pipe = <<>>
  /\ buf # <<>> /\ sz \in 0..Len(buf) /\ bsz \in Lengths \cup {0}
  /\ pc \in {"call", "basis", "stopped"}
  /\ pc = "basis" => sz = 0
  /\ result \in {"frame", "eof", "failed"}

-----------------------------------------------------------------------------
(* Frames and their bytes. *)

LEMMA FrameFacts ==
  ASSUME NEW f \in Frames
  PROVE  /\ f \in Seq(Byte) /\ f # <<>>
         /\ Len(f) \in Lengths /\ Len(f) \in Nat /\ Len(f) >= 1
         /\ f[1].frame \in 1..MaxFrames
         /\ \A k \in 1..Len(f) : f[k] = [frame |-> f[1].frame, at |-> k, len |-> Len(f)]
<1>1. PICK no \in 1..MaxFrames, len \in Lengths : f = Cell(no, len)
  BY DEF Frames
<1>2. len \in Nat /\ len >= 1 /\ no \in Nat
  BY <1>1, FrameAssumption
<1>3. f = [k \in 1..len |-> [frame |-> no, at |-> k, len |-> len]]
  BY <1>1 DEF Cell
<1>4. f \in [1..len -> Byte]
  BY <1>2, <1>3 DEF Byte
<1>5. f \in Seq(Byte) /\ Len(f) = len
  BY <1>2, <1>4, SeqDef, LenProperties
<1>6. QED
  BY <1>1, <1>2, <1>3, <1>5

LEMMA CellIsFrame ==
  ASSUME NEW no \in 1..MaxFrames, NEW len \in Lengths
  PROVE  Cell(no, len) \in Frames /\ Cell(no, len)[1].frame = no
<1>1. Cell(no, len) \in Frames
  BY DEF Frames
<1>2. 1 \in 1..len
  BY FrameAssumption
<1>3. QED
  BY <1>1, <1>2 DEF Cell

LEMMA SpanFacts ==
  ASSUME NEW f \in Frames
  PROVE  Span(f) \in Nat /\ Span(f) >= Basis /\ Span(f) >= Len(f) /\ Span(f) >= 1
BY FrameFacts, FrameAssumption DEF Span

LEMMA PaddedFacts ==
  ASSUME NEW f \in Frames
  PROVE  /\ Padded(f) \in Seq(Byte)
         /\ Len(Padded(f)) = Span(f)
         /\ \A k \in 1..Span(f) : Padded(f)[k] = ByteOf(f, k)
<1> DEFINE n == Larger(Basis - Len(f), 0)
           pad == [k \in 1..n |-> Unset]
<1>1. f \in Seq(Byte) /\ Len(f) \in Nat /\ Basis \in Nat
  BY FrameFacts, FrameAssumption
<1>2. n \in Nat /\ Len(f) + n = Span(f)
  BY <1>1 DEF Larger, Span
<1>3. pad \in [1..n -> Byte]
  BY DEF Unset, Byte
<1>4. pad \in Seq(Byte) /\ Len(pad) = n
  BY <1>2, <1>3, SeqDef, LenProperties
<1>5. Padded(f) = f \o pad
  BY DEF Padded
<1> HIDE DEF n, pad
<1>6. /\ f \o pad \in Seq(Byte) /\ Len(f \o pad) = Len(f) + Len(pad)
      /\ \A k \in 1..Len(f) + Len(pad) :
           (f \o pad)[k] = IF k <= Len(f) THEN f[k] ELSE pad[k - Len(f)]
  BY <1>1, <1>4, ConcatProperties
<1>7. \A k \in 1..n : pad[k] = Unset
  BY DEF pad
<1>8. ASSUME NEW k \in 1..Span(f) PROVE Padded(f)[k] = ByteOf(f, k)
  <2>1. Padded(f)[k] = IF k <= Len(f) THEN f[k] ELSE pad[k - Len(f)]
    BY <1>2, <1>4, <1>5, <1>6
  <2>2. ~(k <= Len(f)) => k - Len(f) \in 1..n
    BY <1>1, <1>2
  <2>3. QED
    BY <2>1, <2>2, <1>7 DEF ByteOf
<1>9. QED
  BY <1>2, <1>4, <1>5, <1>6, <1>8

LEMMA PartOf ==
  ASSUME NEW s \in Seq(Byte), NEW m \in Nat, NEW n \in Nat, m + n <= Len(s)
  PROVE  /\ SubSeq(s, m + 1, m + n) \in Seq(Byte)
         /\ Len(SubSeq(s, m + 1, m + n)) = n
         /\ \A i \in 1..n : SubSeq(s, m + 1, m + n)[i] = s[m + i]
<1>1. PICK a \in Int, b \in Int : a = m + 1 /\ b = m + n
  OBVIOUS
<1>2. \A i \in a .. b : s[i] \in Byte
  BY <1>1, ElementOfSeq
<1>3. /\ SubSeq(s, a, b) \in Seq(Byte)
      /\ Len(SubSeq(s, a, b)) = IF a <= b THEN b - a + 1 ELSE 0
      /\ \A i \in 1 .. b - a + 1 : SubSeq(s, a, b)[i] = s[a + i - 1]
  BY <1>2, SubSeqProperties
<1>4. b - a + 1 = n /\ (~(a <= b) => n = 0)
  BY <1>1
<1>5. \A i \in 1..n : a + i - 1 = m + i
  BY <1>1
<1>6. QED
  BY <1>1, <1>3, <1>4, <1>5

\* The bytes of a frame are all there is to it.
LEMMA FrameIs ==
  ASSUME NEW f \in Frames, NEW s \in Seq(Byte), Len(f) <= Len(s),
         \A k \in 1..Len(f) : s[k] = ByteOf(f, k)
  PROVE  SubSeq(s, 1, Len(f)) = f
<1>1. f \in Seq(Byte) /\ Len(f) \in Nat /\ Len(f) >= 1
  BY FrameFacts
<1>2. \A k \in 1..Len(f) : s[k] = f[k] /\ f[k] \in Byte
  BY <1>1, ElementOfSeq DEF ByteOf
<1>3. /\ SubSeq(s, 1, Len(f)) \in Seq(Byte)
      /\ Len(SubSeq(s, 1, Len(f))) = Len(f)
      /\ \A i \in 1..Len(f) : SubSeq(s, 1, Len(f))[i] = s[i]
  <2>1. \A i \in 1..Len(f) : s[i] \in Byte
    BY <1>2
  <2>2. QED
    BY <1>1, <2>1, SubSeqProperties
<1>4. QED
  BY <1>1, <1>2, <1>3, SeqEqual

-----------------------------------------------------------------------------
(* Where the reader is. *)

\* While the reader has bytes of a frame, that frame has at least been begun.
LEMMA CurrentFacts ==
  ASSUME IInv, pc # "stopped"
  PROVE  /\ Len(got) = Len(put) => Has <= tsz
         /\ Has > 0 => Current \in Frames
         /\ Len(pipe) > 0 => Current \in Frames
         /\ Len(got) = Len(put) => Len(pipe) = tsz - Has
<1> DEFINE P == Len(put)
           G == Len(got)
<1>1. /\ P \in Nat /\ G \in Nat /\ G <= P /\ tsz \in Nat /\ Has \in Nat /\ Len(pipe) \in Nat
      /\ out \in Frames \cup {<<>>} /\ (out = <<>> => tsz = 0)
  BY LenProperties DEF IInv, Types, WriterInv, ReaderInv, Has
<1>2. PICK place \in [1..P + 1 -> Nat] : Places(place) /\ Stream(place)
  BY DEF IInv, StreamInv
<1>3. place[G + 1] + Has + Len(pipe) = place[P + 1] + tsz /\ place[G + 1] \in Nat
  BY <1>1, <1>2 DEF Stream
<1>4. G = P => Has + Len(pipe) = tsz
  BY <1>1, <1>3
<1>5. ASSUME G < P PROVE Current \in Frames
  <2>1. G + 1 \in 1..P
    BY <1>1, <1>5
  <2>2. QED
    BY <1>5, <2>1, ElementOfSeq DEF IInv, Types, Current
<1>6. G = P => Current = out
  BY <1>1 DEF Current
<1>7. QED
  BY <1>1, <1>4, <1>5, <1>6

\* Nothing in the socket: the reader is where the writer is.
LEMMA AtWriter ==
  ASSUME IInv, pc # "stopped", pipe = <<>>, Has < Basis \/ Has < Len(Current)
  PROVE  Len(got) = Len(put) /\ Has = tsz
<1> DEFINE P == Len(put)
           G == Len(got)
<1>1. /\ P \in Nat /\ G \in Nat /\ G <= P /\ tsz \in Nat /\ Has \in Nat /\ Len(pipe) = 0
  BY LenProperties DEF IInv, Types, WriterInv, ReaderInv, Has
<1>2. PICK place \in [1..P + 1 -> Nat] : Places(place) /\ Stream(place)
  BY DEF IInv, StreamInv
<1>3. place[G + 1] + Has = place[P + 1] + tsz /\ place[G + 1] \in Nat /\ place[P + 1] \in Nat
  BY <1>1, <1>2 DEF Stream
<1>4. ASSUME G < P PROVE FALSE
  <2>1. G + 1 \in 1..P /\ P + 1 \in 1..P + 1 /\ G + 1 < P + 1
    BY <1>1, <1>4
  <2>2. Current = put[G + 1] /\ Current \in Frames
    BY <1>4, <2>1, ElementOfSeq DEF IInv, Types, Current
  <2>3. place[G + 1] + Span(Current) <= place[P + 1]
    BY <1>2, <2>1, <2>2 DEF Places
  <2>4. Has < Span(Current)
    BY <1>1, <2>2, SpanFacts, FrameFacts, FrameAssumption
  <2>5. QED
    BY <1>1, <1>3, <2>2, <2>3, <2>4, SpanFacts
<1>5. QED
  BY <1>1, <1>3, <1>4

-----------------------------------------------------------------------------
(* The invariant holds at first and every step of the writer keeps it.     *)

LEMMA InitIInv == Init => IInv
<1> SUFFICES ASSUME Init PROVE IInv
  OBVIOUS
<1> USE DEF Init
<1>1. Types
  BY DEF Types
<1>2. WriterInv
  BY FrameAssumption DEF WriterInv
<1>3. ReaderInv
  BY DEF ReaderInv, Reading
<1>4. StreamInv
  <2> DEFINE place == [k \in 1..Len(put) + 1 |-> 0]
  <2>1. place \in [1..Len(put) + 1 -> Nat] /\ Places(place)
    BY DEF Places
  <2>2. Stream(place)
    BY DEF Stream, Bytes, Has, Reading
  <2>3. QED
    BY <2>1, <2>2 DEF StreamInv
<1>5. QED
  BY <1>1, <1>2, <1>3, <1>4 DEF IInv

LEMMA WriteFrameStep ==
  ASSUME IInv, NEW len \in Lengths, WriteFrame(len)
  PROVE  IInv'
<1> USE DEF WriteFrame, reader
<1>1. Len(put) \in Nat /\ Len(got) \in Nat /\ Len(got) <= Len(put)
  BY LenProperties DEF IInv, Types, ReaderInv
<1>2. Len(put) + 1 \in 1..MaxFrames
  BY <1>1, FrameAssumption
<1>3. out' \in Frames /\ out'[1].frame = Len(put) + 1
  BY <1>2, CellIsFrame
<1>4. Types'
  BY <1>3 DEF IInv, Types
<1>5. WriterInv'
  <2>1. out' # <<>> /\ 0 < Span(out')
    BY <1>3, FrameFacts, SpanFacts
  <2>2. tsz = 0
    BY DEF IInv, WriterInv
  <2>3. Span(out)' = Span(out')
    BY DEF Span
  <2>4. QED
    BY <1>3, <2>1, <2>2, <2>3 DEF IInv, WriterInv
<1>6. Has' = Has /\ Reading' = Reading
  BY DEF Has, Reading
<1>7. Len(got) = Len(put) => Has = 0 \/ pc = "stopped"
  <2>1. Has \in Nat
    BY DEF IInv, Types, Has
  <2>2. QED
    BY <2>1, CurrentFacts DEF IInv, WriterInv
<1>8. ReaderInv'
  <2>1. Reading /\ sz > 0 => Current' = Current
    <3>1. ASSUME Reading, sz > 0 PROVE Len(got) < Len(put)
      <4>1. Has = sz /\ pc # "stopped"
        BY <3>1 DEF Has, Reading
      <4>2. QED
        BY <1>1, <1>7, <3>1, <4>1
    <3>2. QED
      BY <3>1 DEF Current
  <2>2. pc = "rest" => sz > 0 /\ Reading
    BY FrameAssumption DEF IInv, Types, ReaderInv, Reading
  <2>3. \A k \in 1..sz : Reading => ByteOf(Current, k)' = ByteOf(Current, k)
    BY <2>1 DEF ByteOf, IInv, Types
  <2>4. QED
    BY <1>6, <2>1, <2>2, <2>3 DEF IInv, ReaderInv
<1>9. StreamInv'
  <2> SUFFICES ASSUME pc # "stopped"
               PROVE  \E place \in [1..Len(put) + 1 -> Nat] : (Places(place) /\ Stream(place))'
    BY DEF StreamInv
  <2>1. PICK place \in [1..Len(put) + 1 -> Nat] : Places(place) /\ Stream(place)
    BY DEF IInv, StreamInv
  <2>2. Places(place)'
    BY <2>1 DEF Places, Span
  <2>3. Stream(place)'
    <3>1. tsz = 0
      BY DEF IInv, WriterInv
    <3>2. QED
      BY <2>1, <1>6, <3>1 DEF Stream, Bytes, ByteOf, Span
  <2>4. QED
    BY <2>1, <2>2, <2>3
<1>10. QED
  BY <1>4, <1>5, <1>8, <1>9 DEF IInv

\* One send: the stream in the socket grows by the next bytes of the frame.
LEMMA SendBytes ==
  ASSUME IInv, NEW n \in 1..Capacity, Send(n),
         NEW place \in [1..Len(put) + 1 -> Nat], Places(place), Stream(place)
  PROVE  LET here == place[Len(got) + 1] + Has IN
         /\ out \in Frames /\ tsz + n <= Span(out) /\ Len(Padded(out)) = Span(out)
         /\ pipe' \in Seq(Byte) /\ Len(pipe') = Len(pipe) + n /\ Len(pipe') <= Capacity
         /\ here + Len(pipe') = place[Len(put) + 1] + tsz + n
         /\ \A k \in 1..Len(put) : \A a \in 1..Span(put[k]) :
              place[k] + a > here => pipe'[place[k] + a - here] = ByteOf(put[k], a)
         /\ \A a \in 1..tsz + n :
              place[Len(put) + 1] + a > here =>
                pipe'[place[Len(put) + 1] + a - here] = ByteOf(out, a)
<1> DEFINE P == Len(put)
           here == place[Len(got) + 1] + Has
           pad == Padded(out)
           chunk == SubSeq(pad, tsz + 1, tsz + n)
<1>1. /\ P \in Nat /\ Len(got) \in Nat /\ Len(got) <= P /\ tsz \in Nat /\ Has \in Nat
      /\ pipe \in Seq(Byte) /\ Len(pipe) \in Nat /\ out \in Frames /\ n \in Nat /\ n >= 1
  BY LenProperties, FrameAssumption DEF IInv, Types, ReaderInv, Has, Send
<1>2. here \in Nat /\ place[P + 1] \in Nat
  BY <1>1
<1>8. here + Len(pipe) = place[P + 1] + tsz
  BY DEF Stream
<1> HIDE DEF here
<1>3. /\ pad \in Seq(Byte) /\ Len(pad) = Span(out) /\ Span(out) \in Nat
      /\ \A k \in 1..Span(out) : pad[k] = ByteOf(out, k)
  BY <1>1, PaddedFacts, SpanFacts
<1>4. n <= Span(out) - tsz /\ n <= Capacity - Len(pipe)
  BY <1>1, <1>3, FrameAssumption DEF Send, Smaller
<1>5. /\ chunk \in Seq(Byte) /\ Len(chunk) = n
      /\ \A i \in 1..n : chunk[i] = ByteOf(out, tsz + i)
  <2>1. tsz + n <= Len(pad)
    BY <1>1, <1>3, <1>4
  <2> HIDE DEF pad
  <2>2. QED
    BY <1>1, <1>3, <1>4, <2>1, PartOf
<1> HIDE DEF chunk, pad
<1>6. pipe' = pipe \o chunk
  BY DEF Send, chunk, pad
<1>7. /\ pipe' \in Seq(Byte) /\ Len(pipe') = Len(pipe) + n
      /\ \A i \in 1..Len(pipe) + n :
           pipe'[i] = IF i <= Len(pipe) THEN pipe[i] ELSE chunk[i - Len(pipe)]
  BY <1>1, <1>5, <1>6, ConcatProperties
<1>9. ASSUME NEW k \in 1..P, NEW a \in 1..Span(put[k]), place[k] + a > here
      PROVE  pipe'[place[k] + a - here] = ByteOf(put[k], a)
  <2>1. pipe[place[k] + a - here] = ByteOf(put[k], a)
    BY <1>9 DEF Stream, Bytes, here
  <2>2. place[k] + Span(put[k]) <= place[P + 1] /\ place[k] \in Nat /\ Span(put[k]) \in Nat
    <3>1. put[k] \in Frames /\ k < P + 1 /\ P + 1 \in 1..P + 1
      BY <1>1, ElementOfSeq DEF IInv, Types
    <3>2. QED
      BY <1>1, <3>1, SpanFacts DEF Places
  <2>7. a \in Nat /\ a <= Span(put[k]) /\ place[k] + a > here
    BY <1>9, <2>2
  <2>3. place[k] + a - here \in 1..Len(pipe)
    <3>1. PICK b \in Nat, s \in Nat, e \in Nat, h \in Nat, l \in Nat, t \in Nat :
            /\ b = place[k] /\ s = Span(put[k]) /\ e = place[P + 1]
            /\ h = here /\ l = Len(pipe) /\ t = tsz
      BY <1>1, <1>2, <2>2
    <3>2. b + s <= e /\ h + l = e + t /\ a <= s /\ b + a > h /\ a \in Nat
      BY <1>8, <2>2, <2>7, <3>1
    <3>3. b + a - h \in 1..l
      BY ONLY <3>2, b \in Nat, s \in Nat, e \in Nat, h \in Nat, l \in Nat, t \in Nat
    <3>4. QED
      BY <3>1, <3>3
  <2> DEFINE x == place[k] + a - here
  <2>4. x \in 1..Len(pipe) + n /\ x <= Len(pipe)
    BY <1>1, <2>3
  <2> HIDE DEF x
  <2>5. pipe'[x] = pipe[x]
    BY <1>7, <2>4
  <2>6. QED
    BY <2>1, <2>5 DEF x
<1>10. ASSUME NEW a \in 1..tsz + n, place[P + 1] + a > here
       PROVE  pipe'[place[P + 1] + a - here] = ByteOf(out, a)
  <2>1. CASE a <= tsz
    <3>1. pipe[place[P + 1] + a - here] = ByteOf(out, a)
      BY <1>1, <1>10, <2>1 DEF Stream, Bytes, here
    <3>2. place[P + 1] + a - here \in 1..Len(pipe)
      BY <1>1, <1>2, <1>8, <1>10, <2>1
    <3>3. QED
      BY <1>1, <1>7, <3>1, <3>2
  <2>2. CASE a > tsz
    <3>1. place[P + 1] + a - here = Len(pipe) + (a - tsz) /\ a - tsz \in 1..n
      BY <1>1, <1>2, <1>8, <2>2
    <3>2. PICK i \in 1..n : i = a - tsz
      BY <3>1
    <3>3. PICK y \in 1..Len(pipe) + n : y = Len(pipe) + i
      <4>1. Len(pipe) + i \in 1..Len(pipe) + n
        BY <1>1
      <4>2. QED
        BY <4>1
    <3>4. ~(y <= Len(pipe)) /\ y - Len(pipe) = i /\ tsz + i = a /\ place[P + 1] + a - here = y
      BY <1>1, <3>1, <3>2, <3>3
    <3>5. pipe'[y] = chunk[y - Len(pipe)]
      BY <1>7, <3>4, Zenon
    <3>6. chunk[i] = ByteOf(out, tsz + i)
      BY <1>5
    <3>7. QED
      BY <3>4, <3>5, <3>6
  <2>3. QED
    BY <1>1, <2>1, <2>2
<1>11. here + Len(pipe') = place[P + 1] + tsz + n
  BY <1>1, <1>2, <1>7, <1>8
<1>12. Len(pipe') <= Capacity
  BY <1>1, <1>4, <1>7, FrameAssumption
<1>13. tsz + n <= Span(out)
  BY <1>1, <1>3, <1>4
<1>14. QED
  BY <1>1, <1>3, <1>7, <1>9, <1>10, <1>11, <1>12, <1>13, Zenon DEF pad, here

LEMMA SendStep ==
  ASSUME IInv, NEW n \in 1..Capacity, Send(n)
  PROVE  IInv' /\ [Pipe!Next]_<<put, got, end, result>>
<1> DEFINE P == Len(put)
<1> USE DEF reader
<1>1. UNCHANGED <<end, reader>> /\ end = "open" /\ Reading' = Reading /\ Has' = Has
  BY DEF Send, Reading, Has
<1>2. /\ P \in Nat /\ Len(got) \in Nat /\ Len(got) <= P /\ out # <<>> /\ out \in Frames
      /\ tsz \in Nat /\ put \in Seq(Frames) /\ n \in Nat /\ n >= 1
  BY LenProperties, FrameAssumption DEF IInv, Types, ReaderInv, Send
<1>3. Len(Padded(out)) = Span(out) /\ Span(out) \in Nat
  BY <1>2, PaddedFacts, SpanFacts
<1>4. n <= Span(out) - tsz /\ pipe' \in Seq(Byte) /\ Len(pipe') <= Capacity
  <2> DEFINE chunk == SubSeq(Padded(out), tsz + 1, tsz + n)
  <2>1. n <= Span(out) - tsz /\ n <= Capacity - Len(pipe) /\ Len(pipe) \in Nat
    BY <1>2, <1>3, FrameAssumption, LenProperties DEF Send, Smaller, IInv, Types
  <2>2. Padded(out) \in Seq(Byte) /\ tsz + n <= Len(Padded(out))
    BY <1>2, <1>3, <2>1, PaddedFacts
  <2>3. chunk \in Seq(Byte) /\ Len(chunk) = n
    BY <1>2, <2>2, PartOf
  <2>4. pipe' = pipe \o chunk
    BY DEF Send
  <2> HIDE DEF chunk
  <2>5. pipe \o chunk \in Seq(Byte) /\ Len(pipe \o chunk) = Len(pipe) + Len(chunk)
    BY <2>3, ConcatProperties DEF IInv, Types
  <2>6. Len(pipe) + n <= Capacity
    BY <1>2, <2>1, FrameAssumption
  <2>7. QED
    BY <2>1, <2>3, <2>4, <2>5, <2>6
<1>5. CASE tsz + n = Span(out)
  <2>1. out' = <<>> /\ tsz' = 0 /\ put' = Append(put, out)
    BY <1>3, <1>5 DEF Send
  <2>2. /\ put' \in Seq(Frames) /\ Len(put') = P + 1
        /\ \A k \in 1..P : put'[k] = put[k]
        /\ put'[P + 1] = out
    BY <1>2, <2>1, AppendProperties
  <2>3. Current' = Current
    BY <1>1, <1>2, <2>2 DEF Current
  <2>4. Types'
    BY <1>1, <1>4, <2>1, <2>2 DEF IInv, Types
  <2>5. WriterInv'
    BY <1>1, <1>2, <1>4, <2>1, <2>2 DEF IInv, WriterInv
  <2>6. ReaderInv'
    BY <1>1, <1>2, <2>2, <2>3 DEF IInv, ReaderInv, ByteOf
  <2>7. StreamInv'
    <3> SUFFICES ASSUME pc # "stopped"
                 PROVE  \E place \in [1..Len(put') + 1 -> Nat] : (Places(place) /\ Stream(place))'
      BY <1>1 DEF StreamInv
    <3>1. PICK place \in [1..P + 1 -> Nat] : Places(place) /\ Stream(place)
      BY DEF IInv, StreamInv
    <3> DEFINE here == place[Len(got) + 1] + Has
    <3>2. /\ here + Len(pipe') = place[P + 1] + Span(out)
          /\ \A k \in 1..P : \A a \in 1..Span(put[k]) :
               place[k] + a > here => pipe'[place[k] + a - here] = ByteOf(put[k], a)
          /\ \A a \in 1..Span(out) :
               place[P + 1] + a > here => pipe'[place[P + 1] + a - here] = ByteOf(out, a)
      <4>1. place[P + 1] + tsz + n = place[P + 1] + Span(out)
        BY <1>2, <1>3, <1>5
      <4>2. QED
        BY <1>5, <3>1, <4>1, SendBytes
    <3>3. PICK next \in [1..P + 2 -> Nat] :
            /\ next[P + 2] = place[P + 1] + Span(out)
            /\ \A k \in 1..P + 1 : next[k] = place[k]
      <4> DEFINE f == [k \in 1..P + 2 |-> IF k <= P + 1 THEN place[k] ELSE place[P + 1] + Span(out)]
      <4>1. f \in [1..P + 2 -> Nat]
        BY <1>2, <1>3
      <4>2. f[P + 2] = place[P + 1] + Span(out) /\ \A k \in 1..P + 1 : f[k] = place[k]
        BY <1>2
      <4> HIDE DEF f
      <4>3. QED
        BY <4>1, <4>2
    <3>4. \A k \in 1..P : Span(put[k]) \in Nat /\ put'[k] = put[k]
      BY <1>2, <2>2, ElementOfSeq, SpanFacts
    <3>5. Places(next)'
      <4>1. ASSUME NEW k \in 1..P + 1 PROVE next[k + 1] = next[k] + Span(put'[k])
        <5>1. CASE k \in 1..P
          <6>1. k \in 1..P + 1 /\ k + 1 \in 1..P + 1
            BY <1>2, <5>1
          <6>2. next[k] = place[k] /\ next[k + 1] = place[k + 1] /\ put'[k] = put[k]
            BY <3>3, <3>4, <5>1, <6>1
          <6>3. place[k + 1] = place[k] + Span(put[k])
            BY <3>1, <5>1 DEF Places
          <6>4. QED
            BY <6>2, <6>3
        <5>2. CASE k = P + 1
          <6>1. k + 1 = P + 2 /\ k \in 1..P + 1
            BY <1>2, <5>2
          <6>2. QED
            BY <2>2, <3>3, <5>2, <6>1
        <5>3. QED
          BY <1>2, <5>1, <5>2
      <4>2. ASSUME NEW j \in 1..P + 1, NEW k \in 1..P + 2, j < k
            PROVE  next[j] + Span(put'[j]) <= next[k]
        <5>1. CASE k <= P + 1
          <6>1. j \in 1..P /\ j \in 1..P + 1 /\ k \in 1..P + 1
            BY <1>2, <4>2, <5>1
          <6>2. next[j] = place[j] /\ next[k] = place[k] /\ put'[j] = put[j]
            BY <3>3, <3>4, <6>1
          <6>3. place[j] + Span(put[j]) <= place[k]
            BY <3>1, <4>2, <6>1 DEF Places
          <6>4. QED
            BY <6>2, <6>3
        <5>2. CASE k = P + 2 /\ j = P + 1
          BY <1>2, <1>3, <2>2, <3>3, <5>2
        <5>3. CASE k = P + 2 /\ j <= P
          <6>1. place[j] + Span(put[j]) <= place[P + 1]
            BY <1>2, <3>1, <5>3 DEF Places
          <6>2. QED
            <7>1. j \in 1..P /\ j \in 1..P + 1 /\ P + 1 \in 1..P + 1
              BY <1>2, <5>3
            <7>2. next[j] = place[j] /\ put'[j] = put[j] /\ next[k] = place[P + 1] + Span(out)
              BY <2>2, <3>3, <5>3, <7>1
            <7>3. place[j] \in Nat /\ Span(put[j]) \in Nat /\ place[P + 1] \in Nat
              BY <3>4, <7>1
            <7>4. place[j] + Span(put[j]) <= place[P + 1] + Span(out)
              BY <1>3, <6>1, <7>3
            <7>5. QED
              BY <7>2, <7>4
        <5>4. k <= P + 1 \/ (k = P + 2 /\ j = P + 1) \/ (k = P + 2 /\ j <= P)
          BY <1>2
        <5>5. QED
          BY <5>1, <5>2, <5>3, <5>4, Zenon
      <4>3. Len(put') = P + 1 /\ Len(put') + 1 = P + 2
        BY <1>2, <2>2
      <4>4. Places(next)' <=>
              /\ \A k \in 1..Len(put') : next[k + 1] = next[k] + Span(put'[k])
              /\ \A j \in 1..Len(put') : \A k \in 1..Len(put') + 1 :
                   j < k => next[j] + Span(put'[j]) <= next[k]
        BY Zenon DEF Places, Span
      <4>5. QED
        BY <4>1, <4>2, <4>3, <4>4, Zenon
    <3>6. Stream(next)'
      <4>1. next[Len(got') + 1] + Has' = here
        BY <1>1, <1>2, <3>3
      <4>2. here + Len(pipe') = next[Len(put') + 1] + tsz'
        <5>1. next[Len(put') + 1] = place[P + 1] + Span(out)
          BY <1>2, <2>2, <3>3
        <5>2. place[P + 1] + Span(out) = place[P + 1] + Span(out) + tsz'
          BY <1>2, <1>3, <2>1
        <5>3. QED
          BY <3>2, <5>1, <5>2
      <4>3. ASSUME NEW k \in 1..P + 1, NEW a \in 1..Span(put'[k]), next[k] + a > here
            PROVE  pipe'[next[k] + a - here] = ByteOf(put'[k], a)
        <5>1. CASE k <= P
          <6>1. k \in 1..P
            BY <1>2, <5>1
          <6>2. put'[k] = put[k] /\ next[k] = place[k]
            BY <1>2, <2>2, <3>3, <6>1
          <6>3. QED
            BY <3>2, <4>3, <6>1, <6>2
        <5>2. CASE k = P + 1
          BY <1>2, <2>2, <3>2, <3>3, <4>3, <5>2
        <5>3. QED
          BY <1>2, <5>1, <5>2
      <4>4. 1..tsz' = {} /\ Len(put') = P + 1
        BY <2>1, <2>2
      <4>5. Stream(next)' <=>
              LET there == next[Len(got') + 1] + Has' IN
              /\ there + Len(pipe') = next[Len(put') + 1] + tsz'
              /\ \A k \in 1..Len(put') : \A a \in 1..Span(put'[k]) :
                   next[k] + a > there => pipe'[next[k] + a - there] = ByteOf(put'[k], a)
              /\ \A a \in 1..tsz' :
                   next[Len(put') + 1] + a > there =>
                     pipe'[next[Len(put') + 1] + a - there] = ByteOf(out', a)
        BY Zenon DEF Stream, Bytes, ByteOf, Span
      <4>6. QED
        BY <4>1, <4>2, <4>3, <4>4, <4>5, Zenon
    <3>7. Len(put') + 1 = P + 2
      BY <1>2, <2>2
    <3>8. next \in [1..Len(put') + 1 -> Nat]
      BY <3>3, <3>7
    <3>9. QED
      BY <3>5, <3>6, <3>8, Zenon
  <2>8. Pipe!Next
    BY <1>1, <1>2, <2>1 DEF Pipe!Next, Pipe!Put
  <2>9. QED
    BY <2>4, <2>5, <2>6, <2>7, <2>8 DEF IInv
<1>6. CASE tsz + n # Span(out)
  <2>1. tsz' = tsz + n /\ UNCHANGED <<out, put>>
    BY <1>3, <1>6 DEF Send
  <2>2. Current' = Current
    BY <1>1, <2>1 DEF Current
  <2>3. Types'
    BY <1>1, <1>2, <1>4, <2>1 DEF IInv, Types
  <2>4. WriterInv'
    <3>1. tsz' < Span(out)
      BY <1>2, <1>3, <1>4, <1>6, <2>1
    <3>2. Span(out)' = Span(out)
      BY <2>1 DEF Span
    <3>3. QED
      BY <1>1, <1>2, <1>4, <2>1, <3>1, <3>2 DEF IInv, WriterInv
  <2>5. ReaderInv'
    BY <1>1, <2>1, <2>2 DEF IInv, ReaderInv, ByteOf
  <2>6. StreamInv'
    <3> SUFFICES ASSUME pc # "stopped"
                 PROVE  \E place \in [1..P + 1 -> Nat] : (Places(place) /\ Stream(place))'
      BY <1>1, <2>1 DEF StreamInv
    <3>1. PICK place \in [1..P + 1 -> Nat] : Places(place) /\ Stream(place)
      BY DEF IInv, StreamInv
    <3> DEFINE here == place[Len(got) + 1] + Has
    <3>2. /\ here + Len(pipe') = place[P + 1] + tsz + n
          /\ \A k \in 1..P : \A a \in 1..Span(put[k]) :
               place[k] + a > here => pipe'[place[k] + a - here] = ByteOf(put[k], a)
          /\ \A a \in 1..tsz + n :
               place[P + 1] + a > here => pipe'[place[P + 1] + a - here] = ByteOf(out, a)
      BY <3>1, SendBytes
    <3>3. place[P + 1] + tsz + n = place[P + 1] + tsz'
      BY <1>2, <2>1
    <3>4. Places(place)'
      BY <2>1, <3>1 DEF Places, Span
    <3>5. Stream(place)'
      BY <1>1, <2>1, <3>2, <3>3 DEF Stream, Bytes, ByteOf, Span
    <3>6. QED
      BY <3>4, <3>5
  <2>7. QED
    BY <1>1, <2>1, <2>3, <2>4, <2>5, <2>6 DEF IInv
<1>7. QED
  BY <1>5, <1>6


LEMMA CloseStep ==
  ASSUME IInv, Close
  PROVE  IInv' /\ Pipe!Next
<1> USE DEF Close, reader
<1>1. Types'
  BY DEF IInv, Types
<1>2. WriterInv'
  BY DEF IInv, WriterInv, Span
<1>3. ReaderInv'
  BY DEF IInv, ReaderInv, Reading, Current, ByteOf
<1>4. StreamInv'
  BY DEF IInv, StreamInv, Places, Stream, Bytes, Has, Reading, Span, ByteOf
<1>5. Pipe!Next
  BY DEF Pipe!Next, Pipe!End
<1>6. QED
  BY <1>1, <1>2, <1>3, <1>4, <1>5 DEF IInv

-----------------------------------------------------------------------------
(* Every step of the reader keeps it, unless a hangup comes alone. *)

LEMMA CallStep ==
  ASSUME IInv, Call
  PROVE  IInv'
<1> USE DEF Call, writer
<1>1. Basis \in Nat /\ Basis >= 1
  BY FrameAssumption
<1>2. buf' \in Seq(Byte) /\ buf' # <<>> /\ Len(buf') >= Basis
  <2> DEFINE zeros == [k \in 1..Basis |-> Unset]
  <2>1. zeros \in [1..Basis -> Byte]
    BY DEF Unset, Byte
  <2>2. zeros \in Seq(Byte) /\ Len(zeros) = Basis
    BY <1>1, <2>1, SeqDef, LenProperties
  <2>3. zeros # <<>>
    BY <1>1, <2>2, EmptySeq
  <2>4. QED
    BY <1>1, <2>2, <2>3 DEF IInv, Types, ReaderInv
<1>3. Types'
  BY <1>2 DEF IInv, Types
<1>4. WriterInv'
  BY DEF IInv, WriterInv, Span
<1>5. ReaderInv'
  BY <1>1, <1>2 DEF IInv, ReaderInv, Reading, Types
<1>6. Has = 0 /\ Has' = 0
  BY DEF Has, Reading
<1>7. StreamInv'
  BY <1>6 DEF IInv, StreamInv, Places, Stream, Bytes, Span, ByteOf
<1>8. QED
  BY <1>3, <1>4, <1>5, <1>7 DEF IInv

\* The reader stops: what it knew is not needed any more.
LEMMA FailStep ==
  ASSUME IInv, pc # "stopped", Fail, UNCHANGED <<pipe, writer>>
  PROVE  IInv' /\ UNCHANGED <<put, got, end>> /\ result = "frame" /\ result' = "failed"
<1> USE DEF Fail, writer
<1>1. Types'
  BY DEF IInv, Types
<1>2. WriterInv'
  BY DEF IInv, WriterInv, Span
<1>3. ReaderInv'
  BY DEF IInv, ReaderInv, Reading
<1>4. StreamInv'
  BY DEF StreamInv
<1>5. QED
  BY <1>1, <1>2, <1>3, <1>4 DEF IInv, ReaderInv

\* One read: the next bytes of the stream move from the socket to the buffer.
LEMMA ReadBytes ==
  ASSUME IInv, Reading, NEW n \in 1..Capacity, NEW up \in Nat, Read(n, up),
         up <= Len(buf), n <= up - sz, up <= Basis \/ up <= Len(Current)
  PROVE  /\ sz' = sz + n /\ sz' <= up /\ Len(buf') = Len(buf)
         /\ buf' \in Seq(Byte) /\ pipe' \in Seq(Byte) /\ Len(pipe') <= Len(pipe)
         /\ \A k \in 1..sz' : buf'[k] = ByteOf(Current, k)
         /\ \A place \in [1..Len(put) + 1 -> Nat] :
              Places(place) /\ Stream(place) =>
                LET here == place[Len(got) + 1] + sz' IN
                /\ here + Len(pipe') = place[Len(put) + 1] + tsz
                /\ \A k \in 1..Len(put) : \A a \in 1..Span(put[k]) :
                     place[k] + a > here => pipe'[place[k] + a - here] = ByteOf(put[k], a)
                /\ \A a \in 1..tsz :
                     place[Len(put) + 1] + a > here =>
                       pipe'[place[Len(put) + 1] + a - here] = ByteOf(out, a)
<1>1. /\ pipe \in Seq(Byte) /\ buf \in Seq(Byte) /\ Len(pipe) \in Nat /\ Len(buf) \in Nat
      /\ sz \in Nat /\ n \in Nat /\ n >= 1 /\ tsz \in Nat /\ put \in Seq(Frames)
      /\ Len(put) \in Nat /\ Len(got) \in Nat /\ Len(got) <= Len(put) /\ Has = sz
      /\ pc # "stopped" /\ Basis \in Nat
  BY LenProperties, FrameAssumption DEF IInv, Types, ReaderInv, Has, Reading
<1>2. n <= Len(pipe)
  BY <1>1 DEF Read, Smaller
<1>3. sz' = sz + n /\ sz' <= up
  BY <1>1 DEF Read
<1>4. /\ pipe' \in Seq(Byte) /\ Len(pipe') = Len(pipe) - n
      /\ \A i \in 1..Len(pipe) - n : pipe'[i] = pipe[n + i]
  <2>1. pipe' = SubSeq(pipe, n + 1, Len(pipe))
    BY DEF Read
  <2>2. \A i \in n + 1 .. Len(pipe) : pipe[i] \in Byte
    BY <1>1, ElementOfSeq
  <2>3. /\ SubSeq(pipe, n + 1, Len(pipe)) \in Seq(Byte)
        /\ Len(SubSeq(pipe, n + 1, Len(pipe)))
             = IF n + 1 <= Len(pipe) THEN Len(pipe) - (n + 1) + 1 ELSE 0
        /\ \A i \in 1..Len(pipe) - (n + 1) + 1 :
             SubSeq(pipe, n + 1, Len(pipe))[i] = pipe[n + 1 + i - 1]
    BY <1>1, <2>2, SubSeqProperties
  <2>4. QED
    BY <1>1, <1>2, <2>1, <2>3
<1>5. /\ buf' \in Seq(Byte) /\ Len(buf') = Len(buf)
      /\ \A k \in 1..Len(buf) : buf'[k] = IF k \in sz + 1 .. sz + n THEN pipe[k - sz] ELSE buf[k]
  <2>1. DOMAIN buf = 1..Len(buf)
    BY <1>1, LenProperties
  <2>2. buf' = [k \in 1..Len(buf) |-> IF k \in sz + 1 .. sz + n THEN pipe[k - sz] ELSE buf[k]]
    BY <2>1 DEF Read
  <2>3. ASSUME NEW k \in 1..Len(buf)
        PROVE  (IF k \in sz + 1 .. sz + n THEN pipe[k - sz] ELSE buf[k]) \in Byte
    <3>1. k \in sz + 1 .. sz + n => k - sz \in 1..Len(pipe)
      BY <1>1, <1>2
    <3>2. QED
      BY <1>1, <3>1, ElementOfSeq
  <2>4. buf' \in [1..Len(buf) -> Byte]
    BY <2>2, <2>3
  <2>5. buf' \in Seq(Byte) /\ Len(buf') = Len(buf)
    BY <1>1, <2>4, SeqDef, LenProperties
  <2>6. QED
    BY <2>2, <2>5
<1>6. ASSUME NEW k \in 1..sz'
      PROVE  buf'[k] = ByteOf(Current, k)
  <2>1. k \in 1..Len(buf)
    BY <1>1, <1>3
  <2>2. CASE k <= sz
    <3>1. buf[k] = ByteOf(Current, k)
      BY <1>1, <2>2 DEF IInv, ReaderInv
    <3>2. QED
      BY <1>1, <1>5, <2>1, <2>2, <3>1
  <2>3. CASE k > sz
    <3> DEFINE G == Len(got)
               P == Len(put)
    <3>1. buf'[k] = pipe[k - sz] /\ k - sz \in 1..Len(pipe)
      BY <1>1, <1>2, <1>3, <1>5, <2>1, <2>3
    <3>2. PICK place \in [1..P + 1 -> Nat] : Places(place) /\ Stream(place)
      BY <1>1 DEF IInv, StreamInv
    <3>3. place[G + 1] \in Nat
      BY <1>1
    <3>4. place[G + 1] + k > place[G + 1] + sz /\ place[G + 1] + k - (place[G + 1] + sz) = k - sz
      BY <1>1, <2>3, <3>3
    <3>5. CASE G < P
      <4>1. G + 1 \in 1..P /\ Current = put[G + 1] /\ Current \in Frames
        BY <1>1, <3>5, ElementOfSeq DEF Current
      <4>2. k \in 1..Span(Current)
        BY <1>1, <1>3, <4>1, SpanFacts, FrameFacts
      <4>3. Bytes(place[G + 1], place[G + 1] + Has, Current, Span(Current))
        BY <3>2, <4>1 DEF Stream
      <4>4. QED
        BY <1>1, <3>1, <3>4, <4>2, <4>3 DEF Bytes
    <3>6. CASE G = P
      <4>1. Current = out /\ Len(pipe) = tsz - sz
        BY <1>1, <3>6, CurrentFacts DEF Current
      <4>2. k \in 1..tsz
        BY <1>1, <1>2, <1>3, <4>1
      <4>3. Bytes(place[G + 1], place[G + 1] + Has, out, tsz)
        BY <3>2, <3>6 DEF Stream
      <4>4. QED
        BY <1>1, <3>1, <3>4, <4>1, <4>2, <4>3 DEF Bytes
    <3>7. QED
      BY <1>1, <3>5, <3>6
  <2>4. QED
    BY <1>1, <2>2, <2>3
<1>7. ASSUME NEW place \in [1..Len(put) + 1 -> Nat], Places(place), Stream(place)
      PROVE  LET here == place[Len(got) + 1] + sz' IN
             /\ here + Len(pipe') = place[Len(put) + 1] + tsz
             /\ \A k \in 1..Len(put) : \A a \in 1..Span(put[k]) :
                  place[k] + a > here => pipe'[place[k] + a - here] = ByteOf(put[k], a)
             /\ \A a \in 1..tsz :
                  place[Len(put) + 1] + a > here =>
                    pipe'[place[Len(put) + 1] + a - here] = ByteOf(out, a)
  <2> DEFINE P == Len(put)
             old == place[Len(got) + 1] + sz
             here == place[Len(got) + 1] + sz'
  <2>1. old \in Nat /\ here = old + n /\ place[P + 1] \in Nat
    <3>1. Len(got) + 1 \in 1..P + 1 /\ P + 1 \in 1..P + 1
      BY <1>1
    <3>2. place[Len(got) + 1] \in Nat /\ place[P + 1] \in Nat
      BY <1>7, <3>1
    <3>3. QED
      BY <1>1, <1>3, <3>2
  <2>2. old + Len(pipe) = place[P + 1] + tsz
    BY <1>1, <1>7 DEF Stream
  <2>3. here + Len(pipe') = place[P + 1] + tsz
    BY <1>1, <1>4, <2>1, <2>2
  <2>4. /\ \A k \in 1..P : Bytes(place[k], old, put[k], Span(put[k]))
        /\ Bytes(place[P + 1], old, out, tsz)
    BY <1>1, <1>7 DEF Stream
  <2> HIDE DEF old, here
  <2>5. ASSUME NEW begin \in Nat, NEW f, NEW upto \in Nat, Bytes(begin, old, f, upto),
               begin + upto <= place[P + 1] + tsz,
               NEW a \in 1..upto, begin + a > here
        PROVE  pipe'[begin + a - here] = ByteOf(f, a)
    <3>1. begin + a - here \in 1..Len(pipe) - n
      <4>1. begin + a <= here + Len(pipe')
        BY <1>1, <2>1, <2>3, <2>5
      <4>2. begin + a - here \in Int /\ begin + a - here >= 1
        BY <2>1, <2>5, <1>1
      <4>3. Len(pipe') = Len(pipe) - n /\ here \in Int
        BY <1>1, <1>4, <2>1
      <4>4. QED
        BY <1>1, <4>1, <4>2, <4>3
    <3>2. pipe'[begin + a - here] = pipe[n + (begin + a - here)]
      BY <1>4, <3>1, Zenon
    <3>3. n + (begin + a - here) = begin + a - old /\ begin + a > old
      BY <1>1, <2>1, <2>5
    <3>4. pipe[begin + a - old] = ByteOf(f, a)
      BY <2>5, <3>3 DEF Bytes
    <3>5. QED
      BY <3>2, <3>3, <3>4
  <2>6. ASSUME NEW k \in 1..P
        PROVE  \A a \in 1..Span(put[k]) : place[k] + a > here =>
                 pipe'[place[k] + a - here] = ByteOf(put[k], a)
    <3>1. put[k] \in Frames /\ Span(put[k]) \in Nat /\ place[k] \in Nat /\ k < P + 1
          /\ P + 1 \in 1..P + 1
      <4>1. put[k] \in Frames
        BY <1>1, ElementOfSeq
      <4>2. k \in 1..P + 1 /\ P + 1 \in 1..P + 1 /\ k < P + 1
        BY <1>1
      <4>3. QED
        BY <4>1, <4>2, SpanFacts
    <3>2. place[k] + Span(put[k]) <= place[P + 1] + tsz
      <4>1. place[k] + Span(put[k]) <= place[P + 1]
        BY <1>7, <3>1 DEF Places
      <4>2. QED
        BY <1>1, <2>1, <3>1, <4>1
    <3>3. QED
      BY <2>4, <2>5, <3>1, <3>2
  <2>7. \A a \in 1..tsz : place[P + 1] + a > here =>
          pipe'[place[P + 1] + a - here] = ByteOf(out, a)
    <3>1. place[P + 1] + tsz <= place[P + 1] + tsz /\ place[P + 1] \in Nat /\ tsz \in Nat
      BY <1>1, <2>1
    <3>2. Bytes(place[P + 1], old, out, tsz)
      BY <2>4
    <3>3. ASSUME NEW a \in 1..tsz, place[P + 1] + a > here
          PROVE  pipe'[place[P + 1] + a - here] = ByteOf(out, a)
      BY <2>5, <3>1, <3>2, <3>3
    <3>4. QED
      BY <3>3
  <2>8. QED
    BY <2>3, <2>6, <2>7, Zenon DEF here
<1>8. Len(pipe') <= Len(pipe)
  BY <1>1, <1>4
<1>9. QED
  BY <1>3, <1>4, <1>5, <1>6, <1>7, <1>8

\* While the buffer holds some of it, the frame is a frame and not yet read.
LEMMA Reached ==
  ASSUME IInv, Reading, sz > 0
  PROVE  Current \in Frames
BY CurrentFacts DEF Has, Reading

LEMMA ReadBasisStep ==
  ASSUME IInv, NEW n \in 1..Capacity, ReadBasis(n)
  PROVE  IInv' /\ UNCHANGED <<put, got, end, result>>
<1> USE DEF ReadBasis, writer
<1>1. /\ Basis \in Nat /\ Basis >= 1 /\ n \in Nat /\ sz \in Nat /\ Reading /\ Reading'
      /\ pc # "stopped" /\ Len(buf) >= Basis /\ bsz \in Nat
      /\ Len(got) \in Nat /\ Len(put) \in Nat /\ Len(pipe) \in Nat
  BY FrameAssumption, LenProperties DEF IInv, Types, ReaderInv, Reading
<1>2. Read(n, Basis) /\ n <= Basis - sz
  BY <1>1 DEF Read, Smaller
<1>3. UNCHANGED <<put, out, tsz, got, end, result, bsz>>
  OBVIOUS
<1>4. /\ sz' = sz + n /\ sz' <= Basis /\ Len(buf') = Len(buf)
      /\ buf' \in Seq(Byte) /\ pipe' \in Seq(Byte) /\ Len(pipe') <= Len(pipe)
      /\ \A k \in 1..sz' : buf'[k] = ByteOf(Current, k)
  BY <1>1, <1>2, <1>3, ReadBytes
<1>5. Current' = Current /\ Has' = sz'
  BY <1>1, <1>3 DEF Current, Has
<1>6. Types'
  BY <1>1, <1>3, <1>4 DEF IInv, Types
<1>7. WriterInv'
  <2>1. Len(pipe') <= Capacity
    <3>1. Len(pipe) <= Capacity /\ Len(pipe') \in Nat /\ Capacity \in Nat
      BY <1>4, FrameAssumption, LenProperties DEF IInv, WriterInv
    <3>2. QED
      BY <1>1, <1>4, <3>1
  <2>2. QED
    BY <1>3, <2>1 DEF IInv, WriterInv, Span
<1>8. ReaderInv'
  <2>1. buf' # <<>>
    BY <1>1, <1>4, EmptySeq
  <2>2. sz' = Basis => pc' = "size"
    OBVIOUS
  <2>3. sz' # Basis => pc' = "basis" /\ sz' < Basis
    BY <1>1, <1>4
  <2>4. \A k \in 1..sz' : buf'[k] = ByteOf(Current, k)'
    BY <1>4, <1>5 DEF ByteOf
  <2>5. sz' <= Len(buf') /\ Len(buf') >= Basis
    BY <1>1, <1>4
  <2>6. QED
    BY <1>3, <2>1, <2>2, <2>3, <2>4, <2>5 DEF IInv, ReaderInv
<1>9. \A place \in [1..Len(put) + 1 -> Nat] :
         Places(place) /\ Stream(place) =>
           LET here == place[Len(got) + 1] + sz' IN
           /\ here + Len(pipe') = place[Len(put) + 1] + tsz
           /\ \A k \in 1..Len(put) : \A a \in 1..Span(put[k]) :
                place[k] + a > here => pipe'[place[k] + a - here] = ByteOf(put[k], a)
           /\ \A a \in 1..tsz :
                place[Len(put) + 1] + a > here =>
                  pipe'[place[Len(put) + 1] + a - here] = ByteOf(out, a)
  <2>1. Basis <= Len(buf) /\ Basis <= Basis
    BY <1>1
  <2>2. QED
    BY <1>1, <1>2, <2>1, ReadBytes, Zenon
<1>10. StreamInv'
  <2>1. PICK place \in [1..Len(put) + 1 -> Nat] : Places(place) /\ Stream(place)
    BY <1>1 DEF IInv, StreamInv
  <2>2. LET here == place[Len(got) + 1] + sz' IN
        /\ here + Len(pipe') = place[Len(put) + 1] + tsz
        /\ \A k \in 1..Len(put) : \A a \in 1..Span(put[k]) :
             place[k] + a > here => pipe'[place[k] + a - here] = ByteOf(put[k], a)
        /\ \A a \in 1..tsz :
             place[Len(put) + 1] + a > here =>
               pipe'[place[Len(put) + 1] + a - here] = ByteOf(out, a)
    BY <1>9, <2>1, Zenon
  <2>3. Places(place)'
    BY <1>3, <2>1 DEF Places, Span
  <2>4. Stream(place)'
    BY <1>3, <1>5, <2>2 DEF Stream, Bytes, ByteOf, Span
  <2>5. QED
    BY <1>3, <2>1, <2>3, <2>4 DEF StreamInv
<1>11. QED
  BY <1>3, <1>6, <1>7, <1>8, <1>10 DEF IInv

\* The reader has the whole of its frame, and is then at the place of the next.
LEMMA ReturnStep ==
  ASSUME IInv, Reading, UNCHANGED <<put, out, tsz, end, result>>,
         NEW s \in Seq(Byte), NEW n \in Nat,
         Current \in Frames, n = Span(Current), Len(Current) <= Len(s),
         \A k \in 1..Len(Current) : s[k] = ByteOf(Current, k),
         got' = Append(got, SubSeq(s, 1, Len(Current))), pc' = "call",
         Len(pipe') \in Nat, Len(got) = Len(put) => n <= tsz,
         NEW place \in [1..Len(put) + 1 -> Nat], Places(place),
         LET here == place[Len(got) + 1] + n IN
         /\ here + Len(pipe') = place[Len(put) + 1] + tsz
         /\ \A k \in 1..Len(put) : \A a \in 1..Span(put[k]) :
              place[k] + a > here => pipe'[place[k] + a - here] = ByteOf(put[k], a)
         /\ \A a \in 1..tsz :
              place[Len(put) + 1] + a > here =>
                pipe'[place[Len(put) + 1] + a - here] = ByteOf(out, a)
  PROVE  /\ Len(got) < Len(put) /\ got' = Append(got, put[Len(got) + 1])
         /\ got' \in Seq(Frames) /\ Len(got') = Len(got) + 1
         /\ \A k \in 1..Len(got') : got'[k] = put[k]
         /\ StreamInv' /\ Pipe!Next
<1> DEFINE P == Len(put)
           G == Len(got)
<1>1. /\ P \in Nat /\ G \in Nat /\ G <= P /\ tsz \in Nat
      /\ put \in Seq(Frames) /\ got \in Seq(Frames)
      /\ out \in Frames \cup {<<>>} /\ (out # <<>> => tsz < Span(out)) /\ (out = <<>> => tsz = 0)
      /\ pc # "stopped" /\ result = "frame"
  BY LenProperties DEF IInv, Types, WriterInv, ReaderInv, Reading
<1>2. n >= 1 /\ Len(Current) \in Nat
  BY SpanFacts, FrameFacts
<1>3. G < P
  <2>1. ASSUME G = P PROVE FALSE
    <3>1. Current = out /\ n <= tsz
      BY <1>1, <2>1 DEF Current
    <3>2. QED
      BY <1>1, <1>2, <3>1
  <2>2. QED
    BY <1>1, <2>1
<1>4. G + 1 \in 1..P /\ Current = put[G + 1] /\ G + 1 + 1 \in 1..P + 1 /\ G + 1 \in 1..P + 1
  BY <1>1, <1>3 DEF Current
<1>5. SubSeq(s, 1, Len(Current)) = Current
  BY FrameIs
<1>6. got' = Append(got, put[G + 1])
  BY <1>4, <1>5
<1>7. /\ got' \in Seq(Frames) /\ Len(got') = G + 1
      /\ \A k \in 1..G : got'[k] = got[k]
      /\ got'[G + 1] = put[G + 1]
  <2>1. put[G + 1] \in Frames
    BY <1>1, <1>4, ElementOfSeq
  <2>2. PICK f \in Frames : f = put[G + 1]
    BY <2>1
  <2>3. got' = Append(got, f)
    BY <1>6, <2>2
  <2>4. /\ Append(got, f) \in Seq(Frames) /\ Len(Append(got, f)) = Len(got) + 1
        /\ \A k \in 1..Len(got) : Append(got, f)[k] = got[k]
        /\ Append(got, f)[Len(got) + 1] = f
    BY <1>1, AppendProperties
  <2>5. QED
    BY <2>2, <2>3, <2>4
<1>8. \A k \in 1..Len(got') : got'[k] = put[k]
  <2>1. \A k \in 1..G : got[k] = put[k]
    BY DEF IInv, ReaderInv
  <2>2. ASSUME NEW k \in 1..G + 1 PROVE got'[k] = put[k]
    <3>1. k \in 1..G \/ k = G + 1
      BY <1>1
    <3>2. QED
      BY <1>7, <2>1, <3>1
  <2>3. QED
    BY <1>7, <2>2
<1>9. place[G + 1 + 1] = place[G + 1] + n /\ place[G + 1] \in Nat /\ place[G + 1 + 1] \in Nat
  BY <1>4 DEF Places
<1>10. place[Len(got') + 1] + Has' = place[G + 1] + n
  <2>1. Has' = 0
    BY DEF Has, Reading
  <2>2. QED
    BY <1>7, <1>9, <2>1
<1>11. Stream(place)'
  <2>1. Stream(place)' <=>
          LET here == place[Len(got') + 1] + Has' IN
          /\ here + Len(pipe') = place[Len(put') + 1] + tsz'
          /\ \A k \in 1..Len(put') : \A a \in 1..Span(put'[k]) :
               place[k] + a > here => pipe'[place[k] + a - here] = ByteOf(put'[k], a)
          /\ \A a \in 1..tsz' :
               place[Len(put') + 1] + a > here =>
                 pipe'[place[Len(put') + 1] + a - here] = ByteOf(out', a)
    BY Zenon DEF Stream, Bytes, ByteOf, Span
  <2>2. put' = put /\ tsz' = tsz /\ out' = out
    OBVIOUS
  <2>3. QED
    BY <1>10, <2>1, <2>2, Zenon
<1>12. Places(place)'
  BY Zenon DEF Places, Span
<1>13. StreamInv'
  BY <1>11, <1>12, Zenon DEF StreamInv
<1>14. Pipe!Next
  BY <1>1, <1>3, <1>6 DEF Pipe!Next, Pipe!Get
<1>15. QED
  BY <1>3, <1>6, <1>7, <1>8, <1>13, <1>14

\* What a frame returned leaves behind.
LEMMA AfterReturn ==
  ASSUME IInv, Reading, UNCHANGED <<put, out, tsz, end, result>>, pc' = "call",
         Len(got) < Len(put), got' \in Seq(Frames), Len(got') = Len(got) + 1,
         \A k \in 1..Len(got') : got'[k] = put[k],
         buf' \in Seq(Byte), pipe' \in Seq(Byte), Len(buf') >= Len(buf),
         Len(pipe') <= Len(pipe), sz' \in Nat, sz' <= Len(buf'), bsz' \in Lengths,
         StreamInv'
  PROVE  IInv'
<1>1. /\ Len(put) \in Nat /\ Len(got) \in Nat /\ Len(buf) \in Nat /\ Len(buf') \in Nat
      /\ Len(pipe) \in Nat /\ Len(pipe') \in Nat /\ Capacity \in Nat /\ Basis \in Nat
      /\ Len(pipe) <= Capacity /\ Basis >= 1 /\ Len(buf) >= Basis /\ result = "frame"
  BY FrameAssumption, LenProperties DEF IInv, Types, WriterInv, ReaderInv, Reading
<1>2. ~Reading'
  BY DEF Reading
<1>3. Types'
  <2>1. bsz' \in Nat
    BY FrameAssumption
  <2>2. QED
    BY <2>1 DEF IInv, Types
<1>4. WriterInv'
  BY <1>1 DEF IInv, WriterInv, Span
<1>5. ReaderInv'
  <2>1. buf' # <<>> /\ Len(buf') >= Basis /\ Len(got') <= Len(put')
    BY <1>1, EmptySeq
  <2>2. \A k \in 1..Len(got') : got'[k] = put'[k]
    OBVIOUS
  <2>3. QED
    BY <1>1, <1>2, <2>1, <2>2 DEF ReaderInv
<1>6. QED
  BY <1>3, <1>4, <1>5 DEF IInv

LEMMA ReadRestStep ==
  ASSUME IInv, NEW n \in 1..Capacity, ReadRest(n)
  PROVE  IInv' /\ [Pipe!Next]_<<put, got, end, result>>
<1> USE DEF ReadRest, writer
<1>1. /\ Basis \in Nat /\ Basis >= 1 /\ n \in Nat /\ sz \in Nat /\ Reading
      /\ pc # "stopped" /\ bsz \in Nat /\ bsz <= Len(buf) /\ bsz = Len(Current)
      /\ Basis <= sz /\ sz < bsz /\ sz > 0 /\ tsz \in Nat
      /\ Len(got) \in Nat /\ Len(put) \in Nat /\ Len(pipe) \in Nat /\ Len(buf) \in Nat
  BY FrameAssumption, LenProperties DEF IInv, Types, ReaderInv, Reading
<1>2. Read(n, bsz) /\ n <= bsz - sz
  BY <1>1 DEF Read, Smaller
<1>3. UNCHANGED <<put, out, tsz, end, result, bsz>>
  OBVIOUS
<1>4. Current \in Frames /\ Span(Current) = bsz /\ bsz \in Lengths
  <2>1. Current \in Frames
    BY <1>1, Reached
  <2>2. QED
    BY <1>1, <2>1, FrameFacts DEF Span
<1>5. /\ sz' = sz + n /\ sz' <= bsz /\ Len(buf') = Len(buf)
      /\ buf' \in Seq(Byte) /\ pipe' \in Seq(Byte) /\ Len(pipe') <= Len(pipe)
      /\ \A k \in 1..sz' : buf'[k] = ByteOf(Current, k)
  BY <1>1, <1>2, ReadBytes
<1>6. \A place \in [1..Len(put) + 1 -> Nat] :
        Places(place) /\ Stream(place) =>
          LET here == place[Len(got) + 1] + sz' IN
          /\ here + Len(pipe') = place[Len(put) + 1] + tsz
          /\ \A k \in 1..Len(put) : \A a \in 1..Span(put[k]) :
               place[k] + a > here => pipe'[place[k] + a - here] = ByteOf(put[k], a)
          /\ \A a \in 1..tsz :
               place[Len(put) + 1] + a > here =>
                 pipe'[place[Len(put) + 1] + a - here] = ByteOf(out, a)
  <2>1. bsz <= Len(Current)
    BY <1>1
  <2>2. QED
    BY <1>1, <1>2, <2>1, ReadBytes, Zenon
<1>7. CASE sz' = bsz
  <2>1. got' = Append(got, SubSeq(buf', 1, Len(Current))) /\ pc' = "call"
    BY <1>1, <1>7
  <2>2. PICK place \in [1..Len(put) + 1 -> Nat] : Places(place) /\ Stream(place)
    BY <1>1 DEF IInv, StreamInv
  <2>3. LET here == place[Len(got) + 1] + sz' IN
        /\ here + Len(pipe') = place[Len(put) + 1] + tsz
        /\ \A k \in 1..Len(put) : \A a \in 1..Span(put[k]) :
             place[k] + a > here => pipe'[place[k] + a - here] = ByteOf(put[k], a)
        /\ \A a \in 1..tsz :
             place[Len(put) + 1] + a > here =>
               pipe'[place[Len(put) + 1] + a - here] = ByteOf(out, a)
    BY <1>6, <2>2, Zenon
  <2>4. Len(pipe') \in Nat /\ (Len(got) = Len(put) => sz' <= tsz)
    <3>1. Len(pipe') \in Nat
      BY <1>5, LenProperties
    <3>2. place[Len(got) + 1] + sz' + Len(pipe') = place[Len(put) + 1] + tsz
      BY <2>3
    <3>3. Len(put) + 1 \in 1..Len(put) + 1
      BY <1>1
    <3>4. place[Len(put) + 1] \in Nat /\ sz' \in Nat
      BY <1>1, <1>5, <2>2, <3>3
    <3>5. QED
      BY <1>1, <3>1, <3>2, <3>4
  <2>5. /\ Len(got) < Len(put) /\ got' = Append(got, put[Len(got) + 1])
        /\ got' \in Seq(Frames) /\ Len(got') = Len(got) + 1
        /\ \A k \in 1..Len(got') : got'[k] = put[k]
        /\ StreamInv' /\ Pipe!Next
    <3>1. sz' = Span(Current) /\ Len(Current) <= Len(buf') /\ sz' \in Nat
      BY <1>1, <1>4, <1>5, <1>7
    <3>2. \A k \in 1..Len(Current) : buf'[k] = ByteOf(Current, k)
      BY <1>1, <1>5, <1>7
    <3>3. UNCHANGED <<put, out, tsz, end, result>>
      BY <1>3
    <3>4. QED
      BY <1>1, <1>4, <1>5, <2>1, <2>2, <2>3, <2>4, <3>1, <3>2, <3>3, ReturnStep, Zenon
  <2>6. IInv'
    <3>1. sz' <= Len(buf') /\ sz' \in Nat /\ Len(buf') >= Len(buf) /\ bsz' \in Lengths
      BY <1>1, <1>4, <1>5
    <3>2. QED
      BY <1>1, <1>3, <1>5, <2>1, <2>5, <3>1, AfterReturn
  <2>7. QED
    BY <2>5, <2>6
<1>8. CASE sz' # bsz
  <2>1. UNCHANGED <<got, pc>> /\ Reading' /\ Current' = Current /\ Has' = sz'
    BY <1>1, <1>8 DEF Current, Has, Reading
  <2>2. Types'
    BY <1>1, <1>3, <2>1, <1>5 DEF IInv, Types
  <2>3. WriterInv'
    <3>1. Len(pipe') <= Capacity
      <4>1. Len(pipe) <= Capacity /\ Len(pipe') \in Nat /\ Capacity \in Nat
        BY <1>5, FrameAssumption, LenProperties DEF IInv, WriterInv
      <4>2. QED
        BY <1>1, <1>5, <4>1
    <3>2. QED
      BY <1>3, <3>1 DEF IInv, WriterInv, Span
  <2>4. ReaderInv'
    <3>1. buf' # <<>> /\ Len(buf') >= Basis
      BY <1>1, <1>5, EmptySeq
    <3>2. Basis <= sz' /\ sz' < bsz /\ bsz <= Len(buf') /\ sz' <= Len(buf')
      BY <1>1, <1>8, <1>5
    <3>3. \A k \in 1..sz' : buf'[k] = ByteOf(Current, k)'
      BY <2>1, <1>5 DEF ByteOf
    <3>4. bsz' = bsz /\ bsz = Len(Current) /\ pc' = "rest"
      BY <1>1, <2>1
    <3>5. QED
      BY <1>3, <2>1, <3>1, <3>2, <3>3, <3>4 DEF IInv, ReaderInv
  <2>5. StreamInv'
    <3>1. PICK place \in [1..Len(put) + 1 -> Nat] : Places(place) /\ Stream(place)
      BY <1>1 DEF IInv, StreamInv
    <3>2. LET here == place[Len(got) + 1] + sz' IN
          /\ here + Len(pipe') = place[Len(put) + 1] + tsz
          /\ \A k \in 1..Len(put) : \A a \in 1..Span(put[k]) :
               place[k] + a > here => pipe'[place[k] + a - here] = ByteOf(put[k], a)
          /\ \A a \in 1..tsz :
               place[Len(put) + 1] + a > here =>
                 pipe'[place[Len(put) + 1] + a - here] = ByteOf(out, a)
      BY <1>6, <3>1, Zenon
    <3>3. Places(place)'
      BY <1>3, <3>1 DEF Places, Span
    <3>4. Stream(place)'
      BY <1>3, <2>1, <3>2 DEF Stream, Bytes, ByteOf, Span
    <3>5. QED
      BY <1>3, <3>1, <3>3, <3>4 DEF StreamInv
  <2>6. QED
    BY <1>3, <2>1, <2>2, <2>3, <2>4, <2>5 DEF IInv
<1>9. QED
  BY <1>7, <1>8

LEMMA SizeStep ==
  ASSUME IInv, Size
  PROVE  IInv' /\ [Pipe!Next]_<<put, got, end, result>>
<1>1. /\ Basis \in Nat /\ Basis >= 1 /\ sz = Basis /\ Reading /\ pc # "stopped"
      /\ tsz \in Nat /\ Len(got) \in Nat /\ Len(put) \in Nat /\ Len(pipe) \in Nat
      /\ buf \in Seq(Byte) /\ Len(buf) \in Nat /\ Len(buf) >= Basis /\ Has = sz
      /\ pipe \in Seq(Byte)
      /\ \A k \in 1..sz : buf[k] = ByteOf(Current, k)
  BY FrameAssumption, LenProperties DEF IInv, Types, ReaderInv, Reading, Has, Size
<1>2. UNCHANGED <<put, out, tsz, end, result, sz, pipe>>
  BY DEF Size, writer
<1>3. Current \in Frames /\ Len(Current) \in Lengths /\ Len(Current) \in Nat /\ Len(Current) >= 1
  BY <1>1, Reached, FrameFacts
<1>4. bsz' = Len(Current)
  <2>1. 1 \in 1..sz /\ 1 \in 1..Len(Current) /\ 1 <= Len(Current)
    BY <1>1, <1>3
  <2>2. buf[1] = Current[1]
    BY <1>1, <2>1 DEF ByteOf
  <2>3. Current[1].len = Len(Current)
    <3>1. \A k \in 1..Len(Current) :
            Current[k] = [frame |-> Current[1].frame, at |-> k, len |-> Len(Current)]
      BY <1>3, FrameFacts
    <3>2. Current[1] = [frame |-> Current[1].frame, at |-> 1, len |-> Len(Current)]
      BY <2>1, <3>1
    <3>3. PICK no : Current[1] = [frame |-> no, at |-> 1, len |-> Len(Current)]
      BY <3>2
    <3>4. QED
      BY <3>3
  <2>4. QED
    BY <2>2, <2>3 DEF Size
<1>5. /\ buf' \in Seq(Byte) /\ Len(buf') >= Len(buf) /\ Len(buf') >= Len(Current)
      /\ Len(buf') \in Nat /\ \A k \in 1..Len(buf) : buf'[k] = buf[k]
  <2> DEFINE n == Larger(bsz' - Len(buf), 0)
             pad == [k \in 1..n |-> Unset]
  <2>1. n \in Nat /\ Len(buf) + n >= Len(Current)
    BY <1>1, <1>3, <1>4 DEF Larger
  <2>2. pad \in [1..n -> Byte]
    BY DEF Unset, Byte
  <2>3. pad \in Seq(Byte) /\ Len(pad) = n
    BY <2>1, <2>2, SeqDef, LenProperties
  <2>4. buf' = buf \o pad
    BY DEF Size
  <2> HIDE DEF n, pad
  <2>5. /\ buf \o pad \in Seq(Byte) /\ Len(buf \o pad) = Len(buf) + n
        /\ \A k \in 1..Len(buf) + n :
             (buf \o pad)[k] = IF k <= Len(buf) THEN buf[k] ELSE pad[k - Len(buf)]
    BY <1>1, <2>3, ConcatProperties
  <2>6. ASSUME NEW k \in 1..Len(buf) PROVE buf'[k] = buf[k]
    <3>1. k \in 1..Len(buf) + n /\ k <= Len(buf)
      BY <1>1, <2>1
    <3>2. QED
      BY <2>4, <2>5, <3>1
  <2>7. Len(buf') = Len(buf) + n
    BY <2>4, <2>5
  <2>8. Len(buf') >= Len(buf) /\ Len(buf') >= Len(Current) /\ Len(buf') \in Nat
    BY <1>1, <2>1, <2>7
  <2>9. QED
    BY <2>4, <2>5, <2>6, <2>8
<1>6. PICK place \in [1..Len(put) + 1 -> Nat] : Places(place) /\ Stream(place)
  BY <1>1 DEF IInv, StreamInv
<1>7. CASE bsz' <= Basis
  <2>1. got' = Append(got, SubSeq(buf, 1, Len(Current))) /\ pc' = "call"
    BY <1>4, <1>7 DEF Size, Return
  <2>2. sz = Span(Current) /\ Len(Current) <= Len(buf) /\ sz \in Nat
    BY <1>1, <1>3, <1>4, <1>7 DEF Span
  <2>3. \A k \in 1..Len(Current) : buf[k] = ByteOf(Current, k)
    BY <1>1, <1>3, <1>4, <1>7
  <2>4. LET here == place[Len(got) + 1] + sz IN
        /\ here + Len(pipe') = place[Len(put) + 1] + tsz
        /\ \A k \in 1..Len(put) : \A a \in 1..Span(put[k]) :
             place[k] + a > here => pipe'[place[k] + a - here] = ByteOf(put[k], a)
        /\ \A a \in 1..tsz :
             place[Len(put) + 1] + a > here =>
               pipe'[place[Len(put) + 1] + a - here] = ByteOf(out, a)
    BY <1>1, <1>2, <1>6 DEF Stream, Bytes
  <2>5. Len(pipe') \in Nat /\ (Len(got) = Len(put) => sz <= tsz)
    BY <1>1, <1>2, CurrentFacts
  <2>6. /\ Len(got) < Len(put) /\ got' = Append(got, put[Len(got) + 1])
        /\ got' \in Seq(Frames) /\ Len(got') = Len(got) + 1
        /\ \A k \in 1..Len(got') : got'[k] = put[k]
        /\ StreamInv' /\ Pipe!Next
    BY <1>1, <1>2, <1>3, <1>6, <2>1, <2>2, <2>3, <2>4, <2>5, ReturnStep, Zenon
  <2>7. IInv'
    <3>1. /\ sz' <= Len(buf') /\ sz' \in Nat /\ bsz' \in Lengths
          /\ pipe' \in Seq(Byte) /\ Len(pipe') <= Len(pipe)
      <4>1. sz' = sz /\ pipe' = pipe /\ sz <= Len(buf')
        BY <1>1, <1>2, <1>5
      <4>2. QED
        BY <1>1, <1>3, <1>4, <4>1
    <3>2. QED
      BY <1>1, <1>2, <1>5, <2>1, <2>6, <3>1, AfterReturn
  <2>8. QED
    BY <2>6, <2>7
<1>8. CASE ~(bsz' <= Basis)
  <2>1. pc' = "rest" /\ got' = got
    BY <1>8 DEF Size
  <2>2. Reading' /\ Current' = Current /\ Has' = Has
    BY <1>1, <1>2, <2>1 DEF Reading, Current, Has
  <2>3. Types'
    BY <1>2, <1>3, <1>4, <1>5, <2>1 DEF IInv, Types
  <2>4. WriterInv'
    BY <1>2 DEF IInv, WriterInv, Span
  <2>5. ReaderInv'
    <3>1. Len(buf') >= Basis /\ sz <= Len(buf')
      BY <1>1, <1>5
    <3>2. buf' # <<>>
      BY <1>1, <1>5, <3>1, EmptySeq
    <3>3. Basis <= sz /\ sz < bsz' /\ bsz' <= Len(buf')
      <4>1. bsz' \in Nat /\ bsz' = Len(Current)
        BY <1>3, <1>4
      <4>2. QED
        BY <1>1, <1>5, <1>8, <4>1
    <3>4. \A k \in 1..sz : buf'[k] = ByteOf(Current, k)'
      <4>1. \A k \in 1..sz : k \in 1..Len(buf)
        BY <1>1
      <4>2. \A k \in 1..sz : buf'[k] = ByteOf(Current, k)
        BY <1>1, <1>5, <4>1
      <4>3. QED
        BY <2>2, <4>2 DEF ByteOf
    <3>5. bsz' = Len(Current)' /\ sz' = sz /\ put' = put /\ result' = result
      BY <1>2, <1>4, <2>2
    <3>6. QED
      BY <1>1, <1>3, <1>4, <2>1, <2>2, <3>1, <3>2, <3>3, <3>4, <3>5 DEF IInv, ReaderInv
  <2>6. StreamInv'
    <3>1. Places(place)'
      BY <1>2, <1>6 DEF Places, Span
    <3>2. Stream(place)'
      BY <1>2, <1>6, <2>1, <2>2 DEF Stream, Bytes, ByteOf, Span
    <3>3. QED
      BY <1>2, <1>6, <3>1, <3>2 DEF StreamInv
  <2>7. QED
    BY <1>2, <2>1, <2>3, <2>4, <2>5, <2>6 DEF IInv
<1>9. QED
  BY <1>7, <1>8

\* The reader stops at the end of the file, knowing that all of it was read.
LEMMA EndInBasisStep ==
  ASSUME IInv, EndInBasis, ~HangupAlone
  PROVE  IInv' /\ Pipe!Next
<1> USE DEF EndInBasis, writer
<1>1. /\ Reading /\ pc # "stopped" /\ Has = sz /\ sz < Basis /\ sz \in Nat /\ tsz \in Nat
      /\ result = "frame"
      /\ put \in Seq(Frames) /\ got \in Seq(Frames) /\ pipe = <<>> /\ end # "open"
  BY DEF IInv, Types, ReaderInv, Reading, Has, AtEnd
<1>2. Len(got) = Len(put) /\ sz = tsz
  BY <1>1, AtWriter
<1>3. got = put
  BY <1>1, <1>2, SeqEqual DEF IInv, ReaderInv
<1>4. end = IF tsz = 0 THEN "between" ELSE "within"
  BY <1>1 DEF IInv, WriterInv
<1>5. CASE sz > 0
  <2>1. Fail /\ UNCHANGED <<pipe, writer>>
    BY <1>5
  <2>2. IInv' /\ UNCHANGED <<put, got, end>> /\ result' = "failed"
    BY <1>1, <2>1, FailStep
  <2>3. end = "within"
    BY <1>2, <1>4, <1>5
  <2>4. QED
    BY <1>1, <1>3, <2>2, <2>3 DEF Pipe!Next, Pipe!BrokenOff
<1>6. CASE ~(sz > 0)
  <2>1. result' = "eof" /\ pc' = "stopped" /\ UNCHANGED <<buf, sz, bsz, got, pipe, writer>>
    BY <1>6
  <2>2. Types' /\ WriterInv' /\ ReaderInv' /\ StreamInv'
    <3>1. Types'
      BY <2>1 DEF IInv, Types
    <3>2. WriterInv'
      BY <2>1 DEF IInv, WriterInv, Span
    <3>3. ReaderInv'
      BY <2>1 DEF IInv, ReaderInv, Reading
    <3>4. StreamInv'
      BY <2>1 DEF StreamInv
    <3>5. QED
      BY <3>1, <3>2, <3>3, <3>4
  <2>3. end = "between"
    BY <1>1, <1>2, <1>4, <1>6
  <2>4. QED
    BY <1>1, <1>3, <2>1, <2>2, <2>3 DEF IInv, Pipe!Next, Pipe!EndOfFile
<1>7. QED
  BY <1>5, <1>6

LEMMA EndInRestStep ==
  ASSUME IInv, EndInRest, ~HangupAlone
  PROVE  IInv' /\ Pipe!Next
<1> USE DEF EndInRest, writer
<1>1. /\ Reading /\ pc # "stopped" /\ Has = sz /\ sz < Len(Current) /\ sz >= Basis
      /\ sz \in Nat /\ tsz \in Nat /\ result = "frame" /\ Basis >= 1 /\ Basis \in Nat
      /\ put \in Seq(Frames) /\ got \in Seq(Frames) /\ pipe = <<>> /\ end # "open"
  BY FrameAssumption DEF IInv, Types, ReaderInv, Reading, Has, AtEnd
<1>2. Len(got) = Len(put) /\ sz = tsz
  BY <1>1, AtWriter
<1>3. got = put
  BY <1>1, <1>2, SeqEqual DEF IInv, ReaderInv
<1>4. end = "within"
  BY <1>1, <1>2 DEF IInv, WriterInv
<1>5. Fail /\ UNCHANGED <<pipe, writer>>
  OBVIOUS
<1>6. IInv' /\ UNCHANGED <<put, got, end>> /\ result' = "failed"
  BY <1>1, <1>5, FailStep
<1>7. QED
  BY <1>1, <1>3, <1>4, <1>6 DEF Pipe!Next, Pipe!BrokenOff

LEMMA NoMemoryStep ==
  ASSUME IInv, NoBuffer \/ NoRoom
  PROVE  IInv' /\ Pipe!Next
<1>1. pc # "stopped" /\ Fail /\ UNCHANGED <<pipe, writer>> /\ ~ReaderMemory
  BY DEF NoBuffer, NoRoom
<1>2. IInv' /\ UNCHANGED <<put, got, end>> /\ result = "frame" /\ result' = "failed"
  BY <1>1, FailStep
<1>3. QED
  BY <1>1, <1>2 DEF Pipe!Next, Pipe!OutOfMemory

-----------------------------------------------------------------------------
(* What follows for every behaviour in which no hangup comes alone. *)

LEMMA NextStep ==
  ASSUME IInv, [Next]_vars, ~HangupAlone \/ ~(EndInBasis \/ EndInRest)
  PROVE  IInv' /\ [Pipe!Next]_<<put, got, end, result>>
<1>1. ASSUME NEW len \in Lengths, WriteFrame(len)
      PROVE  IInv' /\ [Pipe!Next]_<<put, got, end, result>>
  <2>1. UNCHANGED <<put, got, end, result>>
    BY <1>1 DEF WriteFrame, reader
  <2>2. QED
    BY <1>1, <2>1, WriteFrameStep
<1>2. ASSUME NEW n \in 1..Capacity, Send(n)
      PROVE  IInv' /\ [Pipe!Next]_<<put, got, end, result>>
  BY <1>2, SendStep
<1>3. CASE Close
  BY <1>3, CloseStep
<1>4. CASE Call
  <2>1. UNCHANGED <<put, got, end, result>>
    BY <1>4 DEF Call, writer
  <2>2. QED
    BY <1>4, <2>1, CallStep
<1>5. CASE NoBuffer \/ NoRoom
  BY <1>5, NoMemoryStep
<1>6. ASSUME NEW n \in 1..Capacity, ReadBasis(n)
      PROVE  IInv' /\ [Pipe!Next]_<<put, got, end, result>>
  BY <1>6, ReadBasisStep
<1>7. ASSUME NEW n \in 1..Capacity, ReadRest(n)
      PROVE  IInv' /\ [Pipe!Next]_<<put, got, end, result>>
  BY <1>7, ReadRestStep
<1>8. CASE Size
  BY <1>8, SizeStep
<1>9. CASE EndInBasis
  BY <1>9, EndInBasisStep
<1>10. CASE EndInRest
  BY <1>10, EndInRestStep
<1>11. CASE UNCHANGED vars
  <2> USE <1>11 DEF vars
  <2>1. Types'
    BY DEF IInv, Types
  <2>2. WriterInv'
    BY DEF IInv, WriterInv, Span
  <2>3. ReaderInv'
    BY DEF IInv, ReaderInv, Reading, Current, ByteOf
  <2>4. StreamInv'
    BY DEF IInv, StreamInv, Places, Stream, Bytes, Has, Reading, Span, ByteOf
  <2>5. QED
    BY <2>1, <2>2, <2>3, <2>4 DEF IInv
<1>12. QED
  BY <1>1, <1>2, <1>3, <1>4, <1>5, <1>6, <1>7, <1>8, <1>9, <1>10, <1>11
  DEF Next, Writer, Reader

LEMMA Invariant ==
  ASSUME ~HangupAlone
  PROVE  Spec => []IInv
<1>1. Init => IInv
  BY InitIInv
<1>2. IInv /\ [Next]_vars => IInv'
  BY NextStep
<1>3. QED
  BY <1>1, <1>2, PTL DEF Spec

-----------------------------------------------------------------------------
(* A hangup that comes alone may fail the reader between two frames, or    *)
(* have it return one within which the writer ended.                       *)

LEMMA AloneStep ==
  ASSUME IInv, HangupAlone, EndInBasis \/ EndInRest
  PROVE  IInv' \/ Cut'
<1>1. CASE EndInBasis
  <2>1. pc # "stopped" /\ Fail /\ UNCHANGED <<pipe, writer>>
    BY <1>1 DEF EndInBasis
  <2>2. QED
    BY <2>1, FailStep
<1>2. CASE EndInRest
  <2>1. /\ pc = "rest" /\ pipe = <<>> /\ end # "open" /\ pc' = "call"
        /\ UNCHANGED <<out, tsz, put, end, pipe, buf, sz, bsz, result>>
    BY <1>2 DEF EndInRest, AtEnd, Return, writer
  <2>2. /\ out \in Frames \cup {<<>>} /\ put \in Seq(Frames) /\ tsz \in Nat
        /\ out = <<>> => tsz = 0
        /\ out # <<>> => tsz < Span(out)
        /\ end \in {"open", "between", "within"} /\ result \in {"frame", "eof", "failed"}
    BY DEF IInv, Types, WriterInv
  <2>3. buf # <<>> /\ sz \in 0..Len(buf) /\ bsz \in Lengths \cup {0}
    BY <2>1, LenProperties DEF IInv, Types, ReaderInv, Reading
  <2>4. Cut'
    BY <2>1, <2>2, <2>3 DEF Cut, Span
  <2>5. QED
    BY <2>4
<1>3. QED
  BY <1>1, <1>2

\* Behind such a hangup the reader finds the end before the next frame's first byte.
LEMMA CutStep ==
  ASSUME Cut, [Next]_vars
  PROVE  Cut'
<1>1. /\ end # "open" /\ pc \in {"call", "basis", "stopped"} /\ pipe = <<>> /\ buf # <<>>
  BY DEF Cut
<1>2. ~Writer /\ ~Size /\ ~NoRoom /\ ~EndInRest /\ ~NoBuffer
  BY <1>1 DEF Writer, WriteFrame, Send, Close, Size, NoRoom, EndInRest, NoBuffer
<1>3. ASSUME NEW n \in 1..Capacity
      PROVE  ~ReadBasis(n) /\ ~ReadRest(n)
  <2>1. Len(pipe) = 0 /\ n >= 1
    BY <1>1, <1>3
  <2>2. \A up \in Int : ~(n <= Smaller(up, Len(pipe)))
    BY <2>1 DEF Smaller
  <2>3. pc = "basis" => Basis - sz \in Int
    BY FrameAssumption DEF Cut
  <2>4. QED
    BY <1>1, <2>2, <2>3 DEF ReadBasis, ReadRest, Read
<1>4. CASE Call
  <2>1. /\ buf' = buf /\ sz' = 0 /\ pc' = "basis"
        /\ UNCHANGED <<bsz, result, pipe, out, tsz, put, end>>
    BY <1>1, <1>4 DEF Call, writer
  <2>2. Len(buf) \in Nat
    BY DEF Cut
  <2>3. QED
    BY <2>1, <2>2 DEF Cut, Span
<1>5. CASE EndInBasis
  <2>1. /\ pc' = "stopped" /\ result' \in {"failed", "eof"}
        /\ UNCHANGED <<buf, sz, bsz, pipe, out, tsz, put, end>>
    BY <1>5 DEF EndInBasis, Fail, writer
  <2>2. QED
    BY <2>1 DEF Cut, Span
<1>6. CASE UNCHANGED vars
  BY <1>6 DEF Cut, Span, vars
<1>7. QED
  BY <1>2, <1>3, <1>4, <1>5, <1>6 DEF Next, Reader

\* With a hangup alone or without.
LEMMA Always == Spec => [](IInv \/ Cut)
<1>1. Init => IInv \/ Cut
  BY InitIInv
<1>2. (IInv \/ Cut) /\ [Next]_vars => (IInv \/ Cut)'
  BY NextStep, AloneStep, CutStep
<1>3. QED
  BY <1>1, <1>2, PTL DEF Spec

\* The types, and with them that the reader never reads past its buffer, whose size
\* it keeps from frame to frame, nor the writer sends more than the frame and its
\* padding (io.c, sqlbox_read_frame and sqlbox_write).
THEOREM TypeCorrect == Spec => []TypeOK
<1>1. ASSUME /\ out \in Frames \cup {<<>>} /\ tsz \in Nat
             /\ out = <<>> => tsz = 0
             /\ out # <<>> => tsz < Span(out)
      PROVE  tsz \in 0..Len(Padded(out))
  <2>1. CASE out = <<>>
    <3> DEFINE pad == [k \in 1..Basis |-> Unset]
    <3>1. pad \in [1..Basis -> Byte]
      BY DEF Unset, Byte
    <3>2. pad \in Seq(Byte) /\ Len(pad) = Basis
      BY <3>1, FrameAssumption, SeqDef, LenProperties
    <3>3. Len(<<>>) = 0 /\ Larger(Basis - 0, 0) = Basis
      BY FrameAssumption DEF Larger
    <3>4. Padded(out) = <<>> \o pad
      BY <2>1, <3>3 DEF Padded
    <3> HIDE DEF pad
    <3>5. <<>> \o pad = pad
      BY <3>2, ConcatEmptySeq
    <3>6. QED
      BY <1>1, <2>1, <3>2, <3>4, <3>5, FrameAssumption
  <2>2. CASE out # <<>>
    <3>1. out \in Frames /\ tsz < Span(out) /\ tsz \in Nat
      BY <1>1, <2>2
    <3>2. QED
      BY <3>1, PaddedFacts, SpanFacts
  <2>3. QED
    BY <2>1, <2>2
<1>2. IInv => TypeOK
  <2> SUFFICES ASSUME IInv PROVE TypeOK
    OBVIOUS
  <2>1. tsz \in 0..Len(Padded(out))
    BY <1>1 DEF IInv, Types, WriterInv
  <2>2. sz \in 0..Len(buf)
    BY LenProperties DEF IInv, Types, ReaderInv
  <2>3. QED
    BY <2>1, <2>2 DEF TypeOK, IInv, Types, WriterInv, ReaderInv
<1>3. Cut => TypeOK
  <2> SUFFICES ASSUME Cut PROVE TypeOK
    OBVIOUS
  <2>1. tsz \in 0..Len(Padded(out))
    BY <1>1 DEF Cut
  <2>2. Len(pipe) <= Capacity
    BY FrameAssumption DEF Cut
  <2>3. QED
    BY <2>1, <2>2 DEF TypeOK, Cut
<1>4. QED
  BY <1>2, <1>3, Always, PTL

\* What the reader has of a frame is that frame's, however sends and reads were cut.
THEOREM StaysInStep == Spec => []InStep
<1>1. IInv => InStep
  <2> SUFFICES ASSUME IInv, pc \in {"basis", "size", "rest"}, NEW k \in 1..sz
               PROVE  buf[k] = Unset \/ (buf[k].frame = Len(got) + 1 /\ buf[k].at = k)
    BY DEF InStep
  <2>1. sz \in Nat /\ sz > 0 /\ Reading /\ buf[k] = ByteOf(Current, k)
    BY DEF IInv, Types, ReaderInv, Reading
  <2>2. Current \in Frames
    BY <2>1, Reached
  <2>3. Current[1].frame = Len(got) + 1
    <3>1. Len(got) \in Nat /\ Len(put) \in Nat /\ Len(got) <= Len(put)
      BY LenProperties DEF IInv, Types, ReaderInv
    <3>2. CASE Len(got) < Len(put)
      <4>1. Len(got) + 1 \in 1..Len(put)
        BY <3>1, <3>2
      <4>2. QED
        BY <3>2, <4>1 DEF Current, IInv, WriterInv
    <3>3. CASE Len(got) = Len(put)
      <4>1. Current = out /\ out # <<>>
        BY <2>2, <3>1, <3>3, FrameFacts DEF Current
      <4>2. QED
        BY <3>3, <4>1 DEF IInv, WriterInv
    <3>4. QED
      BY <3>1, <3>2, <3>3
  <2>4. CASE k <= Len(Current)
    <3>1. k \in 1..Len(Current) /\ buf[k] = Current[k]
      BY <2>1, <2>2, <2>4, FrameFacts DEF ByteOf
    <3>2. Current[k] = [frame |-> Current[1].frame, at |-> k, len |-> Len(Current)]
      BY <2>2, <3>1, FrameFacts
    <3>3. QED
      BY <2>3, <3>1, <3>2
  <2>5. CASE ~(k <= Len(Current))
    BY <2>1, <2>5 DEF ByteOf
  <2>6. QED
    BY <2>4, <2>5
<1>2. Cut => InStep
  <2> SUFFICES ASSUME Cut, pc = "basis", NEW k \in 1..sz PROVE FALSE
    BY DEF InStep, Cut
  <2>1. QED
    BY DEF Cut
<1>3. QED
  BY <1>1, <1>2, Always, PTL

\* A reader that sleeps in poll has everything that was sent: every frame that is
\* put, and of the one being written as many bytes as its writer knows to be gone.
SleepsCaughtUp ==
  pc \in {"basis", "rest"} /\ pipe = <<>> /\ end = "open" =>
    Len(got) = Len(put) /\ sz = tsz

\* Nobody sleeps on a frame that has been written, with a hangup alone or without
\* (io.c, sqlbox_read_frame): the part of FramePipe's fairness that is safety.
THEOREM NobodySleepsOnAFrame == Spec => []SleepsCaughtUp
<1>1. IInv => SleepsCaughtUp
  <2> SUFFICES ASSUME IInv, pc \in {"basis", "rest"}, pipe = <<>>
               PROVE  Len(got) = Len(put) /\ sz = tsz
    BY DEF SleepsCaughtUp
  <2>1. pc # "stopped" /\ Has = sz
    BY DEF Has, Reading
  <2>2. Has < Basis \/ Has < Len(Current)
    BY <2>1 DEF IInv, ReaderInv
  <2>3. QED
    BY <2>1, <2>2, AtWriter
<1>2. Cut => SleepsCaughtUp
  BY DEF Cut, SleepsCaughtUp
<1>3. QED
  BY <1>1, <1>2, Always, PTL

\* Frames read are the frames written, whole and in order; the reader reports the
\* end of the file only between two frames and with all of them read, and a failure,
\* when there is memory, only for an end within a frame (io.c, sqlbox_read_frame).
\* This is all of FramePipe but its fairness.
THEOREM FramesThroughThePipe ==
  ASSUME ~HangupAlone
  PROVE  Spec => Pipe!Init /\ [][Pipe!Next]_<<put, got, end, result>>
<1>1. Init => Pipe!Init
  BY DEF Init, Pipe!Init
<1>2. IInv /\ [Next]_vars => [Pipe!Next]_<<put, got, end, result>>
  BY NextStep
<1>3. QED
  BY <1>1, <1>2, Invariant, PTL DEF Spec

=============================================================================
