------------------------------- MODULE Frame -------------------------------
(***************************************************************************)
(* Frames over a stream socket (io.c): a writer whose sends may be cut     *)
(* anywhere, and the main loop around sqlbox_read_frame, whose reads may   *)
(* return any part of what is there.  A frame is written with at least     *)
(* Basis bytes, so the reader takes that many, finds the length of the     *)
(* frame in them and reads on if it is more.  Its buffer is kept from one  *)
(* frame to the next and only grows.                                       *)
(*                                                                         *)
(* A byte is a cell: the frame it is from, its place in it, and, what only *)
(* the first one is read for, the length of the frame.  Cell 0 stands for  *)
(* memory not written yet.  The length includes the bytes of the length.   *)
(* The writer may end between any two sends, as a process does; signals    *)
(* and socket errors other than its end are left out.                      *)
(***************************************************************************)
EXTENDS Integers, Sequences

CONSTANTS Basis,        \* SQLBOX_FRAME
          Lengths,      \* lengths a frame may have
          MaxFrames,    \* bound: frames written
          Capacity,     \* what the socket holds
          ReaderMemory, \* FALSE if the reader's allocations may fail
          HangupAlone   \* TRUE if poll reports the end as POLLHUP without POLLIN

ASSUME FrameAssumption ==
  /\ Basis \in Nat \ {0}
  /\ Lengths \subseteq Nat \ {0}
  /\ MaxFrames \in Nat
  /\ Capacity \in Nat \ {0}
  /\ ReaderMemory \in BOOLEAN /\ HangupAlone \in BOOLEAN

VARIABLES
  out, tsz,    \* the writer's buffer, and how much of it is sent
  put,         \* frames sent in full
  end,         \* "open", or how the writer ended: "between" or "within" a frame
  pipe,        \* bytes in the socket
  buf,         \* the reader's buffer, whose length is bufsz
  sz, bsz,     \* bytes read of a frame, and to be read
  pc,          \* where the reader is in sqlbox_read_frame
  got,         \* frames it returned
  result       \* "frame", "eof" or "failed"

writer == <<out, tsz, put, end>>
reader == <<buf, sz, bsz, pc, got, result>>
vars   == <<out, tsz, put, end, pipe, buf, sz, bsz, pc, got, result>>

Larger(a, b)  == IF a > b THEN a ELSE b
Smaller(a, b) == IF a < b THEN a ELSE b

Cell(no, len) == [k \in 1 .. len |-> [frame |-> no, at |-> k, len |-> len]]
Frames == {Cell(no, len) : no \in 1 .. MaxFrames, len \in Lengths}
Unset  == [frame |-> 0, at |-> 0, len |-> 0]

\* A frame shorter than the basis is followed by zeros.
Padded(f) == f \o [k \in 1 .. Larger(Basis - Len(f), 0) |-> Unset]

Init ==
  /\ out = <<>> /\ tsz = 0 /\ put = <<>> /\ end = "open" /\ pipe = <<>>
  /\ buf = <<>> /\ sz = 0 /\ bsz = 0 /\ pc = "call" /\ got = <<>> /\ result = "frame"

-----------------------------------------------------------------------------
(* The writer. *)

\* sqlbox_write_frame, or a call that packs parameters into a longer frame.
WriteFrame(len) ==
  /\ end = "open" /\ out = <<>>
  /\ Len(put) < MaxFrames
  /\ out' = Cell(Len(put) + 1, len)
  /\ UNCHANGED <<tsz, put, end, pipe, reader>>

\* One send of the loop in sqlbox_write, which takes what the socket has room for.
Send(n) ==
  /\ end = "open" /\ out # <<>>
  /\ n <= Smaller(Len(Padded(out)) - tsz, Capacity - Len(pipe))
  /\ pipe' = pipe \o SubSeq(Padded(out), tsz + 1, tsz + n)
  /\ IF tsz + n = Len(Padded(out))
     THEN out' = <<>> /\ tsz' = 0 /\ put' = Append(put, out)
     ELSE tsz' = tsz + n /\ UNCHANGED <<out, put>>
  /\ UNCHANGED <<end, reader>>

\* The writer's end of the socket is closed.
Close ==
  /\ end = "open"
  /\ end' = IF tsz = 0 THEN "between" ELSE "within"
  /\ UNCHANGED <<out, tsz, put, pipe, reader>>

-----------------------------------------------------------------------------
(* The reader. *)

Fail ==
  /\ result' = "failed" /\ pc' = "stopped"
  /\ UNCHANGED <<buf, sz, bsz, got>>

\* The loop calls sqlbox_read_frame, which allocates its first buffer.
Call ==
  /\ pc = "call"
  /\ buf' = IF buf = <<>> THEN [k \in 1 .. Basis |-> Unset] ELSE buf
  /\ sz' = 0
  /\ pc' = "basis"
  /\ UNCHANGED <<bsz, got, result, pipe, writer>>

NoBuffer ==
  /\ ~ReaderMemory
  /\ pc = "call" /\ buf = <<>>
  /\ Fail
  /\ UNCHANGED <<pipe, writer>>

\* One read(2) of n bytes, where at most up to are wanted.
Read(n, up) ==
  /\ n <= Smaller(up - sz, Len(pipe))
  /\ buf' = [k \in DOMAIN buf |-> IF k \in sz + 1 .. sz + n THEN pipe[k - sz] ELSE buf[k]]
  /\ sz' = sz + n
  /\ pipe' = SubSeq(pipe, n + 1, Len(pipe))

\* Mistake: the buffer is filled, however long it has become.
SlipReadBasis(n) ==
  /\ pc = "basis"
  /\ Read(n, Len(buf))
  /\ pc' = IF sz' >= Basis THEN "size" ELSE "basis"
  /\ UNCHANGED <<bsz, got, result, writer>>

ReadBasis(n) ==
  /\ pc = "basis"
  /\ Read(n, Basis)
  /\ pc' = IF sz' = Basis THEN "size" ELSE "basis"
  /\ UNCHANGED <<bsz, got, result, writer>>

AtEnd == pipe = <<>> /\ end # "open"

\* Mistake: an end within the basis is taken for the end between two frames.
SlipEndInBasis ==
  /\ pc = "basis" /\ AtEnd
  /\ IF HangupAlone
     THEN Fail
     ELSE /\ result' = "eof" /\ pc' = "stopped"
          /\ UNCHANGED <<buf, sz, bsz, got>>
  /\ UNCHANGED <<pipe, writer>>

\* A read of nothing is the end of file only before the first byte; a hangup
\* alone leaves the loop as too few bytes do.
EndInBasis ==
  /\ pc = "basis" /\ AtEnd
  /\ IF sz > 0 \/ HangupAlone
     THEN Fail
     ELSE /\ result' = "eof" /\ pc' = "stopped"
          /\ UNCHANGED <<buf, sz, bsz, got>>
  /\ UNCHANGED <<pipe, writer>>

Return == got' = Append(got, SubSeq(buf, 1, bsz')) /\ pc' = "call"

\* The length is known: make room, and return if the basis was all of it.
Size ==
  /\ pc = "size"
  /\ bsz' = buf[1].len
  /\ buf' = buf \o [k \in 1 .. Larger(bsz' - Len(buf), 0) |-> Unset]
  /\ IF bsz' <= Basis THEN Return ELSE pc' = "rest" /\ UNCHANGED got
  /\ UNCHANGED <<sz, result, pipe, writer>>

NoRoom ==
  /\ ~ReaderMemory
  /\ pc = "size" /\ buf[1].len > Len(buf)
  /\ Fail
  /\ UNCHANGED <<pipe, writer>>

ReadRest(n) ==
  /\ pc = "rest"
  /\ Read(n, bsz)
  /\ bsz' = bsz
  /\ IF sz' = bsz THEN got' = Append(got, SubSeq(buf', 1, bsz)) /\ pc' = "call"
                  ELSE UNCHANGED <<got, pc>>
  /\ UNCHANGED <<result, writer>>

\* A read of nothing is a failure here; a hangup alone leaves the loop, after
\* which the frame is returned as it is.
EndInRest ==
  /\ pc = "rest" /\ AtEnd
  /\ IF HangupAlone
     THEN bsz' = bsz /\ Return /\ UNCHANGED <<buf, sz, result>>
     ELSE Fail
  /\ UNCHANGED <<pipe, writer>>

-----------------------------------------------------------------------------
Writer == (\E len \in Lengths : WriteFrame(len)) \/ (\E n \in 1 .. Capacity : Send(n)) \/ Close

Reader ==
  \/ Call \/ NoBuffer
  \/ \E n \in 1 .. Capacity : ReadBasis(n) \/ ReadRest(n)
  \/ EndInBasis \/ Size \/ NoRoom \/ EndInRest

Next == Writer \/ Reader

\* poll wakes the reader for bytes and for the end; the writer may stop anywhere.
Spec == Init /\ [][Next]_vars /\ WF_vars(Reader)

-----------------------------------------------------------------------------
\* The types, with the reader's position inside its buffer, whose size changes from
\* frame to frame, and the socket never holding more than it can.
TypeOK ==
  /\ out \in Frames \cup {<<>>} /\ tsz \in 0 .. Len(Padded(out))
  /\ put \in Seq(Frames)
  /\ end \in {"open", "between", "within"}
  /\ Len(pipe) <= Capacity
  /\ sz \in 0 .. Len(buf) /\ bsz \in Lengths \cup {0}
  /\ pc \in {"call", "basis", "size", "rest", "stopped"}
  /\ result \in {"frame", "eof", "failed"}

\* The reader, which takes one frame at a time out of a stream that has no marks,
\* stays in step however sends and reads cut it: what it has of the frame it is
\* at comes from that frame alone, and nothing of it was lost.
InStep ==
  pc \in {"basis", "size", "rest"} =>
    \A k \in 1 .. sz : buf[k] = Unset \/ (buf[k].frame = Len(got) + 1 /\ buf[k].at = k)

Pipe == INSTANCE FramePipe WITH
  Frames <- Frames, ReaderMemory <- ReaderMemory,
  put <- put, got <- got, end <- end, result <- result

\* What sqlbox_read_frame returns, unless a hangup comes alone: frames whole and in
\* order, the end between two of them told from one within, and nobody waits for a
\* frame that has been written.
ImplementsFramePipe == Pipe!Spec
=============================================================================
