----------------------------- MODULE FramePipe -----------------------------
(***************************************************************************)
(* What the framing of io.c promises: whoever reads gets the frames that   *)
(* were written, whole and in their order, and learns of the end between   *)
(* two frames as an end and of any other as a failure.                     *)
(***************************************************************************)
EXTENDS Naturals, Sequences

CONSTANTS Frames,       \* what can be sent in a frame
          ReaderMemory  \* FALSE if the reader's allocations may fail

VARIABLES put,     \* frames written in full
          got,     \* frames read
          end,     \* the writer: "open", or ended between frames or within one
          result   \* what sqlbox_read_frame returned last

vars == <<put, got, end, result>>

Init == put = <<>> /\ got = <<>> /\ end = "open" /\ result = "frame"

Put ==
  /\ end = "open"
  /\ \E f \in Frames : put' = Append(put, f)
  /\ UNCHANGED <<got, end, result>>

End ==
  /\ end = "open"
  /\ end' \in {"between", "within"}
  /\ UNCHANGED <<put, got, result>>

Get ==
  /\ result = "frame"
  /\ Len(got) < Len(put)
  /\ got' = Append(got, put[Len(got) + 1])
  /\ UNCHANGED <<put, end, result>>

EndOfFile ==
  /\ result = "frame"
  /\ end = "between" /\ got = put
  /\ result' = "eof"
  /\ UNCHANGED <<put, got, end>>

BrokenOff ==
  /\ result = "frame"
  /\ end = "within" /\ got = put
  /\ result' = "failed"
  /\ UNCHANGED <<put, got, end>>

OutOfMemory ==
  /\ ~ReaderMemory
  /\ result = "frame"
  /\ result' = "failed"
  /\ UNCHANGED <<put, got, end>>

Next == Put \/ End \/ Get \/ EndOfFile \/ BrokenOff \/ OutOfMemory

\* The reader neither sleeps on a frame nor on the end of the writer.
Spec == Init /\ [][Next]_vars /\ WF_vars(Get \/ EndOfFile \/ BrokenOff)
=============================================================================
