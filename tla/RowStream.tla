----------------------------- MODULE RowStream -----------------------------
(***************************************************************************)
(* What sqlbox_step() promises about one prepared statement, without       *)
(* frames, buffers or a second process: the results of the present binding *)
(* come one at a time, in order, none missing and none twice, up to and    *)
(* including the entry that ends them; binding anew starts over; after a   *)
(* call has failed there are no more results (sqlbox_step(3)).             *)
(*                                                                         *)
(* A result is named by the binding it belongs to and by how many steps of *)
(* that binding it took to produce it.                                     *)
(***************************************************************************)
EXTENDS Naturals

VARIABLES
  run,    \* how many times the statement has been bound
  out,    \* the result returned last
  failed  \* a call of sqlbox_step has returned NULL

vars == <<run, out, failed>>

Result(g, n, last) == [run |-> g, n |-> n, last |-> last]
NoResult == Result(0, 0, FALSE)

Init ==
  /\ run = 1
  /\ out = NoResult
  /\ failed = FALSE

\* How many results of the present binding have been returned.
Given == IF out.run = run THEN out.n ELSE 0
Ended == out.run = run /\ out.last

\* sqlbox_step returns a row, or the entry without columns that ends them.
Step(last) ==
  /\ ~failed
  /\ ~Ended
  /\ out' = Result(run, Given + 1, last)
  /\ UNCHANGED <<run, failed>>

\* sqlbox_step returns NULL.
Fail ==
  /\ failed' = TRUE
  /\ UNCHANGED <<run, out>>

\* sqlbox_rebind succeeds.
Rebind ==
  /\ ~failed
  /\ run' = run + 1
  /\ UNCHANGED <<out, failed>>

Next == Step(TRUE) \/ Step(FALSE) \/ Fail \/ Rebind

Spec == Init /\ [][Next]_vars
=============================================================================
