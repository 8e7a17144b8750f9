------------------------------ MODULE BoxStep ------------------------------
(***************************************************************************)
(* One prepared statement from both ends of the socket: sqlbox_step and    *)
(* sqlbox_rebind in the client, sqlbox_op_step and sqlbox_op_rebind in the *)
(* server, the result sets each of them keeps (stmt->res) and the          *)
(* statement inside SQLite.                                                *)
(*                                                                         *)
(* A call of sqlbox_step returns a result the client already holds, or     *)
(* sends a request and waits for the frame that answers it.  sqlbox_rebind *)
(* only sends, so that any number of rebinds may be under way when the     *)
(* next step is asked for.  With SQLBOX_STMT_MULTI the server, once it has *)
(* answered, goes on stepping for the next request while the client is     *)
(* running again: the handler is split where its reply leaves.             *)
(*                                                                         *)
(* Each result has the name RowStream gives it: the binding that SQLite    *)
(* was running and how many steps it had made.  A permitted constraint     *)
(* violation ends the results as their end does and is not told apart.     *)
(***************************************************************************)
EXTENDS Naturals, SequencesExt

CONSTANTS
  MaxRows,      \* bound: rows a binding can have
  MaxRuns,      \* bound: bindings
  MaxPipe,      \* requests the socket holds before a writer blocks
  ClientMemory  \* FALSE if the client's allocations may fail in sqlbox_step

ASSUME BoundsAssumption ==
  /\ MaxRows \in Nat
  /\ MaxRuns \in Nat \ {0}
  /\ MaxPipe \in Nat \ {0}
  /\ ClientMemory \in BOOLEAN

VARIABLES
  run, out, failed,  \* the client: bindings sent, result returned last, a step failed
  call,              \* the client is "idle" or "reading" the reply of a step
  cset, curset,      \* the client's res.set and res.curset
  torn,              \* a frame was given up when part of it had been read
  c2s, s2c,          \* the two directions of the socket pair
  up,                \* the server has not closed its end
  pc,                \* the server is at "recv" or fetches ahead at "fetch"
  sbuf, sdone,       \* the server's res.buf and res.done
  multi,             \* SQLBOX_STMT_MULTI is among the statement's flags
  srun, pos, ended,  \* SQLite: binding, steps made, SQLITE_DONE was returned
  execs              \* SQLite: how often the statement was started since bound

clientvars == <<run, out, failed, call, cset, curset, torn>>
servervars == <<up, pc, sbuf, sdone, multi>>
sqlvars == <<srun, pos, ended, execs>>
vars == <<clientvars, c2s, s2c, servervars, sqlvars>>

RS == INSTANCE RowStream WITH run <- run, out <- out, failed <- failed

Results == [run : 0..MaxRuns, n : 0..(MaxRows + 1), last : BOOLEAN]

\* Requests.  Only a rebind carries something: the parameters of a binding.
Requests == [op : {"step", "rebind"}, run : 0..MaxRuns]
StepRequest == [op |-> "step", run |-> 0]
RebindRequest(g) == [op |-> "rebind", run |-> g]

\* sqlbox_parm_unpack leaves this when it finds no memory for the columns: an
\* entry that says it has columns and holds none.
Broken == [run |-> 0, n |-> 1, last |-> FALSE]

Init ==
  /\ RS!Init
  /\ call = "idle"
  /\ cset = <<>> /\ curset = 0 /\ torn = FALSE
  /\ c2s = <<>> /\ s2c = <<>>
  /\ up = TRUE
  /\ pc = "recv"
  /\ sbuf = <<>> /\ sdone = FALSE
  /\ multi \in BOOLEAN
  /\ srun = 1 /\ pos = 0 /\ ended = FALSE
  /\ execs = 0

-----------------------------------------------------------------------------
(* The client. *)

\* sqlbox_step: a result of the last reply is left.
StepCached ==
  /\ call = "idle"
  /\ curset < Len(cset)
  /\ out' = cset[curset + 1]
  /\ curset' = curset + 1
  /\ UNCHANGED <<run, failed, call, cset, torn, c2s, s2c, servervars, sqlvars>>

\* (Slip... are mistakes in the definition that follows, put in its place by the
\* checks; Next uses none of them.)  TypeOK: curset survives sqlbox_res_clear.
SlipStepSend ==
  /\ call = "idle"
  /\ curset = Len(cset)
  /\ up
  /\ cset' = <<>>
  /\ call' = "reading"
  /\ c2s' = Append(c2s, StepRequest)
  /\ UNCHANGED <<curset, run, out, failed, torn, s2c, servervars, sqlvars>>

\* sqlbox_step: none is left, so ask.  Writing fails once the server has
\* closed its end.
StepSend ==
  /\ call = "idle"
  /\ curset = Len(cset)
  /\ Len(c2s) < MaxPipe
  /\ cset' = <<>> /\ curset' = 0
  /\ IF up THEN call' = "reading" /\ c2s' = Append(c2s, StepRequest) /\ UNCHANGED failed
           ELSE failed' = TRUE /\ UNCHANGED <<call, c2s>>
  /\ UNCHANGED <<run, out, torn, s2c, servervars, sqlvars>>

\* sqlbox_step: the whole reply is taken apart, then its first result returned.
StepRead ==
  /\ call = "reading"
  /\ s2c # <<>> /\ ~torn
  /\ s2c' = Tail(s2c)
  /\ cset' = Head(s2c) /\ curset' = 1
  /\ out' = Head(Head(s2c))
  /\ call' = "idle"
  /\ UNCHANGED <<run, failed, torn, c2s, servervars, sqlvars>>

\* The server is gone and has left no reply.
StepHangup ==
  /\ call = "reading"
  /\ s2c = <<>> /\ ~up
  /\ call' = "idle"
  /\ failed' = TRUE
  /\ UNCHANGED <<run, out, cset, curset, torn, c2s, s2c, servervars, sqlvars>>

\* A call that waits fails for want of memory.
Fails ==
  /\ ~ClientMemory
  /\ call = "reading" /\ call' = "idle"
  /\ failed' = TRUE
  /\ UNCHANGED <<run, out, c2s, servervars, sqlvars>>

\* There is none for the buffer, which the code allocates once and keeps: the
\* reply, here or still to come, stays whole.
StepNoBuffer == Fails /\ UNCHANGED <<cset, curset, torn, s2c>>

\* There is none for the rest of a frame longer than its basis.  The basis has
\* been read by then and is lost, and the rest stays in the socket.
StepTear ==
  /\ Fails
  /\ s2c # <<>>
  /\ torn' = TRUE
  /\ UNCHANGED <<cset, curset, s2c>>

\* There is none for the result set, which keeps what was taken apart so far.
StepNoResults ==
  /\ Fails
  /\ s2c # <<>> /\ ~torn
  /\ s2c' = Tail(s2c)
  /\ curset' = 0
  /\ \E k \in 0..(Len(Head(s2c)) - 1) :
       LET kept == SubSeq(Head(s2c), 1, k)
       IN cset' = kept \/ cset' = Append(kept, Broken)
  /\ UNCHANGED torn

StepNoMemory == StepNoBuffer \/ StepTear \/ StepNoResults

(***************************************************************************)
(* Behind a torn frame sqlbox_step reads what is left as if a frame began  *)
(* there, with any bytes of a row for its length.  It reads what is there  *)
(* or part of it and waits for more, or fails, or returns whatever results *)
(* the bytes make; one stands for all of them.                             *)
(***************************************************************************)
StepGarbled ==
  /\ call = "reading"
  /\ torn
  /\ s2c # <<>>
  /\ \E k \in 0..Len(s2c) : s2c' = SubSeq(s2c, k + 1, Len(s2c))
  /\ \/ UNCHANGED <<out, failed, call, cset, curset>>
     \/ /\ call' = "idle" /\ failed' = TRUE
        /\ \E r \in Results : cset' \in {<<>>, <<r>>}
        /\ UNCHANGED <<out, curset>>
     \/ /\ call' = "idle"
        /\ \E r \in Results : out' = r /\ cset' = <<r>>
        /\ curset' = 1
        /\ UNCHANGED failed
  /\ UNCHANGED <<run, torn, c2s, servervars, sqlvars>>

\* ImplementsRowStream: the client keeps the results of the old binding.
SlipRebind ==
  /\ call = "idle"
  /\ up
  /\ run < MaxRuns
  /\ Len(c2s) < MaxPipe
  /\ run' = run + 1
  /\ c2s' = Append(c2s, RebindRequest(run'))
  /\ UNCHANGED <<out, failed, call, cset, curset, torn, s2c, servervars, sqlvars>>

\* sqlbox_rebind.  If it cannot write nothing has changed.
Rebind ==
  /\ call = "idle"
  /\ up
  /\ run < MaxRuns
  /\ Len(c2s) < MaxPipe
  /\ run' = run + 1
  /\ c2s' = Append(c2s, RebindRequest(run'))
  /\ cset' = <<>> /\ curset' = 0
  /\ UNCHANGED <<out, failed, call, torn, s2c, servervars, sqlvars>>

-----------------------------------------------------------------------------
(* SQLite. *)

(***************************************************************************)
(* sqlite3_step, answering SQLITE_ROW or, with "last", SQLITE_DONE or an   *)
(* accepted SQLITE_CONSTRAINT.  A statement that has ended is reset by     *)
(* itself and runs again from its start.                                   *)
(***************************************************************************)
SqlStep(last) ==
  /\ pos' = IF ended THEN 1 ELSE pos + 1
  /\ pos' <= MaxRows \/ last
  /\ ended' = last
  /\ execs' = IF ended \/ pos = 0 THEN execs + 1 ELSE execs
  /\ UNCHANGED srun

\* The result it makes, serialised by sqlbox_pack_step.
Stepped == [run |-> srun', n |-> pos', last |-> ended']

-----------------------------------------------------------------------------
(* The server. *)

Requested(op) ==
  /\ up
  /\ pc = "recv"
  /\ c2s # <<>>
  /\ Head(c2s).op = op

Receive == c2s' = Tail(c2s)

\* NeverTwice: the buffer is not emptied when it has been sent.
SlipOpStepBuffered ==
  /\ Requested("step")
  /\ Receive
  /\ sbuf # <<>>
  /\ s2c' = Append(s2c, sbuf)
  /\ pc' = IF sdone THEN "recv" ELSE "fetch"
  /\ UNCHANGED <<clientvars, up, sbuf, sdone, multi, sqlvars>>

\* sqlbox_op_step: what was fetched ahead is the answer.
OpStepBuffered ==
  /\ Requested("step")
  /\ Receive
  /\ sbuf # <<>>
  /\ s2c' = Append(s2c, sbuf)
  /\ sbuf' = <<>>
  /\ pc' = IF sdone THEN "recv" ELSE "fetch"
  /\ UNCHANGED <<clientvars, up, sdone, multi, sqlvars>>

\* RunsOnce: sqlbox_res_clear takes the end mark with it.
SlipOpStepSingle ==
  /\ Requested("step")
  /\ Receive
  /\ sbuf = <<>>
  /\ ~sdone
  /\ \E last \in BOOLEAN : SqlStep(last)
  /\ s2c' = Append(s2c, <<Stepped>>)
  /\ pc' = IF multi /\ ~ended' THEN "fetch" ELSE "recv"
  /\ UNCHANGED <<clientvars, up, sbuf, sdone, multi>>

\* sqlbox_op_step: nothing was, so step once and answer with that.
OpStepSingle ==
  /\ Requested("step")
  /\ Receive
  /\ sbuf = <<>>
  /\ ~sdone
  /\ \E last \in BOOLEAN : SqlStep(last)
  /\ s2c' = Append(s2c, <<Stepped>>)
  /\ sdone' = ended'
  /\ pc' = IF multi /\ ~sdone' THEN "fetch" ELSE "recv"
  /\ UNCHANGED <<clientvars, up, sbuf, multi>>

(***************************************************************************)
(* sqlbox_op_step, after the answer: step on for the next request, until   *)
(* the results end or SQLBOX_CACHE_MAX bytes are packed.  A row may be of  *)
(* any size, so the buffer may be full after any row.                      *)
(***************************************************************************)
Fetch ==
  /\ up
  /\ pc = "fetch"
  /\ \E last \in BOOLEAN : SqlStep(last)
  /\ sbuf' = Append(sbuf, Stepped)
  /\ sdone' = ended'
  /\ pc' \in IF sdone' THEN {"recv"} ELSE {"fetch", "recv"}
  /\ UNCHANGED <<clientvars, c2s, s2c, up, multi>>

\* NoStrayReply: a rebind is answered.
SlipOpRebind ==
  /\ Requested("rebind")
  /\ Receive
  /\ srun' = Head(c2s).run /\ pos' = 0 /\ ended' = FALSE /\ execs' = 0
  /\ sbuf' = <<>> /\ sdone' = FALSE
  /\ s2c' = Append(s2c, <<Stepped>>)
  /\ UNCHANGED <<clientvars, up, pc, multi>>

\* sqlbox_op_rebind: sqlite3_reset, new parameters, sqlbox_res_clear.
OpRebind ==
  /\ Requested("rebind")
  /\ Receive
  /\ srun' = Head(c2s).run /\ pos' = 0 /\ ended' = FALSE /\ execs' = 0
  /\ sbuf' = <<>> /\ sdone' = FALSE
  /\ UNCHANGED <<clientvars, s2c, up, pc, multi>>

\* The server closes its end.  Requests it has not read are discarded, the
\* replies it has written stay readable.
Shutdown ==
  /\ up' = FALSE
  /\ c2s' = <<>>
  /\ UNCHANGED <<clientvars, s2c, pc, sbuf, sdone, multi, sqlvars>>

\* StepReturns: a step past the end is ignored.
SlipOpStepPastEnd ==
  /\ Requested("step")
  /\ Receive
  /\ sbuf = <<>>
  /\ sdone
  /\ UNCHANGED <<clientvars, s2c, servervars, sqlvars>>

\* sqlbox_op_step: "already stepped" to the end.
OpStepPastEnd ==
  /\ Requested("step")
  /\ sbuf = <<>>
  /\ sdone
  /\ Shutdown

\* Any handler may fail at any point (memory, SQLite, a filter), and so may a
\* request about another statement of the box.
Die == up /\ Shutdown

Client ==
  \/ StepCached \/ StepSend \/ StepRead \/ StepHangup
  \/ StepNoMemory \/ StepGarbled \/ Rebind
Server == OpStepBuffered \/ OpStepSingle \/ Fetch \/ OpRebind \/ OpStepPastEnd

Next == Client \/ Server \/ Die

(***************************************************************************)
(* The server runs while there is something to do, and a client that waits *)
(* in sqlbox_read_frame is woken by a frame or a hangup.  Nobody has to    *)
(* call again, nor to run out of memory, and what wakes a client behind a  *)
(* torn frame need not be enough for it.                                   *)
(***************************************************************************)
Reading == StepRead \/ StepHangup
Spec == Init /\ [][Next]_vars /\ WF_vars(Server) /\ WF_vars(Reading)

-----------------------------------------------------------------------------
(* What the two ends promise together. *)

\* The variables hold what the structures hold; curset never passes setsz, and
\* the handler's own assertions hold (step.c: "assert(!st->res.done)").
TypeOK ==
  /\ run \in 1..MaxRuns /\ out \in Results /\ failed \in BOOLEAN
  /\ call \in {"idle", "reading"}
  /\ cset \in Seq(Results) /\ curset \in 0..Len(cset) /\ torn \in BOOLEAN
  /\ c2s \in Seq(Requests)
  /\ s2c \in Seq(Seq(Results))
  /\ up \in BOOLEAN /\ pc \in {"recv", "fetch"}
  /\ sbuf \in Seq(Results) /\ sdone \in BOOLEAN /\ multi \in BOOLEAN
  /\ srun \in 1..MaxRuns /\ pos \in 0..(MaxRows + 1) /\ ended \in BOOLEAN
  /\ execs \in Nat
  /\ pc = "fetch" => ~sdone /\ multi

\* The client sees the plain stream of RowStream: whatever is buffered where,
\* results come in order, none lost, repeated or from an earlier binding.
ImplementsRowStream == RS!Spec

\* A statement is started at most once for each binding, although SQLite would
\* start it again when stepped past its end: an INSERT is not done twice.
RunsOnce == execs <= 1

\* A reply is never left over for the next call to take for its own.
NoStrayReply ==
  /\ call = "idle" => s2c = <<>>
  /\ Len(s2c) <= 1
  /\ \A i \in DOMAIN c2s : c2s[i].op = "step" => i = Len(c2s) /\ call = "reading" /\ s2c = <<>>

\* Whatever the client has lost for want of memory, no result comes twice or
\* after a later one, as long as no frame was torn.
NeverTwice ==
  [][out' # out /\ out # Broken /\ out' # Broken =>
       \/ torn
       \/ out'.run > out.run
       \/ out'.run = out.run /\ out'.n > out.n]_vars

\* Every call of sqlbox_step returns, as long as no frame was torn.
StepReturns == call = "reading" ~> call = "idle" \/ torn

=============================================================================
