-------------------------------- MODULE Box --------------------------------
(***************************************************************************)
(* The calls of a client and the process that serves them, seen from the   *)
(* two queues of statements.  Each side keeps its own: the server's holds  *)
(* the prepared statements, the client's their result sets.  Nothing but   *)
(* the order of the requests keeps the two in step, and each side resolves *)
(* an identifier by itself: the client when the call is made, the server   *)
(* when the request arrives, with others still in the pipe between them.   *)
(*                                                                         *)
(* A call that needs an answer writes its request and waits; the others    *)
(* only write.  What the requests do apart from the queues is the business *)
(* of BoxServer (the handlers) and BoxStep (the rows).  Here a handler     *)
(* that fails is a server that stops, which it may do at any time.         *)
(*                                                                         *)
(* Both directions of the socket hold so much and no more: a writer that   *)
(* finds no room waits.  The answers differ in length: one word for an     *)
(* acknowledgement, two for a row identifier, a frame for a step.  As long *)
(* as nobody is interrupted each call reads the length it is sent.  After  *)
(* that a call may find the rest of an answer that was not its own.        *)
(*                                                                         *)
(* Requests carry, beside what is on the wire, two numbers the program     *)
(* does not have: their own, and that of the call that prepared the        *)
(* statement the client means.                                             *)
(***************************************************************************)
EXTENDS Naturals, SequencesExt

CONSTANTS
  MaxCalls,  \* bound: calls that reach the socket
  MaxPipe,   \* requests, or answers, the socket holds before a writer blocks
  Basis,     \* words of the smallest frame (256)
  Longest,   \* bound: words of the longest frame
  Wire,      \* identifiers are sent modulo this (2^32)
  Unheld,    \* TRUE if the caller may name statements it does not hold
  Cuts       \* bound: calls that are cut short

ASSUME BoxAssumption ==
  /\ MaxCalls \in Nat
  /\ MaxPipe \in Nat \ {0}
  /\ Basis \in Nat /\ Longest \in Nat /\ 2 < Basis /\ Basis <= Longest
  /\ Wire \in Nat \ {0}
  /\ Unheld \in BOOLEAN
  /\ Cuts \in Nat

VARIABLES
  cq,       \* the client's queue of statements
  call,     \* what the client waits for, or Idle
  sent,     \* requests written
  failed,   \* a call has failed
  freed,    \* sqlbox_free has been called
  cut,      \* calls that were cut short before they had their answers
  stuck,    \* a call waits for room to write its request
  c2s, s2c, \* the two directions of the socket pair
  up,       \* the server has not closed its end
  failing,  \* a handler failed, or the server was killed
  sq,       \* the server's queue of statements
  lastid,   \* the identifier given last, to statements and databases alike
  handled   \* requests handled

clientvars == <<cq, call, sent, failed, freed, cut, stuck>>
servervars == <<up, failing, sq, lastid, handled>>
vars == <<clientvars, c2s, s2c, servervars>>

Statement == [id : Nat, key : 1..MaxCalls]
Synchronous == {"prepare", "step", "lastid", "ask"}
Operations == Synchronous \cup {"prepare_async", "final", "rebind", "tell"}
Idle == [op |-> "idle", no |-> 0, key |-> 0, due |-> 0]

\* How many words a call reads, to begin with.
Wants(op) == CASE op = "step" -> Basis [] op = "lastid" -> 2 [] OTHER -> 1

\* sqlbox_stmt_find: where the statement is in a queue, 0 if it is not there.
Find(q, id) ==
  IF id = 0 THEN Len(q) ELSE SelectInSeq(q, LAMBDA st : st.id = id)

Init ==
  /\ cq = <<>> /\ call = Idle /\ sent = 0
  /\ failed = FALSE /\ freed = FALSE /\ cut = 0 /\ stuck = FALSE
  /\ c2s = <<>> /\ s2c = <<>>
  /\ up = TRUE /\ failing = FALSE
  /\ sq = <<>> /\ lastid = 0 /\ handled = 0

-----------------------------------------------------------------------------
(* The client. *)

Calling == call = Idle /\ ~freed

\* (Slip... are mistakes in the definition that follows, as in BoxStep.)
\* A request about the statement that was prepared by call number key.  A call
\* that waits for the answer notes what it asked.
Write(op, id, key) ==
  /\ up
  /\ Len(c2s) < MaxPipe
  /\ sent < MaxCalls
  /\ sent' = sent + 1
  /\ c2s' = Append(c2s, [op |-> op, id |-> id, key |-> key, no |-> sent'])
  /\ stuck' = FALSE
  /\ call' = IF op \in Synchronous
               THEN [op |-> op, no |-> sent', key |-> key, due |-> Wants(op)] ELSE Idle

\* sqlbox_write polls until the socket takes more.  Which request it was is
\* only seen when it goes through.
WriteBlocks ==
  /\ Calling /\ ~stuck
  /\ up
  /\ Len(c2s) = MaxPipe
  /\ sent < MaxCalls
  /\ stuck' = TRUE
  /\ UNCHANGED <<cq, call, sent, failed, freed, cut, c2s, s2c, servervars>>

\* sqlbox_prepare_bind: the statement is queued when its identifier is known.
Prepare ==
  /\ Calling
  /\ Write("prepare", 0, sent + 1)
  /\ UNCHANGED <<cq, failed, freed, cut, s2c, servervars>>

\* SameStatement: queued at the head.
SlipPrepareAsync ==
  /\ Calling
  /\ Write("prepare_async", 0, sent + 1)
  /\ cq' = <<[id |-> 0, key |-> sent + 1]>> \o cq
  /\ UNCHANGED <<failed, freed, cut, s2c, servervars>>

\* sqlbox_prepare_bind_async: queued at once, without an identifier.
PrepareAsync ==
  /\ Calling
  /\ Write("prepare_async", 0, sent + 1)
  /\ cq' = Append(cq, [id |-> 0, key |-> sent + 1])
  /\ UNCHANGED <<failed, freed, cut, s2c, servervars>>

\* QueuesMirror: the client keeps its own.
SlipFinalise(id) ==
  LET i == Find(cq, id) IN
  /\ Calling
  /\ i # 0
  /\ Write("final", id, cq[i].key)
  /\ UNCHANGED <<cq, failed, freed, cut, s2c, servervars>>

\* sqlbox_finalise: the client's own statement goes first.
Finalise(id) ==
  LET i == Find(cq, id) IN
  /\ Calling
  /\ i # 0
  /\ Write("final", id, cq[i].key)
  /\ cq' = RemoveAt(cq, i)
  /\ UNCHANGED <<failed, freed, cut, s2c, servervars>>

\* sqlbox_rebind and (when its result set is used up) sqlbox_step.
Use(op, id) ==
  LET i == Find(cq, id) IN
  /\ Calling
  /\ i # 0
  /\ Write(op, id, cq[i].key)
  /\ UNCHANGED <<cq, failed, freed, cut, s2c, servervars>>

\* Every other call: sqlbox_lastid, ask for those that wait for one word
\* (sqlbox_open, sqlbox_exec, sqlbox_ping), tell for those that do not wait.
Other(op) ==
  /\ Calling
  /\ Write(op, 0, 0)
  /\ UNCHANGED <<cq, failed, freed, cut, s2c, servervars>>

\* sqlbox_finalise, sqlbox_rebind and sqlbox_step without such a statement.
NotHeld(id) ==
  /\ Unheld
  /\ Calling /\ ~stuck
  /\ Find(cq, id) = 0
  /\ failed' = TRUE
  /\ UNCHANGED <<cq, call, sent, freed, cut, stuck, c2s, s2c, servervars>>

\* sqlbox_write fails once the server has closed its end; sqlbox_finalise has
\* let go of the statement by then.
NotWritten ==
  /\ Calling
  /\ ~up
  /\ failed' = TRUE /\ stuck' = FALSE
  /\ cq' \in {cq} \cup {RemoveAt(cq, Find(cq, id)) : id \in {k \in 0..MaxCalls : Find(cq, k) # 0}}
  /\ UNCHANGED <<call, sent, freed, cut, c2s, s2c, servervars>>

\* sqlbox_read_frame takes what there is, hangup or not; sqlbox_read does not
\* look at an answer once the other end is closed.
Readable == s2c # <<>> /\ (call.op = "step" \/ up)

\* What comes next is a whole answer of the length that the call reads.
Fits ==
  LET answer == Head(s2c) IN
  /\ answer.left = answer.size
  /\ call.due = Wants(call.op)
  /\ IF call.op = "step" THEN answer.size >= Basis ELSE answer.size = call.due

\* The first n words of the answer that comes next have been read.
Consumed(n) ==
  IF n = Head(s2c).left THEN Tail(s2c) ELSE [s2c EXCEPT ![1].left = @ - n]

\* The call ends with an answer, or takes it for a failure.
Returns(id, bad) ==
  /\ call' = Idle
  /\ failed' = (failed \/ bad)
  /\ cq' = IF call.op = "prepare" /\ ~bad
             THEN Append(cq, [id |-> id, key |-> call.key]) ELSE cq

\* An answer comes back.  An identifier of zero is a failure; so may be what
\* was sent to another call.
Answered ==
  /\ call # Idle
  /\ Readable /\ Fits
  /\ s2c' = Tail(s2c)
  /\ LET id == Head(s2c).id % Wire IN
     \E bad \in BOOLEAN :
       /\ IF call.op = "prepare" THEN bad = (id = 0)
            ELSE bad => call.op = "ask" /\ Head(s2c).no # call.no
       /\ Returns(id, bad)
  /\ UNCHANGED <<sent, freed, cut, stuck, c2s, servervars>>

\* What comes next has another length, or its beginning was read by a call
\* that was interrupted.  The call reads as many words as it wants and takes
\* them for anything, a step for the length of a frame with more to come.
Misread ==
  /\ call # Idle
  /\ Readable /\ ~Fits
  /\ \/ /\ call.due > Head(s2c).left
        /\ s2c' = Tail(s2c)
        /\ call' = [call EXCEPT !.due = @ - Head(s2c).left]
        /\ UNCHANGED <<cq, failed>>
     \/ /\ call.due <= Head(s2c).left
        /\ s2c' = Consumed(call.due)
        /\ \/ /\ call.op = "step"
              /\ call' = [call EXCEPT !.due = 1]
              /\ UNCHANGED <<cq, failed>>
           \/ \E id \in 0..MaxCalls, bad \in BOOLEAN :
                /\ call.op = "prepare" => bad = (id = 0)
                /\ Returns(id, bad)
  /\ UNCHANGED <<sent, freed, cut, stuck, c2s, servervars>>

\* The other end is closed and no answer will be read.
Hangup ==
  /\ call # Idle
  /\ ~up /\ ~Readable
  /\ call' = Idle
  /\ failed' = TRUE
  /\ UNCHANGED <<cq, sent, freed, cut, stuck, c2s, s2c, servervars>>

\* A signal interrupts poll, which the code takes for a failure, or there is
\* no memory for the frame: nothing has been read of the answer or a part.
Interrupted ==
  /\ cut < Cuts
  /\ call # Idle
  /\ \/ UNCHANGED s2c
     \/ /\ Readable
        /\ \E n \in 1..Head(s2c).left :
             /\ call.op = "step" \/ n < call.due
             /\ s2c' = Consumed(n)
  /\ call' = Idle
  /\ failed' = TRUE /\ cut' = cut + 1
  /\ UNCHANGED <<cq, sent, freed, stuck, c2s, servervars>>

\* sqlbox_free closes the client's end.
Free ==
  /\ Calling /\ ~stuck
  /\ freed' = TRUE
  /\ UNCHANGED <<cq, call, sent, failed, cut, stuck, c2s, s2c, servervars>>

\* A request is written.
Writes ==
  \/ Prepare \/ PrepareAsync
  \/ \E id \in 0..MaxCalls : Finalise(id) \/ Use("rebind", id) \/ Use("step", id)
  \/ Other("lastid") \/ Other("ask") \/ Other("tell")

\* A call that waits goes on.
Resumes == stuck /\ (Writes \/ NotWritten)
Reads == Answered \/ Misread \/ Hangup

Client ==
  \/ Writes \/ WriteBlocks \/ NotWritten
  \/ \E id \in 0..MaxCalls : NotHeld(id)
  \/ Reads \/ Interrupted \/ Free

-----------------------------------------------------------------------------
(* The server. *)

Handle(ops) ==
  /\ up
  /\ c2s # <<>>
  /\ Head(c2s).op \in ops
  /\ c2s' = Tail(c2s)
  /\ handled' = handled + 1

\* An answer of so many words, with what the first says and the number of its
\* request.  The write waits for room and fails when the client has gone.
Reply(id, key, size) ==
  /\ ~freed
  /\ Len(s2c) < MaxPipe
  /\ s2c' = Append(s2c, [no |-> Head(c2s).no, id |-> id, key |-> key,
                          size |-> size, left |-> size])

\* AnswerIsMine: always answered.
SlipOpPrepare ==
  /\ Handle({"prepare", "prepare_async"})
  /\ lastid' = lastid + 1
  /\ sq' = Append(sq, [id |-> lastid', key |-> Head(c2s).no])
  /\ Reply(lastid', Head(c2s).no, 1)
  /\ UNCHANGED <<clientvars, up, failing>>

\* sqlbox_op_prepare_bind, answered or not.
OpPrepare ==
  /\ Handle({"prepare", "prepare_async"})
  /\ lastid' = lastid + 1
  /\ sq' = Append(sq, [id |-> lastid', key |-> Head(c2s).no])
  /\ IF Head(c2s).op = "prepare" THEN Reply(lastid', Head(c2s).no, 1) ELSE UNCHANGED s2c
  /\ UNCHANGED <<clientvars, up, failing>>

\* sqlbox_op_finalise.
OpFinalise ==
  LET i == Find(sq, Head(c2s).id) IN
  /\ Handle({"final"})
  /\ i # 0
  /\ sq' = RemoveAt(sq, i)
  /\ UNCHANGED <<clientvars, s2c, up, failing, lastid>>

\* sqlbox_op_rebind, sqlbox_op_step.
OpUse ==
  LET i == Find(sq, Head(c2s).id) IN
  /\ Handle({"rebind", "step"})
  /\ i # 0
  /\ IF Head(c2s).op = "step"
       THEN \E size \in Basis..Longest : Reply(0, sq[i].key, size) ELSE UNCHANGED s2c
  /\ UNCHANGED <<clientvars, up, failing, sq, lastid>>

\* CallsReturn: opening a database is not answered.
SlipOpOther ==
  /\ Handle({"ask", "tell"})
  /\ lastid' \in {lastid, lastid + 1}
  /\ IF Head(c2s).op = "ask" /\ lastid' = lastid THEN Reply(0, 0, 1) ELSE UNCHANGED s2c
  /\ UNCHANGED <<clientvars, up, failing, sq>>

\* sqlbox_op_lastid.
OpLastid ==
  /\ Handle({"lastid"})
  /\ Reply(0, 0, 2)
  /\ UNCHANGED <<clientvars, up, failing, sq, lastid>>

\* The other handlers; to open a database takes an identifier, which is the
\* answer, the others answer what they like.
OpOther ==
  /\ Handle({"ask", "tell"})
  /\ lastid' \in {lastid, lastid + 1}
  /\ IF Head(c2s).op = "ask"
       THEN \E id \in {lastid'} \cup {k \in {0, 1} : lastid' = lastid} : Reply(id, 0, 1)
       ELSE UNCHANGED s2c
  /\ UNCHANGED <<clientvars, up, failing, sq>>

\* The main loop ends: both directions close, what has been written to the
\* client stays readable.
Stop ==
  /\ up' = FALSE
  /\ c2s' = <<>>
  /\ UNCHANGED <<clientvars, s2c, sq, lastid, handled>>

\* NothingDropped: the hangup is seen before the requests.
SlipEndOfFile ==
  /\ up /\ freed
  /\ Stop
  /\ UNCHANGED failing

\* ServerEnds: the server stays for the statements that are left.
SlipEndOfFileLater ==
  /\ up /\ freed
  /\ c2s = <<>> /\ sq = <<>>
  /\ Stop
  /\ UNCHANGED failing

\* The client's end is closed and every request has been read.
EndOfFile ==
  /\ up /\ freed
  /\ c2s = <<>>
  /\ Stop
  /\ UNCHANGED failing

\* A handler fails, also after it has replied (sqlbox_op_step does go on), or
\* the process is killed.
Die ==
  /\ up
  /\ Stop
  /\ failing' = TRUE

\* The request names a statement that the server does not have.
OpNotFound ==
  /\ up /\ c2s # <<>>
  /\ Head(c2s).op \in {"final", "rebind", "step"}
  /\ Find(sq, Head(c2s).id) = 0
  /\ Stop
  /\ failing' = TRUE

\* The answer cannot be written, for the client has gone.
OpNotWritten ==
  /\ up /\ freed
  /\ c2s # <<>>
  /\ Head(c2s).op \in Synchronous
  /\ Stop
  /\ failing' = TRUE

Server ==
  \/ OpPrepare \/ OpFinalise \/ OpUse \/ OpLastid \/ OpOther
  \/ OpNotFound \/ OpNotWritten \/ EndOfFile

\* Both processes are done.
Over == freed /\ ~up /\ UNCHANGED vars

Next == Client \/ Server \/ Die \/ Over

\* The server goes on while there is something to read and room to answer; a
\* client that waits is woken by an answer, by room or by a hangup.  Nobody has
\* to make a call.
Spec ==
  /\ Init /\ [][Next]_vars
  /\ WF_vars(Server) /\ WF_vars(Reads) /\ WF_vars(Resumes)

-----------------------------------------------------------------------------
(* What keeps the two ends in step. *)

\* The socket holds what it takes, and what is held was prepared.
TypeOK ==
  /\ cq \in Seq(Statement) /\ sq \in Seq(Statement)
  /\ call \in [op : Synchronous \cup {"idle"}, no : 0..sent, key : 0..sent, due : 0..Basis]
  /\ sent \in 0..MaxCalls /\ handled \in 0..sent
  /\ c2s \in Seq([op : Operations, id : 0..MaxCalls, key : 0..sent, no : 1..sent])
  /\ s2c \in Seq([no : 1..sent, id : 0..MaxCalls, key : 0..sent,
                  size : 1..Longest, left : 1..Longest])
  /\ Len(c2s) <= MaxPipe /\ Len(s2c) <= MaxPipe
  /\ lastid \in 0..handled
  /\ cut \in 0..Cuts
  /\ {failed, freed, stuck, up, failing} \subseteq BOOLEAN

\* No call has been cut short, and the wire tells all identifiers apart.
Sound == cut = 0 /\ lastid < Wire

\* A request finds the statement that its caller meant, however many requests
\* were in the pipe before it when each side looked, until a call is cut short
\* (its answer then comes to a client that no longer waits for it) or the
\* identifiers outgrow the wire.
SameStatement ==
  Sound /\ up /\ c2s # <<>> /\ Head(c2s).op \in {"final", "rebind", "step"} =>
    LET i == Find(sq, Head(c2s).id) IN i # 0 /\ sq[i].key = Head(c2s).key

\* When nothing is under way the two queues hold the same statements in the
\* same order, and what identifiers the client knows are the server's, for as
\* long.
QueuesMirror ==
  Sound /\ up /\ c2s = <<>> /\ call = Idle =>
    /\ Len(cq) = Len(sq)
    /\ \A i \in DOMAIN cq : cq[i].key = sq[i].key /\ cq[i].id \in {0, sq[i].id}

\* The answer a call reads is the answer to its own request and has the length
\* the call reads, and a step is answered by the statement that was meant, for
\* as long.
AnswerIsMine ==
  Sound /\ call # Idle /\ Readable =>
    /\ Head(s2c).no = call.no
    /\ Fits
    /\ call.op \in {"prepare", "step"} => Head(s2c).key = call.key

\* Requests nobody waits for are carried out although the client has gone, as
\* long as none fails.
NothingDropped == ~up /\ ~failing => handled = sent

\* Every call returns, also one that has to wait for room, unless a call is cut
\* short: the next may then read the rest of an answer for the length of
\* another, and wait for ever.
CallsReturn == (call # Idle \/ stuck) ~> ((call = Idle /\ ~stuck) \/ cut > 0)

\* The server ends after sqlbox_free.
ServerEnds == freed ~> ~up

\* sqlbox_prepare_bind(3): if it "fails, box is no longer accessible".  No call of
\* it comes back with a statement after one has failed.
FailureIsFinal == [][failed /\ call.op = "prepare" => cq' = cq]_vars

=============================================================================
