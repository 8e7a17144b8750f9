------------------------------- MODULE Regress -------------------------------
(***************************************************************************)
(* The regression tests run against the model of the server.  One test is  *)
(* chosen, its client makes its calls one after the other, and the server  *)
(* (an instance of BoxServer with the test's configuration) handles the    *)
(* requests in its own time: everything between two calls that wait for an *)
(* answer may happen in any order the socket allows, where the test on a   *)
(* machine sees one order only.                                            *)
(*                                                                         *)
(* The tests run without faults: the server fails a request only where its *)
(* handler can do nothing else, or where SQLite reports an error.  SQLite  *)
(* is external: enough of tables, constraints and transactions to say what *)
(* the tests' statements answer.                                           *)
(***************************************************************************)
EXTENDS RegressTests, SequencesExt, FiniteSets, TLC

CONSTANTS MaxId, MaxTrans

VARIABLES
  test,     \* the test that runs
  pc,       \* its next call, 0 before the box is allocated
  waiting,  \* the call before has been written and waits for its answer
  passing,  \* every call has had the outcome its test insists on
  freed,    \* sqlbox_free has closed the client's end
  held,     \* the identifiers the test has been given
  cq,       \* the client's statements: identifier and results not yet returned
  pipe,     \* requests written and not yet read
  answer,   \* the answer on its way, <<>> if there is none
  phase, role, lastid, dbq, stmtq, db, stmt, conn, handle,  \* BoxServer
  table,    \* SQLite: the table of each connection
  cursor,   \* SQLite: rows a statement has returned since it was bound
  bound,    \* SQLite: the values bound to a statement
  ahead,    \* st->res: results fetched ahead of the client's request
  parent, sinks, starts, perms, genpc, i, idx, room, roles, granted  \* RoleHier

clientvars == <<test, pc, waiting, passing, freed, held, cq>>
servervars == <<phase, role, lastid, dbq, stmtq, db, stmt, conn, handle>>
sqlvars == <<table, cursor, bound, ahead>>
boxvars == <<clientvars, pipe, answer, servervars, sqlvars>>
hiervars == <<parent, sinks, starts, perms, genpc, i, idx, room, roles, granted>>
vars == <<boxvars, hiervars>>

Ids == 1..MaxId
NoTable == [made |-> FALSE, rule |-> "none", rows |-> <<>>, saved |-> <<>>, key |-> "0"]

\* Sources, statements and roles are numbered from 0.
Indices(seq) == {k - 1 : k \in DOMAIN seq}

Box(t) == INSTANCE BoxServer WITH
  Sources <- Indices(t.srcs), Pstmts <- Indices(t.stmts),
  Roles <- t.roles.names, DefRole <- t.def,
  RoleSrcs <- t.roles.srcs, RoleStmts <- t.roles.stmts,
  RoleNext <- t.roles.next, OrRollback <- {}, None <- Bad

Hier(t) == INSTANCE RoleHier WITH
  N <- t.hier, Perms <- [stmts |-> {1, 2}, srcs |-> {}], pc <- genpc

Init ==
  /\ test \in DOMAIN Tests
  /\ pc = 0 /\ waiting = FALSE /\ passing = TRUE /\ freed = FALSE
  /\ held = <<>> /\ cq = <<>>
  /\ pipe = <<>> /\ answer = <<>>
  /\ phase = "serve" /\ role = Tests[test].def /\ lastid = 0 /\ dbq = <<>> /\ stmtq = <<>>
  /\ db = [d \in Ids |-> [idx |-> Bad, trans |-> 0, stmtq |-> {}]]
  /\ stmt = [s \in Ids |-> [idx |-> Bad, db |-> 0, flags |-> {}, res |-> "fresh"]]
  /\ conn = [d \in Ids |-> "none"] /\ handle = [s \in Ids |-> 0]
  /\ table = [d \in Ids |-> NoTable]
  /\ cursor = [s \in Ids |-> 0] /\ bound = [s \in Ids |-> <<>>]
  /\ ahead = [s \in Ids |-> <<>>]
  /\ \E t \in {Tests[test]} : Hier(t)!Init

-----------------------------------------------------------------------------
(* sqlbox_alloc. *)

\* sqlbox_cfg_vrfy: what is named exists, and what must be there is there.
CfgVrfy(t) ==
  /\ "null" \notin ToSet(t.srcs)
  /\ \A s \in ToSet(t.stmts) : s.does \notin {"null", "empty"}
  /\ t.def # 0 => t.def \in t.roles.names
  /\ \A r \in t.roles.names :
       /\ t.roles.next[r] \subseteq t.roles.names
       /\ t.roles.stmts[r] \subseteq Indices(t.stmts)
       /\ t.roles.srcs[r] \subseteq Indices(t.srcs)
  /\ t.filts \subseteq Indices(t.stmts)

\* The test wants a box, or wants to be refused one, and then no server starts.
Alloc(t) ==
  /\ t.hier = 0 /\ pc = 0
  /\ pc' = 1
  /\ passing' = (CfgVrfy(t) = t.box)
  /\ freed' = ~CfgVrfy(t)
  /\ phase' = IF CfgVrfy(t) THEN "serve" ELSE "exited"
  /\ UNCHANGED <<test, waiting, held, cq, pipe, answer,
                 role, lastid, dbq, stmtq, db, stmt, conn, handle, sqlvars>>

-----------------------------------------------------------------------------
(* The client. *)

\* An outcome, against what the test insists on.
Meets(out, want) == IF want = Anything THEN out # Fails ELSE out = want

\* A call returns.
Return(c, out) ==
  /\ passing' = Meets(out, c.want)
  /\ waiting' = FALSE
  /\ pc' = pc + 1

\* The identifier a call names: what was written down, 0 or a bad one.
Named(c) == IF c.id \in DOMAIN held THEN held[c.id] ELSE c.id

\* sqlbox_stmt_find on the client's queue.
Find(id) == IF id = 0 THEN Len(cq) ELSE SelectInSeq(cq, LAMBDA st : st.id = id)
Place(c) == IF c.finds THEN Find(Named(c)) ELSE 0

Calling(t) == passing /\ ~freed /\ ~waiting /\ pc \in DOMAIN t.calls

\* Calls that fail before anything is written: no such statement, or a string
\* without its terminator.
Refuse(t) ==
  LET c == t.calls[pc] IN
  /\ t.hier = 0 /\ Calling(t)
  /\ (c.finds /\ Place(c) = 0) \/ "unterminated" \in ToSet(c.ps)
  /\ Return(c, Fails)
  /\ UNCHANGED <<test, freed, held, cq, pipe, answer, servervars, sqlvars>>

\* sqlbox_step with results left over from the answer before.
Cached(t) ==
  LET c == t.calls[pc] IN
  /\ Calling(t)
  /\ c.op = "step" /\ Place(c) # 0 /\ cq[Place(c)].got # <<>>
  /\ Return(c, Head(cq[Place(c)].got))
  /\ cq' = [cq EXCEPT ![Place(c)].got = Tail(@)]
  /\ UNCHANGED <<test, freed, held, pipe, answer, servervars, sqlvars>>

Writable(t) ==
  LET c == t.calls[pc] IN
  /\ t.hier = 0 /\ Calling(t)
  /\ c.finds => Place(c) # 0 /\ ~(c.op = "step" /\ cq[Place(c)].got # <<>>)
  /\ "unterminated" \notin ToSet(c.ps)

\* The client's queue when the request is on its way.
Written(c) ==
  CASE c.op = "finalise" -> RemoveAt(cq, Place(c))
    [] c.op = "rebind" -> [cq EXCEPT ![Place(c)].got = <<>>]
    [] c.op = "prepare" /\ ~c.sync -> Append(cq, [id |-> 0, got |-> <<>>])
    [] OTHER -> cq

\* sqlbox_clear closes the server's end of the socket pair first.
Write(t) ==
  LET c == t.calls[pc] IN
  /\ Writable(t)
  /\ phase # "exited"
  /\ pipe' = Append(pipe, [c EXCEPT !.id = Named(c)])
  /\ cq' = Written(c)
  /\ IF c.sync THEN waiting' = TRUE /\ UNCHANGED <<pc, passing>> ELSE Return(c, Ok)
  /\ UNCHANGED <<test, freed, held, answer, servervars, sqlvars>>

NotWritten(t) ==
  LET c == t.calls[pc] IN
  /\ Writable(t)
  /\ phase # "serve"
  /\ cq' = IF c.op = "finalise" THEN Written(c) ELSE cq
  /\ Return(c, Fails)
  /\ UNCHANGED <<test, freed, held, pipe, answer, servervars, sqlvars>>

\* The answer: its results, or the identifier of what was opened or prepared.
Answered(t) ==
  LET c == t.calls[pc] IN
  /\ waiting /\ answer # <<>>
  /\ answer' = <<>>
  /\ Return(c, Head(answer[1].outs))
  /\ held' = IF c.op \in {"open", "prepare"} THEN Append(held, answer[1].id) ELSE held
  /\ cq' = CASE c.op = "prepare" -> Append(cq, [id |-> answer[1].id, got |-> <<>>])
             [] c.op = "step" -> [cq EXCEPT ![Place(c)].got = Tail(answer[1].outs)]
             [] OTHER -> cq
  /\ UNCHANGED <<test, freed, pipe, servervars, sqlvars>>

\* No answer comes: the server has closed its end.
HungUp(t) ==
  /\ t.hier = 0 /\ waiting /\ answer = <<>> /\ phase # "serve"
  /\ Return(t.calls[pc], Fails)
  /\ UNCHANGED <<test, freed, held, cq, pipe, answer, servervars, sqlvars>>

\* sqlbox_free, after the last call or the first that went wrong.
Free(t) ==
  /\ pc # 0 /\ ~freed /\ ~waiting
  /\ ~passing \/ pc \notin DOMAIN t.calls
  /\ freed' = TRUE
  /\ UNCHANGED <<test, pc, waiting, passing, held, cq, pipe, answer, servervars, sqlvars>>

Client(t) ==
  Alloc(t) \/ Refuse(t) \/ Cached(t) \/ Write(t) \/ NotWritten(t) \/ Answered(t) \/ HungUp(t) \/ Free(t)

-----------------------------------------------------------------------------
(* SQLite. *)

Violates(rule, rows, v) ==
  \/ rule = "unique" /\ \E r \in ToSet(rows) : r[1] = v
  \/ rule = "notnull" /\ v = "null"

\* What an insert adds; SQLite has no NaN.
NewRow(s, ps) ==
  IF s.vals # <<>> THEN s.vals
  ELSE [k \in 1..s.cols |->
          IF k \in DOMAIN ps /\ ps[k] # "nan" THEN ps[k] ELSE "null"]

Compiles(s, tb) == s.does \in {"insert", "select"} => tb.made

\* sqlite3_step (and the filters of sqlbox_pack_step) after n rows.
Answer(s, tb, n, ps) ==
  CASE s.does = "create" -> IF tb.made THEN Fails ELSE End
    [] s.does = "insert" ->
         IF Violates(tb.rule, tb.rows, NewRow(s, ps)[1]) THEN Constraint ELSE End
    [] s.does = "pragma" -> IF n = 0 THEN Row(s.vals) ELSE End
    [] s.does = "select" ->
         IF n >= Len(tb.rows) THEN End
         ELSE IF s.rule = "fails" THEN Fails
         ELSE Row(s.vals \o SubSeq(tb.rows[n + 1], Len(s.vals) + 1, Len(tb.rows[n + 1])))

Effect(s, tb, ps) ==
  CASE s.does = "create" -> [tb EXCEPT !.made = TRUE, !.rule = s.rule]
    [] s.does = "insert" /\ Answer(s, tb, 0, ps) = End ->
         [tb EXCEPT !.rows = Append(@, NewRow(s, ps)),
                    !.key = IF s.rule = "key" THEN Last(NewRow(s, ps))
                            ELSE ToString(Len(tb.rows) + 1)]
    [] OTHER -> tb

-----------------------------------------------------------------------------
(* The server. *)

Dbs(q) == IF q.id = 0 THEN {dbq[k] : k \in {Len(dbq)} \cap DOMAIN dbq} ELSE {q.id} \cap ToSet(dbq)
Stmts(q) ==
  IF q.id = 0 THEN {stmtq[k] : k \in {Len(stmtq)} \cap DOMAIN stmtq} ELSE {q.id} \cap ToSet(stmtq)

\* The statement of request q, if there is one.
Texts(t, q) == {t.stmts[k] : k \in {q.x + 1} \cap DOMAIN t.stmts}

\* The handler of request q.
Handler(t, q) ==
  CASE q.op \in {"ping", "dat"} -> Box(t)!OpPing
    [] q.op = "open" -> Box(t)!OpOpen(q.x)
    [] q.op = "close" -> Box(t)!OpClose(q.id)
    [] q.op = "role" -> Box(t)!OpRole(q.x)
    [] q.op = "lastid" -> Box(t)!OpLastid(q.id)
    [] q.op = "begin" -> Box(t)!OpTransOpen(q.id, q.x)
    [] q.op \in {"commit", "rollback"} -> Box(t)!OpTransClose(q.id, q.x)
    [] q.op = "exec" -> Box(t)!OpExec(q.id, q.x, q.fl)
    [] q.op = "prepare" -> Box(t)!OpPrepareBind(q.id, q.x, q.fl)
    [] q.op = "step" -> Box(t)!OpStep(q.id)
    [] q.op = "finalise" -> Box(t)!OpFinalise(q.id)
    [] q.op = "rebind" -> Box(t)!OpRebind(q.id)

\* An answer of SQLite the server cannot go on with.
Fatal(out, fl) == out = Fails \/ (out = Constraint /\ "CONSTRAINT" \notin fl)

TextOf(t, s) == t.stmts[stmt[s].idx + 1]

\* What sqlite3_step answers for statement s after n rows.
AnswerOf(t, s, n) == Answer(TextOf(t, s), table[stmt[s].db], n, bound[s])

\* The results that are sent: those fetched ahead, or the next one.
Result(t, s) == IF ahead[s] # <<>> THEN ahead[s] ELSE <<AnswerOf(t, s, cursor[s])>>

\* SQLite makes request q fail.
Trouble(t, q) ==
  CASE q.op = "open" -> \E k \in {q.x + 1} \cap DOMAIN t.srcs : t.srcs[k] = "absent"
    [] q.op = "exec" -> \E d \in Dbs(q), s \in Texts(t, q) :
         ~Compiles(s, table[d]) \/ Fatal(Answer(s, table[d], 0, q.ps), q.fl)
    [] q.op = "prepare" -> \E d \in Dbs(q), s \in Texts(t, q) : ~Compiles(s, table[d])
    [] q.op = "step" -> \E s \in Stmts(q) : Fatal(Result(t, s)[1], stmt[s].flags)
    [] OTHER -> FALSE

Reply(q, outs, id) ==
  answer' = IF q.sync THEN <<[outs |-> outs, id |-> id]>> ELSE <<>>

ServeExec(t, q) ==
  \E d \in Dbs(q), s \in Texts(t, q) :
    /\ table' = [table EXCEPT ![d] = Effect(s, @, q.ps)]
    /\ Reply(q, IF Answer(s, table[d], 0, q.ps) = Constraint THEN <<Constraint>> ELSE <<Ok>>, 0)
    /\ UNCHANGED <<cursor, bound, ahead>>

ServePrepare(t, q) ==
  /\ bound' = [bound EXCEPT ![lastid'] = q.ps]
  /\ Reply(q, <<Ok>>, lastid')
  /\ UNCHANGED <<table, cursor, ahead>>

\* sqlbox_op_step: send, then fetch ahead until the end or until the buffer is
\* full, which may be after any number of rows.
ServeStep(t, q) ==
  \E s \in Stmts(q) :
    LET out == Result(t, s)
        d == stmt[s].db
        n == IF ahead[s] = <<>> /\ Last(out)[1] = "row" THEN cursor[s] + 1 ELSE cursor[s]
        more == Last(out)[1] = "row" /\ "MULTI" \in stmt[s].flags
    IN \E k \in IF more THEN 1..(Len(table[d].rows) - n + 1) ELSE {0} :
       /\ Reply(q, out, 0)
       /\ table' = IF ahead[s] # <<>> THEN table
                   ELSE [table EXCEPT ![d] = Effect(TextOf(t, s), @, bound[s])]
       /\ ahead' = [ahead EXCEPT ![s] = [j \in 1..k |-> AnswerOf(t, s, n + j - 1)]]
       /\ cursor' = [cursor EXCEPT ![s] = n + k]
       /\ stmt'[s].res = IF more THEN IF Last(ahead'[s]) = End THEN "tail" ELSE "rows"
                         ELSE IF Last(out)[1] = "row" THEN "fresh" ELSE "done"
       /\ UNCHANGED bound

ServeRebind(q) ==
  \E s \in Stmts(q) :
    /\ bound' = [bound EXCEPT ![s] = q.ps]
    /\ cursor' = [cursor EXCEPT ![s] = 0]
    /\ ahead' = [ahead EXCEPT ![s] = <<>>]
    /\ Reply(q, <<Ok>>, 0)
    /\ UNCHANGED table

\* BEGIN remembers the rows, ROLLBACK brings them back.
ServeTrans(q) ==
  \E d \in Dbs(q) :
    /\ table' = [table EXCEPT ![d] =
         CASE q.op = "begin" -> [@ EXCEPT !.saved = table[d].rows]
           [] q.op = "rollback" -> [@ EXCEPT !.rows = table[d].saved]
           [] q.op = "commit" -> @]
    /\ Reply(q, <<Ok>>, 0)
    /\ UNCHANGED <<cursor, bound, ahead>>

\* The requests SQLite has no part in that matters here.
ServeOther(q) ==
  /\ Reply(q, IF q.op = "lastid" THEN <<Id(table[CHOOSE d \in Dbs(q) : TRUE].key)>> ELSE <<Ok>>,
           IF q.op = "open" THEN lastid' ELSE 0)
  /\ UNCHANGED sqlvars

\* The server reads a request and its handler succeeds if it can.
Serve(t) ==
  /\ pipe # <<>>
  /\ pipe' = Tail(pipe)
  /\ UNCHANGED clientvars
  /\ LET q == Head(pipe) IN
     \/ /\ ~Trouble(t, q)
        /\ Handler(t, q) /\ phase' = "serve"
        /\ CASE q.op = "exec" -> ServeExec(t, q)
             [] q.op = "prepare" -> ServePrepare(t, q)
             [] q.op = "step" -> ServeStep(t, q)
             [] q.op = "rebind" -> ServeRebind(q)
             [] q.op \in {"begin", "commit", "rollback"} -> ServeTrans(q)
             [] OTHER -> ServeOther(q)
     \/ /\ Trouble(t, q) \/ ~ENABLED (Handler(t, q) /\ phase' = "serve")
        /\ Handler(t, q) /\ phase' = "clear"
        /\ UNCHANGED <<answer, sqlvars>>

\* The client has closed its end and nothing is left to read.
EndOfFile(t) ==
  /\ freed /\ pipe = <<>>
  /\ Box(t)!Hangup
  /\ UNCHANGED <<clientvars, pipe, answer, sqlvars>>

Clear(t) == Box(t)!Clear /\ UNCHANGED <<clientvars, pipe, answer, sqlvars>>

ServerNext(t) == Serve(t) \/ EndOfFile(t) \/ Clear(t)

-----------------------------------------------------------------------------
(* Hierarchies: no box and no server. *)

HierAlloc(t) ==
  /\ t.hier # 0 /\ pc = 0
  /\ pc' = 1 /\ phase' = "exited"
  /\ UNCHANGED <<test, waiting, passing, freed, held, cq, pipe, answer,
                 role, lastid, dbq, stmtq, db, stmt, conn, handle, sqlvars, hiervars>>

Building(t, c) ==
  CASE c.op = "child" -> Hier(t)!SetChild(c.id, c.x)
    [] c.op = "sink" -> Hier(t)!SetSink(c.x)
    [] c.op = "start" -> Hier(t)!SetStart(c.x)
    [] c.op = "stmt" -> Hier(t)!Permit("stmts", c.id, c.x)

\* A call that succeeds without doing anything: it is so already.
Repeats(t, c) ==
  CASE c.op = "child" -> c.id = c.x /\ c.x < t.hier /\ parent[c.x] = c.x
    [] c.op = "sink" -> c.x \in ToSet(sinks)
    [] c.op = "start" -> c.x \in ToSet(starts)
    [] c.op = "stmt" -> c.id < t.hier /\ c.x \in ToSet(perms["stmts"][c.id])

\* sqlbox_role_hier_child, _sink, _start and _stmt.
Build(t) ==
  LET c == t.calls[pc] IN
  /\ t.hier # 0 /\ Calling(t) /\ c.op # "gen"
  /\ IF ENABLED Building(t, c) THEN Building(t, c) /\ Return(c, Ok)
     ELSE UNCHANGED hiervars /\ Return(c, IF Repeats(t, c) THEN Ok ELSE Fails)
  /\ UNCHANGED <<test, freed, held, cq, pipe, answer, servervars, sqlvars>>

\* sqlbox_role_hier_gen, which has memory enough here.
CallGen(t) ==
  /\ t.hier # 0 /\ Calling(t) /\ t.calls[pc].op = "gen"
  /\ Hier(t)!Gen(t.calls[pc].x)
  /\ waiting' = TRUE
  /\ UNCHANGED <<test, pc, passing, freed, held, cq, pipe, answer, servervars, sqlvars>>

Generate(t) ==
  /\ Hier(t)!Count \/ Hier(t)!Reserve \/ Hier(t)!Children \/ Hier(t)!IntoSinks
     \/ Hier(t)!OutOfStarts \/ Hier(t)!InheritOne("stmts") \/ Hier(t)!InheritUp
  /\ UNCHANGED boxvars

\* What the test looks at: every role listed has these transitions, each once.
Holds(list, seqs) ==
  \A r \in DOMAIN list : ToSet(seqs[r]) = list[r] /\ Len(seqs[r]) = Cardinality(list[r])

GenReturns(t) ==
  /\ waiting /\ genpc = "done"
  /\ waiting' = FALSE /\ pc' = pc + 1
  /\ passing' = (Holds(t.gives, roles) /\ Holds(t.permits, granted["stmts"]))
  /\ Hier(t)!GenFree
  /\ UNCHANGED <<test, freed, held, cq, pipe, answer, servervars, sqlvars>>

HierRuns ==
  \E t \in {Tests[test]} :
    HierAlloc(t) \/ Build(t) \/ CallGen(t) \/ Generate(t) \/ GenReturns(t)

-----------------------------------------------------------------------------
ClientRuns == (\E t \in {Tests[test]} : Client(t)) /\ UNCHANGED hiervars
ServerRuns == (\E t \in {Tests[test]} : ServerNext(t)) /\ UNCHANGED hiervars

Next == ClientRuns \/ ServerRuns \/ HierRuns

Spec ==
  /\ Init /\ [][Next]_vars
  /\ WF_vars(ClientRuns) /\ WF_vars(ServerRuns) /\ WF_vars(HierRuns)

-----------------------------------------------------------------------------
\* No call of any test has another outcome than the one its test insists on,
\* however the calls that do not wait interleave with the server.
AsExpected == passing

\* Every test comes to its end, and so does its server, with nothing open.
TestsEnd ==
  <>(freed /\ phase = "exited" /\ \A d \in Ids : conn[d] = "none" /\ handle[d] = 0)
=============================================================================
