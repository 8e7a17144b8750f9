----------------------------- MODULE BoxServer -----------------------------
(***************************************************************************)
(* The database process of a box: the child that sqlbox_alloc() forks,     *)
(* which reads one request frame at a time (sqlbox_main_loop), runs the    *)
(* handler of its operation to the end, and tears everything down          *)
(* (sqlbox_clear) as soon as one handler fails or the client goes away.    *)
(*                                                                         *)
(* A handler is one action: the process is single-threaded and its state   *)
(* is its own.  A request carries whatever identifiers the client holds,   *)
(* live, stale or zero ("the last one opened"), so the actions take any    *)
(* identifier up to the bound.  What SQLite answers, whether memory is to  *)
(* be had and whether a reply can still be written are free choices of     *)
(* the action; SQLITE_BUSY, LOCKED and PROTOCOL are retried by the code    *)
(* without any change of state and are stuttering here.                    *)
(*                                                                         *)
(* Memory the code frees is an entry of "db" or "stmt" that holds FreedDb  *)
(* or FreedStmt.  "conn" and "handle" are SQLite's side of the process:    *)
(* which connections are open and which prepared statements live on them.  *)
(* The sqlite3 object of the database with identifier d is conn[d], the    *)
(* sqlite3_stmt object of statement s is handle[s].                        *)
(***************************************************************************)
EXTENDS Naturals, SequencesExt

CONSTANTS
  Sources,     \* configured databases (cfg.srcs)
  Pstmts,      \* configured statements (cfg.stmts)
  Roles,       \* configured roles (cfg.roles), {} when none are
  DefRole,     \* the role a box starts in (cfg.roles.defrole)
  RoleSrcs,    \* per role, the databases it may open and close
  RoleStmts,   \* per role, the statements it may prepare or execute
  RoleNext,    \* per role, the roles it may change to
  OrRollback,  \* statements whose conflict clause rolls back (external SQL)
  None,        \* the index of no source and of no statement
  MaxId,       \* bound: identifiers handed out
  MaxTrans     \* bound: transaction identifiers the client picks

(***************************************************************************)
(* What sqlbox_cfg_vrfy() demands of a configuration before a box exists.  *)
(***************************************************************************)
ASSUME ConfigAssumption ==
  /\ Roles # {} => DefRole \in Roles
  /\ RoleSrcs \in [Roles -> SUBSET Sources]
  /\ RoleStmts \in [Roles -> SUBSET Pstmts]
  /\ RoleNext \in [Roles -> SUBSET Roles]

ASSUME ModelAssumption ==
  /\ None \notin Sources \cup Pstmts \cup Roles
  /\ OrRollback \subseteq Pstmts
  /\ MaxId \in Nat /\ MaxTrans \in Nat

VARIABLES
  phase,   \* "serve": main loop; "clear": sqlbox_clear; "exited": _exit
  role,    \* box->role
  lastid,  \* box->lastid, the last identifier given to a database or statement
  dbq,     \* box->dbq, the queue of open databases
  stmtq,   \* box->stmtq, the queue of all statements
  db,      \* the sqlbox_db structures, by identifier
  stmt,    \* the sqlbox_stmt structures, by identifier
  conn,    \* SQLite: "none", or an open connection in "auto"commit or "trans"
  handle   \* SQLite: the connection a prepared statement is on, 0 if finalised

boxvars == <<role, lastid, dbq, stmtq, db, stmt>>
sqlvars == <<conn, handle>>
vars == <<phase, boxvars, sqlvars>>

Ids == 1..MaxId
Flags == {"CONSTRAINT", "MULTI"}

\* What a statement's result buffer (stmt->res) holds: nothing yet or nothing
\* between two single steps; rows fetched ahead; rows fetched ahead up to the
\* end of the results; nothing, after the end has been sent.
Results == {"fresh", "rows", "tail", "done"}

FreedDb == [idx |-> None, trans |-> 0, stmtq |-> {}]
FreedStmt == [idx |-> None, db |-> 0, flags |-> {}, res |-> "fresh"]

(***************************************************************************)
(* db->stmtq is a set here: the code only asks whether it is empty, adds,  *)
(* removes, and empties it.                                                *)
(***************************************************************************)
DbType == [idx : Sources \cup {None}, trans : 0..MaxTrans, stmtq : SUBSET Ids]
StmtType == [idx : Pstmts \cup {None}, db : 0..MaxId,
             flags : SUBSET Flags, res : Results]

(***************************************************************************)
(* sqlbox_db_find() and sqlbox_stmt_find(): the set of what is found, a    *)
(* singleton or empty.  Zero asks for the tail of the queue.               *)
(***************************************************************************)
Lookup(q, id) ==
  IF id = 0 THEN {q[i] : i \in {Len(q)} \cap DOMAIN q} ELSE {id} \cap ToSet(q)

\* TAILQ_REMOVE.
Unlink(q, x) == RemoveAt(q, CHOOSE i \in DOMAIN q : q[i] = x)

(***************************************************************************)
(* The operators named Slip... are one mistake each in the definition that *)
(* follows them: the checks put them in its place to show that the         *)
(* property they name notices.  Next uses none of them.                    *)
(***************************************************************************)

\* HeldWithinReach: the statement's index is checked, the role is not.
SlipMayStmt(i) == i \in Pstmts

\* sqlbox_rolecheck_src() and sqlbox_rolecheck_stmt().
MaySrc(i) == Roles # {} => i \in RoleSrcs[role]
MayStmt(i) == Roles # {} => i \in RoleStmts[role]

\* sqlite3_close() refuses with SQLITE_BUSY while statements are not finalised.
Idle(c) == \A s \in Ids : handle[s] # c

-----------------------------------------------------------------------------
(* The main loop. *)

Init ==
  /\ phase = "serve"
  /\ role = DefRole
  /\ lastid = 0
  /\ dbq = <<>>
  /\ stmtq = <<>>
  /\ db = [d \in Ids |-> FreedDb]
  /\ stmt = [s \in Ids |-> FreedStmt]
  /\ conn = [d \in Ids |-> "none"]
  /\ handle = [s \in Ids |-> 0]

Serving == phase = "serve"

\* A handler that returns 0 ends the main loop.
Stop == phase' = "clear"
Continue == phase' = "serve"

\* The handler returns 0 and has changed nothing that is looked at again.
Fail == Stop /\ UNCHANGED <<boxvars, sqlvars>>

(***************************************************************************)
(* End of file, an error on the socket, a frame too short for an           *)
(* operation, or an operation that does not exist.                         *)
(***************************************************************************)
Hangup == Serving /\ Fail

\* sqlbox_op_ping, sqlbox_op_msg_set_dat: they may fail but change nothing.
OpPing ==
  /\ Serving
  /\ Fail \/ (Continue /\ UNCHANGED <<boxvars, sqlvars>>)

\* sqlbox_op_lastid.
OpLastid(id) ==
  /\ Serving
  /\ \/ Fail
     \/ Lookup(dbq, id) # {} /\ Continue /\ UNCHANGED <<boxvars, sqlvars>>

\* TypeOK: the requested role is taken without asking whether it exists.
SlipOpRole(r) ==
  /\ Serving
  /\ role' = r
  /\ Continue
  /\ UNCHANGED <<lastid, dbq, stmtq, db, stmt, sqlvars>>

(***************************************************************************)
(* sqlbox_op_role: the same role again is allowed, any other only along    *)
(* the configured transitions.                                             *)
(***************************************************************************)
OpRole(r) ==
  /\ Serving
  /\ IF Roles # {} /\ (r = role \/ r \in RoleNext[role])
     THEN /\ role' = r
          /\ Continue
          /\ UNCHANGED <<lastid, dbq, stmtq, db, stmt, sqlvars>>
     ELSE Fail

-----------------------------------------------------------------------------
(* Databases. *)

(***************************************************************************)
(* sqlbox_op_open.  The identifier is spent before sqlite3_open_v2() is    *)
(* tried.  Once the database is in the queue a failure (the foreign-key    *)
(* pragma, the reply) leaves it there: sqlbox_clear() closes it.           *)
(***************************************************************************)
OpOpen(i) ==
  /\ Serving
  /\ lastid < MaxId
  /\ IF i \in Sources /\ MaySrc(i)
     THEN \/ Fail
          \/ /\ lastid' = lastid + 1
             /\ Stop
             /\ UNCHANGED <<role, dbq, stmtq, db, stmt, sqlvars>>
          \/ /\ lastid' = lastid + 1
             /\ dbq' = Append(dbq, lastid')
             /\ db' = [db EXCEPT ![lastid'] = [FreedDb EXCEPT !.idx = i]]
             /\ conn' = [conn EXCEPT ![lastid'] = "auto"]
             /\ Continue \/ Stop
             /\ UNCHANGED <<role, stmtq, stmt, handle>>
     ELSE Fail

\* QueuesAgree: statements left open do not keep a database from being closed.
SlipMayCloseStmts(d) == MaySrc(db[d].idx) /\ db[d].trans = 0

\* CloseDiscardsNothing: neither does a transaction.
SlipMayCloseTrans(d) == MaySrc(db[d].idx) /\ db[d].stmtq = {}

(***************************************************************************)
(* sqlbox_op_close: refused with statements or a transaction left open.    *)
(* The structure is freed even when sqlite3_close() refuses.               *)
(***************************************************************************)
MayClose(d) == MaySrc(db[d].idx) /\ db[d].stmtq = {} /\ db[d].trans = 0

OpClose(id) ==
  /\ Serving
  /\ \/ (\A d \in Lookup(dbq, id) : ~MayClose(d)) /\ Fail
     \/ \E d \in Lookup(dbq, id) :
          /\ MayClose(d)
          /\ dbq' = Unlink(dbq, d)
          /\ db' = [db EXCEPT ![d] = FreedDb]
          /\ IF Idle(d) THEN Continue /\ conn' = [conn EXCEPT ![d] = "none"]
                        ELSE Stop /\ UNCHANGED conn
          /\ UNCHANGED <<role, lastid, stmtq, stmt, handle>>

(***************************************************************************)
(* sqlbox_op_trans_open runs BEGIN, sqlbox_op_trans_close runs COMMIT or   *)
(* ROLLBACK; the client names the transaction, and only its own name may   *)
(* close it.  SQLite refuses BEGIN in a transaction and COMMIT or ROLLBACK *)
(* outside one.                                                            *)
(***************************************************************************)
OpTransOpen(id, t) ==
  /\ Serving
  /\ \/ Fail
     \/ \E d \in Lookup(dbq, id) :
          /\ db[d].trans = 0 /\ t # 0 /\ conn[d] = "auto"
          /\ db' = [db EXCEPT ![d].trans = t]
          /\ conn' = [conn EXCEPT ![d] = "trans"]
          /\ Continue
          /\ UNCHANGED <<role, lastid, dbq, stmtq, stmt, handle>>

\* NoHiddenTransaction: the name is cleared before COMMIT is tried.
SlipTransCloseEarly(id, t) ==
  /\ Serving
  /\ \/ Fail
     \/ \E d \in Lookup(dbq, id) :
          /\ db[d].trans # 0 /\ db[d].trans = t
          /\ db' = [db EXCEPT ![d].trans = 0]
          /\ \/ conn' = [conn EXCEPT ![d] = "auto"] /\ Continue
             \/ UNCHANGED conn /\ Stop
          /\ UNCHANGED <<role, lastid, dbq, stmtq, stmt, handle>>

\* NamedTransactionIsOpen: the name is kept after COMMIT.
SlipTransCloseNamed(id, t) ==
  /\ Serving
  /\ \/ Fail
     \/ \E d \in Lookup(dbq, id) :
          /\ db[d].trans # 0 /\ db[d].trans = t /\ conn[d] = "trans"
          /\ conn' = [conn EXCEPT ![d] = "auto"]
          /\ Continue
          /\ UNCHANGED <<boxvars, handle>>

OpTransClose(id, t) ==
  /\ Serving
  /\ \/ Fail
     \/ \E d \in Lookup(dbq, id) :
          /\ db[d].trans # 0 /\ db[d].trans = t /\ conn[d] = "trans"
          /\ db' = [db EXCEPT ![d].trans = 0]
          /\ conn' = [conn EXCEPT ![d] = "auto"]
          /\ Continue
          /\ UNCHANGED <<role, lastid, dbq, stmtq, stmt, handle>>

-----------------------------------------------------------------------------
(* Statements. *)

(***************************************************************************)
(* Running statement i on connection d.  A constraint violation of a       *)
(* statement with a rolling-back conflict clause ends the connection's     *)
(* transaction; the server goes on only when the flag allows violations    *)
(* (FailRolledBack is the other case).                                     *)
(***************************************************************************)
Run(d, i, flags) ==
  \/ UNCHANGED conn
  \/ /\ i \in OrRollback /\ "CONSTRAINT" \in flags /\ conn[d] = "trans"
     /\ conn' = [conn EXCEPT ![d] = "auto"]

(***************************************************************************)
(* sqlbox_op_exec, both of its ways (sqlite3_exec without parameters, or   *)
(* prepare, bind, step and finalise): the statement it prepares never      *)
(* outlives the handler, whichever step fails.                             *)
(***************************************************************************)
OpExec(id, i, flags) ==
  /\ Serving
  /\ \/ Fail
     \/ \E d \in Lookup(dbq, id) :
          /\ i \in Pstmts /\ MayStmt(i)
          /\ Run(d, i, flags)
          /\ Continue \/ Stop
          /\ UNCHANGED <<boxvars, handle>>

(***************************************************************************)
(* A statement fails (one that is stepped or executed, or COMMIT itself)   *)
(* and SQLite has rolled back already: a conflict clause where violations  *)
(* are not allowed, a full disk, an error of input or output, no memory.   *)
(***************************************************************************)
FailRolledBack(d) ==
  /\ Serving
  /\ conn[d] = "trans"
  /\ conn' = [conn EXCEPT ![d] = "auto"]
  /\ Stop
  /\ UNCHANGED <<boxvars, handle>>

\* LastMeansNewest: the statement goes to the head of the queue.
SlipPrepareAtHead(id, i, flags) ==
  /\ Serving
  /\ lastid < MaxId
  /\ \E d \in Lookup(dbq, id) :
       /\ i \in Pstmts /\ MayStmt(i)
       /\ lastid' = lastid + 1
       /\ db' = [db EXCEPT ![d].stmtq = @ \cup {lastid'}]
       /\ stmtq' = <<lastid'>> \o stmtq
       /\ stmt' = [stmt EXCEPT ![lastid'] =
                     [idx |-> i, db |-> d, flags |-> flags, res |-> "fresh"]]
       /\ handle' = [handle EXCEPT ![lastid'] = d]
       /\ Continue
       /\ UNCHANGED <<role, dbq, conn>>

(***************************************************************************)
(* sqlbox_op_prepare_bind.  If binding or memory fails the new handle is   *)
(* finalised at once.  If the reply cannot be written the statement is     *)
(* taken out of both queues again and finalised, its identifier spent.     *)
(***************************************************************************)
OpPrepareBind(id, i, flags) ==
  /\ Serving
  /\ lastid < MaxId
  /\ \/ Fail
     \/ \E d \in Lookup(dbq, id) :
          /\ i \in Pstmts /\ MayStmt(i)
          /\ lastid' = lastid + 1
          /\ db' = [db EXCEPT ![d].stmtq = @ \cup {lastid'}]
          /\ stmtq' = Append(stmtq, lastid')
          /\ stmt' = [stmt EXCEPT ![lastid'] =
                        [idx |-> i, db |-> d, flags |-> flags, res |-> "fresh"]]
          /\ handle' = [handle EXCEPT ![lastid'] = d]
          /\ Continue
          /\ UNCHANGED <<role, dbq, conn>>

\* HandlesOwned: the handle is forgotten when the reply cannot be written.
SlipUnacknowledged(id, i) ==
  /\ Serving
  /\ lastid < MaxId
  /\ i \in Pstmts /\ MayStmt(i)
  /\ lastid' = lastid + 1
  /\ \E d \in Lookup(dbq, id) : handle' = [handle EXCEPT ![lastid'] = d]
  /\ Stop
  /\ UNCHANGED <<role, dbq, stmtq, db, stmt, conn>>

PrepareUnacknowledged(id, i) ==
  /\ Serving
  /\ lastid < MaxId
  /\ Lookup(dbq, id) # {} /\ i \in Pstmts /\ MayStmt(i)
  /\ lastid' = lastid + 1
  /\ Stop
  /\ UNCHANGED <<role, dbq, stmtq, db, stmt, sqlvars>>

(***************************************************************************)
(* Release statement s: sqlbox_wrap_finalise, both TAILQ_REMOVEs and       *)
(* sqlbox_stmt_free, as in sqlbox_op_finalise and sqlbox_clear.            *)
(***************************************************************************)
Release(s) ==
  /\ stmtq' = Unlink(stmtq, s)
  /\ db' = [db EXCEPT ![stmt[s].db].stmtq = @ \ {s}]
  /\ handle' = [handle EXCEPT ![s] = 0]
  /\ stmt' = [stmt EXCEPT ![s] = FreedStmt]

\* IdsNeverReused: the newest identifier is given back.
SlipOpFinalise(id) ==
  /\ Serving
  /\ \E s \in Lookup(stmtq, id) :
       /\ Release(s)
       /\ lastid' = IF s = lastid THEN lastid - 1 ELSE lastid
  /\ Continue
  /\ UNCHANGED <<role, dbq, conn>>

OpFinalise(id) ==
  /\ Serving
  /\ \/ Lookup(stmtq, id) = {} /\ Fail
     \/ \E s \in Lookup(stmtq, id) :
          /\ Release(s)
          /\ Continue
          /\ UNCHANGED <<role, lastid, dbq, conn>>

(***************************************************************************)
(* What the result buffer can hold after a step that succeeds (BoxStep has *)
(* the rows themselves).  Without MULTI one row is sent at a time; with it *)
(* the handler fetches ahead after it has sent something.  A statement     *)
(* whose end has been sent cannot be stepped again.                        *)
(***************************************************************************)
Stepped(s) ==
  CASE stmt[s].res = "fresh" ->
         IF "MULTI" \in stmt[s].flags THEN {"rows", "tail", "done"}
                                      ELSE {"fresh", "done"}
    [] stmt[s].res = "rows" -> {"rows", "tail"}
    [] stmt[s].res = "tail" -> {"done"}
    [] stmt[s].res = "done" -> {}

OpStep(id) ==
  /\ Serving
  /\ \/ Fail
     \/ \E s \in Lookup(stmtq, id) : \E r \in Stepped(s) :
          /\ stmt' = [stmt EXCEPT ![s].res = r]
          /\ Run(stmt[s].db, stmt[s].idx, stmt[s].flags)
          /\ Continue
          /\ UNCHANGED <<role, lastid, dbq, stmtq, db, handle>>

\* sqlbox_op_rebind.
OpRebind(id) ==
  /\ Serving
  /\ \/ Fail
     \/ \E s \in Lookup(stmtq, id) :
          /\ stmt' = [stmt EXCEPT ![s].res = "fresh"]
          /\ Continue
          /\ UNCHANGED <<role, lastid, dbq, stmtq, db, sqlvars>>

-----------------------------------------------------------------------------
(***************************************************************************)
(* sqlbox_clear: for the first database of the queue, every statement is   *)
(* released and then the connection closed (which rolls its transaction    *)
(* back); when none is left, whatever is still in the global queue is      *)
(* freed without finalising it, and the process exits.                     *)
(***************************************************************************)
ClearStmt(s) ==
  /\ phase = "clear"
  /\ dbq # <<>>
  /\ s \in db[Head(dbq)].stmtq
  /\ Release(s)
  /\ UNCHANGED <<phase, role, lastid, dbq, conn>>

\* ServerExits: the database is closed and freed but stays in the queue.
SlipClearDb ==
  /\ phase = "clear"
  /\ dbq # <<>>
  /\ db[Head(dbq)].stmtq = {}
  /\ conn' = [conn EXCEPT ![Head(dbq)] = "none"]
  /\ db' = [db EXCEPT ![Head(dbq)] = FreedDb]
  /\ UNCHANGED <<phase, role, lastid, dbq, stmtq, stmt, handle>>

ClearDb ==
  /\ phase = "clear"
  /\ dbq # <<>>
  /\ db[Head(dbq)].stmtq = {}
  /\ dbq' = Tail(dbq)
  /\ conn' = IF Idle(Head(dbq)) THEN [conn EXCEPT ![Head(dbq)] = "none"] ELSE conn
  /\ db' = [db EXCEPT ![Head(dbq)] = FreedDb]
  /\ UNCHANGED <<phase, role, lastid, stmtq, stmt, handle>>

Exit ==
  /\ phase = "clear"
  /\ dbq = <<>>
  /\ phase' = "exited"
  /\ stmtq' = <<>>
  /\ stmt' = [s \in Ids |-> FreedStmt]
  /\ UNCHANGED <<role, lastid, dbq, db, sqlvars>>

Clear == ClearDb \/ Exit \/ \E s \in Ids : ClearStmt(s)

RequestId == 0..MaxId
RequestFlags == SUBSET Flags

Next ==
  \/ Hangup
  \/ OpPing
  \/ \E r \in Roles \cup {None} : OpRole(r)
  \/ \E i \in Sources \cup {None} : OpOpen(i)
  \/ \E id \in RequestId :
       \/ OpLastid(id)
       \/ OpClose(id)
       \/ OpFinalise(id)
       \/ OpStep(id)
       \/ OpRebind(id)
       \/ \E t \in 0..MaxTrans : OpTransOpen(id, t) \/ OpTransClose(id, t)
       \/ \E i \in Pstmts \cup {None} :
            \/ PrepareUnacknowledged(id, i)
            \/ \E fl \in RequestFlags : OpExec(id, i, fl) \/ OpPrepareBind(id, i, fl)
  \/ \E d \in ToSet(dbq) : FailRolledBack(d)
  \/ Clear

\* Nothing in sqlbox_clear blocks: once it is entered it runs to the end.
Spec == Init /\ [][Next]_vars /\ WF_vars(Clear)

-----------------------------------------------------------------------------
(* What the server promises. *)

\* The variables hold what the structures of extern.h can hold.
TypeOK ==
  /\ phase \in {"serve", "clear", "exited"}
  /\ role \in Roles \cup {DefRole}
  /\ lastid \in 0..MaxId
  /\ dbq \in Seq(Ids)
  /\ stmtq \in Seq(Ids)
  /\ db \in [Ids -> DbType]
  /\ stmt \in [Ids -> StmtType]
  /\ conn \in [Ids -> {"none", "auto", "trans"}]
  /\ handle \in [Ids -> 0..MaxId]

\* The global queue of statements and the queues of the databases hold the
\* same statements, and none points at a database that has been freed.  Every
\* handler keeps two lists by hand (TAILQ_INSERT_TAIL and TAILQ_REMOVE twice).
QueuesAgree ==
  /\ \A d \in ToSet(dbq) : \A s \in db[d].stmtq :
       s \in ToSet(stmtq) /\ stmt[s].db = d
  /\ \A s \in ToSet(stmtq) :
       stmt[s].db \in ToSet(dbq) /\ s \in db[stmt[s].db].stmtq

\* Whatever SQLite holds open belongs to a queue entry, and to the right one,
\* on every path through the handlers and through sqlbox_clear: nothing leaks
\* while serving and nothing is finalised or closed twice.
HandlesOwned ==
  /\ \A s \in Ids : handle[s] = IF s \in ToSet(stmtq) THEN stmt[s].db ELSE 0
  /\ \A d \in Ids : conn[d] # "none" <=> d \in ToSet(dbq)

\* "The server will have nothing left here once they've been cleaned out of
\* the databases" (sqlbox_clear), and by then SQLite holds nothing either, so
\* no sqlite3_close() of the teardown was refused.
ClearedOut ==
  phase # "serve" /\ dbq = <<>> =>
    /\ stmtq = <<>>
    /\ \A s \in Ids : handle[s] = 0 /\ conn[s] = "none"

\* Identifier zero names the newest database or statement that is still open
\* ("the last-opened database is used"), however many were closed since.
LastMeansNewest ==
  \A q \in {dbq, stmtq} : \A x \in Lookup(q, 0), y \in ToSet(q) : y <= x

\* The roles that a box in role r can ever change into: the least set that
\* holds r and is closed under the configured transitions.
Reach(r) ==
  {x \in Roles : \A S \in SUBSET Roles :
     (r \in S /\ \A y \in S : RoleNext[y] \subseteq S) => x \in S}

\* Everything held was opened in a role that the box could have had on its
\* way from the default role to the present one: changing role keeps what is
\* open, but no sequence of changes lets the box hold anything else.
HeldWithinReach ==
  Roles # {} =>
    /\ \A s \in ToSet(stmtq) : \E r \in Reach(DefRole) :
         stmt[s].idx \in RoleStmts[r] /\ role \in Reach(r)
    /\ \A d \in ToSet(dbq) : \E r \in Reach(DefRole) :
         db[d].idx \in RoleSrcs[r] /\ role \in Reach(r)

\* A connection is in a transaction only under a name the client can still
\* give to end it: no failure leaves one open with db->trans at zero.
NoHiddenTransaction ==
  \A d \in Ids : conn[d] = "trans" => d \in ToSet(dbq) /\ db[d].trans # 0

\* extern.h says of db->trans: "if >0, exp. transaction".  While the server goes on
\* serving that is what SQLite has open.
NamedTransactionIsOpen ==
  phase = "serve" => \A d \in ToSet(dbq) : db[d].trans # 0 => conn[d] = "trans"

\* An identifier is handed out once, to a database or to a statement: one the
\* client still remembers never comes to mean something else.
IdsNeverReused ==
  /\ [][lastid' >= lastid]_vars
  /\ [][\A x \in 1..lastid : x \notin ToSet(dbq) => x \notin ToSet(dbq')]_vars
  /\ [][\A x \in 1..lastid : x \notin ToSet(stmtq) => x \notin ToSet(stmtq')]_vars

\* Work is thrown away by the teardown only: while serving, no connection is
\* closed with a transaction in progress or with statements on it.
CloseDiscardsNothing ==
  [][\A d \in Ids : conn[d] # "none" /\ conn'[d] = "none" /\ phase = "serve" =>
       conn[d] = "auto" /\ Idle(d)]_vars

\* Once a request has failed or the client is gone the process ends, with
\* everything closed.
ServerExits ==
  phase = "clear" ~> (phase = "exited" /\ \A d \in Ids : conn[d] = "none")

=============================================================================
