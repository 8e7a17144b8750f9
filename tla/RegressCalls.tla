---------------------------- MODULE RegressCalls ----------------------------
(***************************************************************************)
(* What a regression test is made of: the configuration it allocates its   *)
(* box with and the calls it makes, each with the outcome it insists on.   *)
(* A call names a database or a statement by its place among those the     *)
(* test has opened and prepared (1 is the first identifier it was given),  *)
(* by 0 for the last one, or by Bad, an identifier nothing ever has.       *)
(* A value is a token: what the tests put in comes out again, or does not. *)
(***************************************************************************)
EXTENDS Naturals, Sequences

Bad == 99

(* Outcomes. *)
Ok == <<"ok">>
Fails == <<"fail">>                 \* 0, NULL or SQLBOX_CODE_ERROR
Constraint == <<"constraint">>      \* SQLBOX_CODE_CONSTRAINT
End == <<"end">>                    \* a parameter set without parameters
Row(vals) == <<"row">> \o vals
Id(n) == <<"rowid", n>>
Anything == <<"any">>               \* not a failure, and not looked at

-----------------------------------------------------------------------------
(* Statements, as far as the tests can tell them apart.  A table has as     *)
(* many columns as its inserts have parameters; "rule" is the constraint on *)
(* its first column; "gen" is what a filter puts in the first column.       *)
Statement(does, rule, cols, vals) ==
  [does |-> does, rule |-> rule, cols |-> cols, vals |-> vals]

Create(rule) == Statement("create", rule, 0, <<>>)
Insert(cols) == Statement("insert", "none", cols, <<>>)
InsertValue(v) == Statement("insert", "none", 0, <<v>>)
InsertKey(cols) == Statement("insert", "key", cols, <<>>)  \* the last column is the key
Select == Statement("select", "none", 0, <<>>)
SelectGen(v) == Statement("select", "none", 0, <<v>>)
SelectGenFails == Statement("select", "fails", 0, <<>>)
NullText == Statement("null", "none", 0, <<>>)
EmptyText == Statement("empty", "none", 0, <<>>)
Pragma(v) == Statement("pragma", "none", 0, <<v>>)

(* The roles of a configuration, numbered from 0: where each may go, and what *)
(* it may open and prepare.                                                  *)
RolesOf(next, srcs, stmts) ==
  [names |-> {k - 1 : k \in DOMAIN next},
   next |-> [r \in {k - 1 : k \in DOMAIN next} |-> next[r + 1]],
   srcs |-> [r \in {k - 1 : k \in DOMAIN next} |-> srcs[r + 1]],
   stmts |-> [r \in {k - 1 : k \in DOMAIN next} |-> stmts[r + 1]]]
RoleSet(next, srcs) == RolesOf(next, srcs, [k \in DOMAIN next |-> {}])
NoRoles == RolesOf(<<>>, <<>>, <<>>)

(* A test: its sources (the modes they are opened with, "absent" when no such *)
(* file exists and it may not be created, "null" without a file name), its    *)
(* statements, its roles and the default one, the statements its filters are  *)
(* for (Bad for a filter without a function), whether a box may be had, and   *)
(* the calls.                                                                 *)
Test(srcs, stmts, calls) ==
  [srcs |-> srcs, stmts |-> stmts, roles |-> NoRoles, def |-> 0, filts |-> {},
   box |-> TRUE, hier |-> 0, gives |-> <<>>, permits |-> <<>>, calls |-> calls]
RoleTest(srcs, roles, calls) == [Test(srcs, <<>>, calls) EXCEPT !.roles = roles]
\* A hierarchy of n roles: what is called, and what each role (those the test
\* looks at) may be changed to and may execute once it has been generated.
HierTest(n, calls) == [Test(<<>>, <<>>, calls) EXCEPT !.hier = n, !.box = FALSE]
Giving(n, calls, gives) == [HierTest(n, calls) EXCEPT !.gives = gives]
Permitting(n, calls, permits) == [HierTest(n, calls) EXCEPT !.permits = permits]
Refused(t) == [t EXCEPT !.box = FALSE]

Memory == <<"rwc">>
Memories == <<"rwc", "rwc">>
Absent == <<"absent">>
Nothing == <<>>

-----------------------------------------------------------------------------
(* Calls.  "sync" calls wait for an answer; "finds" calls look the statement *)
(* up on the client's side first.                                            *)
Call(op, id, x, want) ==
  [op |-> op, id |-> id, x |-> x, fl |-> {}, ps |-> <<>>, sync |-> TRUE,
   finds |-> FALSE, want |-> want]

Async(c) == [c EXCEPT !.sync = FALSE]
Finding(c) == [c EXCEPT !.finds = TRUE]
Binding(c, ps, fl) == [c EXCEPT !.ps = ps, !.fl = fl]

Ping == Call("ping", 0, 0, Ok)
PingFails == Call("ping", 0, 0, Fails)
SetDat == Async(Call("dat", 0, 0, Ok))
Open(src) == Call("open", 0, src, Ok)
OpenFails(src) == Call("open", 0, src, Fails)
OpenAsync(src) == Async(Open(src))
Close(id) == Async(Call("close", id, 0, Ok))
Role(r) == Async(Call("role", 0, r, Ok))
LastId(id, want) == Call("lastid", id, 0, want)
Begin(id, t) == Async(Call("begin", id, t, Ok))
Commit(id, t) == Async(Call("commit", id, t, Ok))
Rollback(id, t) == Async(Call("rollback", id, t, Ok))
Exec(id, i, ps, want) == Binding(Call("exec", id, i, want), ps, {})
CExec(id, i, ps, want) == Binding(Call("exec", id, i, want), ps, {"CONSTRAINT"})
ExecAsync(id, i, ps) == Async(Exec(id, i, ps, Ok))
Prepare(id, i, ps) == Binding(Call("prepare", id, i, Ok), ps, {})
PrepareMulti(id, i, ps) == Binding(Prepare(id, i, ps), ps, {"MULTI"})
CPrepare(id, i, ps) == Binding(Prepare(id, i, ps), ps, {"CONSTRAINT"})
PrepareFails(id, i, ps) == [Prepare(id, i, ps) EXCEPT !.want = Fails]
PrepareAsync(id, i, ps) == Async(Prepare(id, i, ps))
Step(id, want) == Finding(Call("step", id, 0, want))
Finalise(id) == Finding(Async(Call("finalise", id, 0, Ok)))
FinaliseFails(id) == [Finalise(id) EXCEPT !.want = Fails]
Rebind(id, ps) == Binding(Finding(Async(Call("rebind", id, 0, Ok))), ps, {})
RebindFails(id) == [Rebind(id, <<>>) EXCEPT !.want = Fails]

\* Calls of the role hierarchy.
Child(p, c) == Call("child", p, c, Ok)
ChildFails(p, c) == Call("child", p, c, Fails)
Sink(r) == Call("sink", r, r, Ok)
SinkFails(r) == Call("sink", r, r, Fails)
Start(r) == Call("start", r, r, Ok)
StartFails(r) == Call("start", r, r, Fails)
Permit(r, stmt) == Call("stmt", r, stmt, Ok)
Gen(r) == Call("gen", r, r, Ok)

\* prepare, step to the end and finalise: statement s of the test, text i.
Through(s, i, ps, want) == <<Prepare(1, i, ps), Step(s, want), Finalise(s)>>
=============================================================================
