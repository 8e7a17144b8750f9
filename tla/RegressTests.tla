---------------------------- MODULE RegressTests ----------------------------
(***************************************************************************)
(* The regression tests that allocate a box (regress/test-*.c), one        *)
(* definition for each, named after its file, and those of configurations  *)
(* and of role hierarchies.                                                *)
(***************************************************************************)
EXTENDS RegressCalls, TLC

(* Statements that many tests share. *)
Table(n) == <<Create("none"), Insert(n), Select>>
Unique == <<Create("unique"), Insert(1)>>
JustCreate == <<Create("none")>>

-----------------------------------------------------------------------------
(* sqlbox_alloc: configurations that must be refused, and some that must not *)

TestAllocBadDefrole == Refused([Test(Nothing, Nothing, <<>>) EXCEPT !.def = 2])
TestAllocBadFiltStmt == Refused([Test(Nothing, Nothing, <<>>) EXCEPT !.filts = {2}])
TestAllocBadRole == Refused(RoleTest(Nothing, RoleSet(<<{1}>>, <<{}>>), <<>>))
TestAllocBadSrc == Refused(RoleTest(Nothing, RoleSet(<<{0}>>, <<{1}>>), <<>>))
TestAllocBadStmt == Refused(RoleTest(Nothing, RolesOf(<<{}>>, <<{}>>, <<{1}>>), <<>>))
TestAllocDefrole == [RoleTest(Nothing, RoleSet(<<{}, {}>>, <<{}, {}>>), <<>>) EXCEPT !.def = 1]
TestAllocEmptyStmt == Refused(Test(Nothing, <<EmptyText>>, <<>>))
TestAllocNullFilt ==
  Refused([Test(Nothing, <<Insert(1), Insert(1)>>, <<>>) EXCEPT !.filts = {Bad}])
TestAllocNullSource == Refused(Test(<<"null">>, Nothing, <<>>))
TestAllocNullStmt == Refused(Test(Nothing, <<NullText>>, <<>>))
TestAllocRole == RoleTest(Nothing, RoleSet(<<{0}>>, <<{}>>), <<>>)
TestAllocSrc == RoleTest(Memory, RoleSet(<<{}>>, <<{0}>>), <<>>)
TestAllocStmt ==
  [RoleTest(Nothing, RolesOf(<<{}>>, <<{}>>, <<{0}>>), <<>>) EXCEPT !.stmts = <<Select>>]

(* ping, msg_set_dat *)

TestPing == Test(Nothing, Nothing, <<Ping>>)
TestPingFail == Test(Nothing, Nothing, <<Role(3), PingFails>>)
TestMsgSetDat == Test(Nothing, Nothing, <<Ping, SetDat, Ping>>)
TestMsgSetDatNull == Test(Nothing, Nothing, <<Ping, SetDat, Ping, SetDat, Ping>>)

(* open, close *)

TestOpenAsyncBadSrc == Test(Memory, Nothing, <<OpenAsync(1), PingFails>>)
TestOpenAsyncMemory == Test(Memory, Nothing, <<OpenAsync(0), Ping>>)
TestOpenBadNotExist == Test(Absent, Nothing, <<OpenFails(0)>>)
TestOpenBadRole == RoleTest(Memories, RoleSet(<<{0}>>, <<{}>>), <<OpenFails(0)>>)
TestOpenBadSrc == Test(Memory, Nothing, <<OpenFails(1)>>)
TestOpenFileCreate == Test(Memory, Nothing, <<Open(0), Ping>>)
TestOpenForeignkey ==
  Test(Memory, <<Pragma("1")>>,
       <<OpenAsync(0), PrepareAsync(0, 0, Nothing), Step(0, Row(<<"1">>)), Finalise(0)>>)
TestOpenMemoryRole == RoleTest(Memory, RoleSet(<<{}>>, <<{0}>>), <<Open(0), Ping>>)
TestOpenMemory == Test(Memory, Nothing, <<Open(0), Ping>>)
TestOpenNested ==
  Test(Memories, Nothing, <<Open(0), Open(0), Ping, Close(0), Ping, Close(1), Ping>>)
TestOpenNotFound == Test(Absent, Nothing, <<OpenFails(0)>>)
TestOpenTwice == Test(Memory, Nothing, <<Open(0), Ping, Open(0), Ping>>)

TestCloseBadId == Test(Nothing, Nothing, <<Close(Bad), PingFails>>)
TestCloseBadRole ==
  RoleTest(Memory, RoleSet(<<{0, 1}, {}>>, <<{0}, {}>>),
           <<Open(0), Role(1), Close(1), PingFails>>)
TestCloseBadZeroId == Test(Nothing, Nothing, <<Close(0), PingFails>>)
TestCloseTwiceZeroId == Test(Memory, Nothing, <<Open(0), Close(0), Close(1), PingFails>>)
TestCloseTwice == Test(Memory, Nothing, <<Open(0), Close(1), Close(1), PingFails>>)
TestCloseZeroId == Test(Memory, Nothing, <<Open(0), Close(0), Ping>>)
TestClose == Test(Memory, Nothing, <<Open(0), Close(1), Ping>>)

(* role *)

TestRoleBadRole == RoleTest(Nothing, RoleSet(<<{}, {}>>, <<{}, {}>>), <<Role(3), PingFails>>)
ThreeRoles == RoleSet(<<{0, 1}, {}, {}>>, <<{}, {}, {}>>)
TestRoleBadTransition == RoleTest(Nothing, ThreeRoles, <<Role(2), PingFails>>)
TestRoleNorole == Test(Nothing, Nothing, <<Role(0), PingFails>>)
TestRoleTransitionSelf == RoleTest(Nothing, ThreeRoles, <<Role(0), Ping>>)
TestRoleTransition == RoleTest(Nothing, ThreeRoles, <<Role(1), Ping>>)

(* lastid *)

TestLastidBadSrc == Test(Nothing, Nothing, <<LastId(Bad, Fails)>>)
TestLastidBadZeroId == Test(Nothing, Nothing, <<LastId(0, Fails)>>)
Inserted(stmts, ps, id, key) ==
  Test(Memory, stmts, <<Open(0)>> \o Through(2, 0, Nothing, Anything)
                        \o Through(3, 1, ps, Anything) \o <<LastId(id, Id(key))>>)
TestLastidInsertExplicit == Inserted(<<Create("none"), InsertKey(2)>>, <<"20", "4">>, 1, "4")
TestLastidInsertImplicit == Inserted(<<Create("none"), Insert(1)>>, <<"20">>, 1, "1")
TestLastidNoinserts ==
  Test(Memory, JustCreate,
       <<Open(0), Prepare(1, 0, Nothing), Finalise(2), LastId(1, Id("0")), Ping>>)
TestLastidZeroId == Inserted(<<Create("none"), InsertKey(2)>>, <<"20", "4">>, 0, "4")

(* exec *)

TestExecAsyncBadId ==
  Test(Memory, Nothing, <<Open(0), ExecAsync(1, 0, Nothing), PingFails>>)
TestExecAsyncBadSrc ==
  Test(Memory, JustCreate, <<Open(0), ExecAsync(Bad, 0, Nothing), PingFails>>)
TestExecAsyncBadZeroId == Test(Memory, JustCreate, <<ExecAsync(0, 0, Nothing), PingFails>>)
TestExecAsyncConstraint ==
  Test(Memory, Unique, <<Open(0), ExecAsync(1, 0, Nothing), Ping, ExecAsync(1, 1, <<"10">>), Ping,
                         ExecAsync(1, 1, <<"10">>), PingFails>>)
TestExecBadId ==
  Test(Memory, Nothing, <<Open(0), Exec(1, 0, Nothing, Fails), PingFails>>)
TestExecBadSrc == Test(Memory, JustCreate, <<Open(0), Exec(Bad, 0, Nothing, Fails)>>)
TestExecBadZeroId == Test(Memory, JustCreate, <<Exec(0, 0, Nothing, Fails)>>)

\* Creating the table, inserting a row, and the call that follows.
Executed(stmts, ps, last) ==
  Test(Memory, stmts, <<Open(0), Exec(1, 0, Nothing, Anything), Ping,
                        Exec(1, 1, ps, Anything), Ping>> \o last)
Uniquely(v) == <<Create("unique"), InsertValue(v)>>
TestExecConstraintNoparms == Executed(Uniquely("10"), Nothing, <<Exec(1, 1, Nothing, Fails)>>)
TestExecConstraint == Executed(Unique, <<"10">>, <<Exec(1, 1, <<"10">>, Fails)>>)
TestCexecNoparms ==
  Executed(Uniquely("10"), Nothing, <<CExec(1, 1, Nothing, Constraint), Ping>>)
TestCexec == Executed(Unique, <<"10">>, <<CExec(1, 1, <<"10">>, Constraint), Ping>>)
TestExecSelect == Executed(Table(1), <<"10">>, <<Exec(1, 2, Nothing, Anything), Ping>>)
FetchTen == <<Prepare(1, 2, Nothing), Step(2, Row(<<"10">>)), Finalise(2), Ping>>
TestExecCreateInsertNoparms ==
  Executed(<<Create("none"), InsertValue("10"), Select>>, Nothing, FetchTen)
TestExecCreateInsert == Executed(Table(1), <<"10">>, FetchTen)
TestExecZeroId ==
  Test(Memory, Table(1),
       <<OpenAsync(0), Exec(0, 0, Nothing, Anything), Ping, Exec(0, 1, <<"10">>, Anything), Ping,
         Prepare(0, 2, Nothing), Step(1, Row(<<"10">>)), Finalise(1), Ping>>)
TestCstep ==
  Test(Memory, <<Create("notnull"), Insert(1)>>,
       <<Open(0), CPrepare(1, 0, Nothing), Step(2, End), Finalise(2),
         CPrepare(1, 1, <<"null">>), Step(3, Constraint),
         Rebind(3, <<"10">>), Step(3, End)>>)

-----------------------------------------------------------------------------
(* transactions *)

TestTransCloseBadId == Test(Memory, Nothing, <<Open(0), Commit(1, 1), PingFails>>)
TestTransCloseBadSrc == Test(Memory, Nothing, <<Open(0), Commit(0, 1), PingFails>>)
TestTransCloseReopen ==
  Test(Memory, Nothing, <<Open(0), Begin(1, 1), Commit(1, 1), Begin(1, 1), Commit(1, 1), Ping>>)
TestTransCloseTwice ==
  Test(Memory, Nothing, <<Open(0), Begin(1, 1), Commit(1, 1), Commit(1, 1), PingFails>>)
\* Two rows inserted in a transaction, and what is seen of them after it.
Transacted(end, fetched) ==
  Test(Memory, Table(1),
       <<Open(0), ExecAsync(1, 0, Nothing), Begin(0, 1),
         ExecAsync(1, 1, <<"10">>), ExecAsync(1, 1, <<"20">>), end,
         PrepareMulti(1, 2, Nothing)>> \o fetched \o <<Step(2, End), Finalise(2), Close(1)>>)
TestTransCommit ==
  Transacted(Commit(0, 1), <<Step(2, Row(<<"10">>)), Step(2, Row(<<"20">>))>>)
TestTransRollback == Transacted(Rollback(0, 1), <<>>)
TestTransOpenBadClose ==
  Test(Memory, Nothing, <<Open(0), Begin(1, 1), Ping, Close(1), PingFails>>)
TestTransOpenBadId == Test(Memory, Nothing, <<Open(0), Begin(1, 0), PingFails>>)
TestTransOpenBadSrc == Test(Memory, Nothing, <<Begin(Bad, 1), PingFails>>)
TestTransOpenBadZeroId == Test(Memory, Nothing, <<Begin(0, 1), PingFails>>)
TestTransOpenNested ==
  Test(Memory, Nothing, <<Open(0), Begin(1, 1), Ping, Begin(1, 2), PingFails>>)
TestTransOpenSameIdDiffSrc ==
  Test(Memories, Nothing, <<Open(0), Open(1), Begin(1, 1), Ping, Begin(2, 1), Ping>>)
TestTransOpenZeroId == Test(Memory, Nothing, <<Open(0), Begin(0, 1), Ping>>)
TestTransOpen == Test(Memory, Nothing, <<Open(0), Begin(1, 1), Ping>>)

(* prepare_bind *)

TestPrepareBindAsyncBadSrc ==
  Test(Memory, Nothing, <<PrepareAsync(Bad, 0, Nothing), PingFails>>)
TestPrepareBindAsync ==
  Test(Memory, JustCreate, <<Open(0), Ping, PrepareAsync(1, 0, Nothing), Ping,
                             Step(0, End), Finalise(0), Ping>>)
TestPrepareBindBadSrc == Test(Memory, JustCreate, <<Open(0), Ping, PrepareFails(Bad, 0, Nothing)>>)
TestPrepareBindBadStmt == Test(Memory, JustCreate, <<Open(0), Ping, PrepareFails(1, 1, Nothing)>>)
TestPrepareBindBadZeroId == Test(Memory, JustCreate, <<PrepareFails(0, 0, Nothing)>>)
TestPrepareBindNested ==
  Test(Memory, <<Create("none"), InsertValue("1"), Select, Select>>,
       <<OpenAsync(0), ExecAsync(0, 0, Nothing), ExecAsync(0, 1, Nothing),
         Prepare(0, 2, Nothing), Prepare(0, 3, Nothing),
         Finalise(0), Ping, Finalise(1), Ping>>)
\* A statement is prepared, with a ping after it, and what follows.
Prepared(last) ==
  Test(Memory, JustCreate, <<Open(0), Ping, Prepare(1, 0, Nothing), Ping>> \o last)
TestPrepareBindNoparms == Prepared(<<Finalise(2), Ping>>)
TestPrepareBindZeroId ==
  Test(Memory, JustCreate, <<Open(0), Ping, Prepare(0, 0, Nothing), Ping>>)

(* finalise *)

TestFinaliseBadStmt == Prepared(<<FinaliseFails(Bad), Ping>>)
TestFinaliseBadZeroId == Test(Memory, JustCreate, <<Open(0), Ping, FinaliseFails(0), Ping>>)
TestFinaliseTwiceZeroId == Prepared(<<Finalise(0), Ping, FinaliseFails(2), Ping>>)
TestFinaliseTwice == Prepared(<<Finalise(2), Ping, FinaliseFails(2), Ping>>)
TestFinaliseZeroId == Prepared(<<Finalise(0), Ping>>)
TestFinalise == Prepared(<<Finalise(2), Ping>>)

(* rebind *)

TestRebindAfterFinalise == Prepared(<<Finalise(2), RebindFails(2)>>)
TestRebindBadId == Test(Memory, Nothing, <<RebindFails(1)>>)
TestRebindBadZeroId == Test(Memory, Nothing, <<RebindFails(0)>>)
\* The second insert has one parameter for its two columns.
Rebound(id) ==
  Test(Memory, Table(2),
       <<Open(0), Ping>> \o Through(2, 0, Nothing, End)
       \o <<Prepare(1, 1, <<"10", "20">>), Step(3, End), Rebind(id, <<"30">>), Step(3, End),
            Finalise(3), Prepare(1, 2, Nothing), Step(4, Row(<<"10", "20">>)),
            Step(4, Row(<<"30", "null">>)), Step(4, End)>>)
TestRebindZeroId == Rebound(0)
TestRebind == Rebound(3)

(* filters *)

\* A row is inserted and fetched through the filter of the last statement.
Filtered(select, v, want) ==
  [Test(Memory, <<Create("none"), Insert(1), select>>,
        <<Open(0)>> \o Through(2, 0, Nothing, Anything) \o Through(3, 1, <<v>>, Anything)
        \o <<Prepare(1, 2, Nothing), Step(4, want)>>)
   EXCEPT !.filts = {2}]
TestFilterGenOutFail == Filtered(SelectGenFails, "10", Fails)
TestFilterGenOutFloat == Filtered(SelectGen("20.0"), "10.0", Row(<<"20.0">>))
TestFilterGenOutInt == Filtered(SelectGen("20"), "10", Row(<<"20">>))
TestFilterGenOutString == Filtered(SelectGen("foobar"), "xyzzy", Row(<<"foobar">>))

-----------------------------------------------------------------------------
(* step *)

TestStepBadStmt == Test(Nothing, Nothing, <<Step(1, Fails)>>)
TestStepBadZeroId == Test(Nothing, Nothing, <<Step(0, Fails)>>)
\* A null is inserted into a column that allows it or does not.
StepNull(rule, want) ==
  Test(Memory, <<Create(rule), Insert(1)>>,
       <<Open(0)>> \o Through(2, 0, Nothing, Anything)
       \o <<Prepare(1, 1, <<"null">>), Step(3, want)>>)
TestStepConstraintCode == StepNull("none", End)
TestStepConstraint == StepNull("notnull", Fails)
TestStepCreate == Prepared(<<Step(2, End), Finalise(2), Ping>>)
TestStepZeroId == Prepared(<<Step(0, End), Finalise(2), Ping>>)
TestStepDoubleExec ==
  Test(Memory, JustCreate,
       <<Open(0), Ping, Prepare(1, 0, Nothing), Step(2, End), Step(2, Fails), PingFails>>)

\* A table is created, a row of n values is inserted, and it is read back.
Stored(n, ps, row, last) ==
  Test(Memory, Table(n),
       <<Open(0), Ping>> \o Through(2, 0, Nothing, End) \o Through(3, 1, ps, End)
       \o Through(4, 2, Nothing, Row(row)) \o last)
Closed == <<Ping, Close(1), Ping>>
Kept(v) == Stored(1, <<v>>, <<v>>, Closed)

TestStepCreateInsertSelect == Stored(1, <<"10">>, <<"10">>, <<Ping>>)
\* Two rows, read back in order.
StoredTwo(n, row1, row2) ==
  Test(Memory, Table(n),
       <<Open(0), Ping>> \o Through(2, 0, Nothing, End)
       \o Through(3, 1, row1, End) \o Through(4, 1, row2, End)
       \o <<Prepare(1, 2, Nothing), Step(5, Row(row1)), Step(5, Row(row2)), Step(5, End),
            Finalise(5)>> \o Closed)
TestStepCreateInsertSelectmulti == StoredTwo(1, <<"10">>, <<"20">>)
TestStepCreateInsertSelectmulticol ==
  StoredTwo(4, <<"10", "20.0", "xyzzy", "00010203">>, <<"20", "30.0", "yzzyx", "050403020100">>)
TestStepFloatExplicitLength == Kept("20.0")
TestStepFloatInf == Kept("inf")
TestStepFloatNan == Stored(1, <<"nan">>, <<"null">>, Closed)
TestStepFloatMaxvalue == Kept("DBL_MAX")
\* 900 columns; four here.
TestStepFloatMany ==
  Stored(4, <<"0.0", "1.0", "2.0", "3.0">>, <<"0.0", "1.0", "2.0", "3.0">>, Closed)
TestStepIntMany == Stored(4, <<"0", "1", "2", "3">>, <<"0", "1", "2", "3">>, Closed)
TestStepIntExplicitLength == Kept("20")
TestStepIntMaxnegvalue == Kept("INT64_MIN")
TestStepIntMaxvalue == Kept("INT64_MAX")
TestStepStringExplicitLength == Kept("ab.cd")
\* Without a length the string ends at its first NUL: that is all that is sent.
TestStepStringImplicitLength == Stored(1, <<"ab">>, <<"ab">>, Closed)
TestStepStringLongImplicit == Kept("aaaa")
TestStepStringLong == Kept("aaaa")
TestStepStringLongMulti == Stored(2, <<"AZBY", "CXD">>, <<"AZBY", "CXD">>, Closed)
TestStepStringMissingNul ==
  Test(Memory, Table(1),
       <<Open(0), Ping>> \o Through(2, 0, Nothing, End) \o <<PrepareFails(1, 1, <<"unterminated">>)>>)

(* step, with SQLBOX_STMT_MULTI *)

\* Rows are inserted without waiting and fetched ahead.
Ahead(rows, last) ==
  Test(Memory, Table(1),
       <<Open(0), ExecAsync(1, 0, Nothing)>>
       \o [k \in DOMAIN rows |-> ExecAsync(1, 1, <<rows[k]>>)]
       \o <<PrepareMulti(1, 2, Nothing)>>
       \o [k \in DOMAIN rows |-> Step(2, Row(<<rows[k]>>))]
       \o <<Step(2, End)>> \o last)
Twice == <<Step(2, Fails)>>
Done == <<Finalise(2), Close(1)>>
\* 4096 of them, more than a buffer holds; four here, and buffers of any size.
Many == <<"0", "1", "2", "3">>
TestStepMultiManyTwice == Ahead(Many, Twice)
TestStepMultiMany == Ahead(Many, Done)
TestStepMultiNoneTwice == Ahead(<<>>, Twice)
TestStepMultiNone == Ahead(<<>>, Done)
TestStepMultiNone2 ==
  Test(Memory, JustCreate, <<Open(0), PrepareMulti(1, 0, Nothing), Step(2, End)>> \o Done)
TestStepMultiTwice == Ahead(<<"10", "20">>, Twice)
TestStepMulti == Ahead(<<"10", "20">>, Done)

-----------------------------------------------------------------------------
(* hierarchies of roles *)

TestHierChildLoop == HierTest(3, <<Child(0, 1), Child(1, 2), ChildFails(2, 0)>>)
TestHierChildReadd == HierTest(3, <<Child(0, 1), Child(1, 2), ChildFails(1, 2)>>)
TestHierInvalidChild == HierTest(1, <<ChildFails(0, 1)>>)
TestHierInvalidParent == HierTest(1, <<ChildFails(1, 0)>>)
TestHierSelfReference == HierTest(1, <<Child(0, 0)>>)
TestHierSimple ==
  Giving(3, <<Child(0, 1), Child(0, 2), Gen(0)>>, 0 :> {1, 2} @@ 1 :> {} @@ 2 :> {})
Five == <<Child(0, 1), Child(0, 2), Child(2, 3), Child(2, 4)>>
TestHierSimple2 ==
  Giving(5, Five \o <<Gen(0)>>, 0 :> 1..4 @@ 1 :> {} @@ 2 :> {3, 4})
\* (The test counts the transitions of role 2 and looks for them in role 0's.)
TestHierSimple3 ==
  Giving(6, Five \o <<Child(4, 5), Gen(0)>>,
         0 :> 1..5 @@ 1 :> {} @@ 2 :> 3..5 @@ 3 :> {} @@ 4 :> {5})
TestHierSinkBadChildPost == HierTest(2, <<Sink(1), ChildFails(0, 1)>>)
TestHierSinkBadChild == HierTest(2, <<Child(0, 1), SinkFails(1)>>)
TestHierSinkBadIndex == HierTest(2, <<SinkFails(3)>>)
TestHierSinkBadParentPost == HierTest(2, <<Sink(0), ChildFails(0, 1)>>)
TestHierSinkBadParent == HierTest(2, <<Child(0, 1), SinkFails(0)>>)
TestHierSinkEmpty == Giving(1, <<Sink(0), Gen(0)>>, 0 :> {})
TestHierSinkReadd == HierTest(3, <<Child(0, 1), Sink(2), Sink(2)>>)
TestHierSinkSimple ==
  Giving(4, <<Child(0, 1), Child(0, 2), Sink(3), Gen(0)>>,
         0 :> 1..3 @@ 1 :> {3} @@ 2 :> {3} @@ 3 :> {})
TestHierStartBadChild == HierTest(2, <<Child(0, 1), StartFails(1)>>)
TestHierStartBadIndex == HierTest(2, <<StartFails(3)>>)
TestHierStartBadParent == HierTest(2, <<Child(0, 1), StartFails(0)>>)
TestHierStartEmpty == Giving(1, <<Start(0), Gen(0)>>, 0 :> {})
TestHierStartReadd == HierTest(3, <<Child(0, 1), Start(2), Start(2)>>)
TestHierStartSimple ==
  Giving(4, <<Child(0, 1), Child(0, 2), Start(3), Gen(0)>>,
         0 :> {1, 2} @@ 1 :> {} @@ 2 :> {} @@ 3 :> 0..2)
TestHierStartSink ==
  Giving(4, <<Start(0), Start(1), Sink(2), Sink(3), Gen(0)>>,
         0 :> {2, 3} @@ 1 :> {2, 3} @@ 2 :> {} @@ 3 :> {})
\* Statement 1 for role 0, statement 2 for role 2, given once or more.
Inheriting(permits) ==
  Permitting(5, Five \o permits \o <<Gen(0)>>,
             0 :> {1} @@ 1 :> {1} @@ 2 :> {1, 2} @@ 3 :> {1, 2} @@ 4 :> {1, 2})
TestHierStmtsReadd == Inheriting(<<Permit(0, 1), Permit(0, 1), Permit(2, 2), Permit(2, 2)>>)
TestHierStmtsReadd2 == Inheriting(<<Permit(0, 1), Permit(2, 1), Permit(2, 2)>>)
TestHierStmts == Inheriting(<<Permit(0, 1), Permit(2, 2)>>)

-----------------------------------------------------------------------------
Tests == <<
  TestAllocBadDefrole, TestAllocBadFiltStmt, TestAllocBadRole,
  TestAllocBadSrc, TestAllocBadStmt, TestAllocDefrole, TestAllocEmptyStmt,
  TestAllocNullFilt, TestAllocNullSource, TestAllocNullStmt, TestAllocRole,
  TestAllocSrc, TestAllocStmt, TestPing, TestPingFail, TestMsgSetDat,
  TestMsgSetDatNull, TestOpenAsyncBadSrc, TestOpenAsyncMemory,
  TestOpenBadNotExist, TestOpenBadRole, TestOpenBadSrc, TestOpenFileCreate,
  TestOpenForeignkey, TestOpenMemoryRole, TestOpenMemory, TestOpenNested,
  TestOpenNotFound, TestOpenTwice, TestCloseBadId, TestCloseBadRole,
  TestCloseBadZeroId, TestCloseTwiceZeroId, TestCloseTwice, TestCloseZeroId,
  TestClose, TestRoleBadRole, TestRoleBadTransition, TestRoleNorole,
  TestRoleTransitionSelf, TestRoleTransition, TestLastidBadSrc,
  TestLastidBadZeroId, TestLastidInsertExplicit, TestLastidInsertImplicit,
  TestLastidNoinserts, TestLastidZeroId, TestExecAsyncBadId,
  TestExecAsyncBadSrc, TestExecAsyncBadZeroId, TestExecAsyncConstraint,
  TestExecBadId, TestExecBadSrc, TestExecBadZeroId, TestExecConstraintNoparms,
  TestExecConstraint, TestCexecNoparms, TestCexec, TestExecSelect,
  TestExecCreateInsertNoparms, TestExecCreateInsert, TestExecZeroId,
  TestCstep, TestTransCloseBadId, TestTransCloseBadSrc, TestTransCloseReopen,
  TestTransCloseTwice, TestTransCommit, TestTransRollback,
  TestTransOpenBadClose, TestTransOpenBadId, TestTransOpenBadSrc,
  TestTransOpenBadZeroId, TestTransOpenNested, TestTransOpenSameIdDiffSrc,
  TestTransOpenZeroId, TestTransOpen, TestPrepareBindAsyncBadSrc,
  TestPrepareBindAsync, TestPrepareBindBadSrc, TestPrepareBindBadStmt,
  TestPrepareBindBadZeroId, TestPrepareBindNested, TestPrepareBindNoparms,
  TestPrepareBindZeroId, TestFinaliseBadStmt, TestFinaliseBadZeroId,
  TestFinaliseTwiceZeroId, TestFinaliseTwice, TestFinaliseZeroId,
  TestFinalise, TestRebindAfterFinalise, TestRebindBadId, TestRebindBadZeroId,
  TestRebindZeroId, TestRebind, TestFilterGenOutFail, TestFilterGenOutFloat,
  TestFilterGenOutInt, TestFilterGenOutString, TestStepBadStmt,
  TestStepBadZeroId, TestStepConstraintCode, TestStepConstraint,
  TestStepCreate, TestStepZeroId, TestStepDoubleExec,
  TestStepCreateInsertSelect, TestStepCreateInsertSelectmulti,
  TestStepCreateInsertSelectmulticol, TestStepFloatExplicitLength,
  TestStepFloatInf, TestStepFloatNan, TestStepFloatMaxvalue,
  TestStepFloatMany, TestStepIntMany, TestStepIntExplicitLength,
  TestStepIntMaxnegvalue, TestStepIntMaxvalue, TestStepStringExplicitLength,
  TestStepStringImplicitLength, TestStepStringLongImplicit,
  TestStepStringLong, TestStepStringLongMulti, TestStepStringMissingNul,
  TestStepMultiManyTwice, TestStepMultiMany, TestStepMultiNoneTwice,
  TestStepMultiNone, TestStepMultiNone2, TestStepMultiTwice, TestStepMulti,
  TestHierChildLoop, TestHierChildReadd, TestHierInvalidChild,
  TestHierInvalidParent, TestHierSelfReference, TestHierSimple,
  TestHierSimple2, TestHierSimple3, TestHierSinkBadChildPost,
  TestHierSinkBadChild, TestHierSinkBadIndex, TestHierSinkBadParentPost,
  TestHierSinkBadParent, TestHierSinkEmpty, TestHierSinkReadd,
  TestHierSinkSimple, TestHierStartBadChild, TestHierStartBadIndex,
  TestHierStartBadParent, TestHierStartEmpty, TestHierStartReadd,
  TestHierStartSimple, TestHierStartSink, TestHierStmtsReadd,
  TestHierStmtsReadd2, TestHierStmts >>
=============================================================================
