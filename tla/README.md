# sqlbox in TLA+

sqlbox is a C library that keeps SQLite databases in a process of its own.
`sqlbox_alloc()` forks; the parent (the *client*) keeps one end of a socket
pair and the child (the *server*) the other.  Everything a client may do
(databases, SQL statements, roles and the transitions between roles) is fixed
in a configuration before the fork; after it the client only names things by
index and identifier.  This directory models the protocol and the state on both
sides of it, checks the models with TLC and proves the main theorems with
TLAPS.

## The system

| Part | Source | State | Operations |
| --- | --- | --- | --- |
| server | `main.c`, `open.c`, `close.c`, `prepare_bind.c`, `exec.c`, `finalise.c`, `step.c`, `rebind.c`, `transaction.c`, `lastid.c`, `role.c`, `ping.c`, `sqlite3.c`, `alloc.c` (`sqlbox_clear`) | role, identifier counter, queue of databases, queue of statements, per database its statements and the name of its transaction, per statement its buffered results | the sixteen handlers of `ops[]`, the teardown |
| result streaming | `step.c`, `rebind.c`, `alloc.c` (`sqlbox_res_clear`) | rows fetched ahead in the server, result set in the client, end marks | `sqlbox_step`, `sqlbox_op_step`, `sqlbox_rebind`, `sqlbox_op_rebind` |
| client | the public half of the same files | its own queue of statements, their result sets | the public calls, synchronous (write, wait for the reply) or asynchronous (write only) |
| transport | `io.c` | bytes in the two directions of the socket pair | read and write of frames and of raw acknowledgements |
| role hierarchy | `hier.c` | parents, starts, sinks, per-role statements and sources | construction calls, `sqlbox_role_hier_gen` |
| parameters | `parm.c` | a growing buffer and a position | pack, unpack, convert |
| allocation | `alloc.c` | two descriptors, two processes | `sqlbox_alloc`, `sqlbox_cfg_vrfy` |
| SQLite | external | connections, statements, transactions, locks | what `sqlite3.c` calls |

The server is single-threaded and runs one handler at a time to its end.  A
handler that fails never answers: it returns zero, the main loop ends, the
teardown releases everything, and the client finds the socket closed at its
next call.  That *fail-stop* rule is what every partial failure leans on.  The
concurrency is between client and server: asynchronous calls put any number of
requests into the pipe before the server sees the first, and rows are fetched
ahead after the reply of a step has been written.

What makes each part correct, and where it is hard to get right, is listed line
by line under `hazards` in `PROJECT.json`.

## Modules

| Module | What it is |
| --- | --- |
| `BoxServer` | the server: every handler and the teardown |
| `MCBoxServer` | its configurations for TLC |
| `BoxServerProofs` | its inductive invariant and theorems |
| `Box` | the calls of a client and the process that serves them: two queues of statements and the pipe between them |
| `BoxProofs` | its inductive invariant and theorems |
| `RowStream` | what `sqlbox_step` promises of one statement (abstract) |
| `BoxStep` | one statement at both ends of the socket, implementing `RowStream` |
| `BoxStepProofs` | its inductive invariant, theorems and the refinement |
| `FramePipe` | what reading frames promises (abstract) |
| `Frame` | frames over a stream of bytes, implementing `FramePipe` |
| `FrameProofs` | its inductive invariant, theorems and the safety half of the refinement |
| `ParmPack` | sets of parameters packed into a growing buffer and unpacked from it |
| `ParmPackProofs` | how far the two passes of packing can differ, for all sets |
| `ParmTripProofs` | that what was packed arrives, for all sets |
| `RoleHier` | the builder of hierarchical roles and the generator of the flat ones |
| `MCRoleHier` | its permission for TLC |
| `RoleHierProofs` | its inductive invariant and theorems |
| `Boxes` | several boxes of one process: descriptors, forks, and the locks of a database they share |
| `BoxesProofs` | its inductive invariant and theorems |
| `RegressCalls` | the vocabulary of the regression tests: configurations, calls, outcomes |
| `RegressTests` | 158 of the programs in `regress/`, a definition for each |
| `Regress` | their calls run against the server of `BoxServer` and the builder of `RoleHier` |

`Regress` composes: it holds the variables of `BoxServer` and `RoleHier` and
takes both by `INSTANCE`, with the configuration of the test as their constants.
`BoxStep` and `Frame` are shown to implement `RowStream` and `FramePipe`, which
they instantiate with their own variables for the abstract ones.

### BoxServer

One action per handler; an action is the whole handler, its failures included.
A request may carry any identifier up to the bound, because the client may send
stale ones and the server is what has to cope.  `db` and `stmt` are the
structures of `extern.h` by identifier, `dbq` and `stmtq` the two queues in
order; `conn` and `handle` are SQLite's side, so that leaks, double closes and
transactions that only one side knows of are visible.  Failure of memory, of
SQLite or of the reply is a free choice of the action at the point where the
code can meet it; where the point matters (a reply that cannot be written after
the statement was queued, a pragma that fails after the database was) it is a
disjunct of its own.  After a failure the phase is "clear" and the teardown
runs, one action per statement and per database.

Properties, in the order of the module: the queues of databases and statements
agree (`QueuesAgree`); SQLite holds exactly what the queues own
(`HandlesOwned`); identifier zero finds the newest (`LastMeansNewest`); what is
held was opened by right (`HeldWithinReach`); no transaction is open without a
name (`NoHiddenTransaction`) and, but for conflict clauses that roll back, none
is named without being open while the server serves (`NamedTransactionIsOpen`;
a statement that fails may have taken the transaction with it, which is
`FailRolledBack` and ends the serving); identifiers are never
reused (`IdsNeverReused`); no close while serving discards work
(`CloseDiscardsNothing`); after the first failure the process ends with
everything closed (`ServerExits`). The comment in `sqlbox_clear` that nothing is
left once the databases are cleaned out is `ClearedOut`, which is proved
(`TeardownIsComplete`) and has no run of its own.

### RowStream and BoxStep

`RowStream` has three variables, a binding count, the result returned last and
whether a call has failed: results come in order, none missing, none twice, none
of an earlier binding, none after a failure.  `BoxStep` is the code that keeps
this promise: `sqlbox_step` with its cached result set (`cset`, `curset`), the
two directions of the socket, `sqlbox_op_step` with what it has fetched ahead
(`sbuf`, `sdone`), `sqlbox_rebind`, which does not wait for an answer, and the
statement inside SQLite, which starts over when stepped past its end.  One
action of the model is one call, or the part of a call between two moments the
other process can see: `sqlbox_step` is split where it waits, `sqlbox_op_step`
where its reply has left and it goes on fetching.  A row is known by its binding
and its number; a row may be of any size, so a buffer may be full after any row.

A refinement mapping is not needed beyond the names: `run`, `out` and `failed`
are variables of both.  `RunsOnce` says that no statement is executed twice for
one binding; `NoStrayReply` that a reply is never left for a later call;
`NeverTwice` is what remains of the stream when the client runs out of memory;
`StepReturns` that a call always returns.

The client may find no memory (`StepNoMemory`) at three places that leave
different things behind. Without memory for the buffer (`io.c:174`) the reply,
there or still to come, stays whole in the socket and the next call reads it.
Without memory for the result set (`step.c:107`) the reply is gone, and what was
taken apart of it stays in the set. In the middle of a frame longer than its
basis (`io.c:241`) the basis has been read and the rest stays in the socket: the
frame is `torn`. After that `sqlbox_step` reads the rest as if a frame began
there, with any bytes of a row for its length, so that it may wait for bytes
nobody sends, fail, or return anything at all (`StepGarbled`). `NeverTwice` and
`StepReturns` are about the time until then. sqlbox_step(3) says that a box
whose step has failed is of no more use; neither end sees to that at any of the
three places, and what may still come out of the box is what `NeverTwice` says.

### Box

`Box` looks at the whole library from its two queues of statements, the client's
(`cq`, result sets) and the server's (`sq`, SQLite handles). Each resolves an
identifier, zero in particular, on its own: the client when the call is made,
the server when the request arrives. A call is a write and, for those that wait,
a read (`Answered`, `Misread`, `Hangup`, `Interrupted`). Requests carry two
ghost numbers, their own and that of the prepare the client means, so that
`SameStatement` can say that the server finds what the client meant,
`QueuesMirror` that the queues agree when nothing is under way, and
`AnswerIsMine` that no call reads the answer of another. `NothingDropped` says
that requests without an answer are still carried out after `sqlbox_free`. A
handler that fails is a server that stops, at any time (`Die`), and so is one
that cannot write its answer, because the client has gone (`OpNotWritten`).

Both directions of the socket are bounded by `MaxPipe`. A call that finds no
room for its request waits (`stuck`), and the server handles no request whose
answer it could not write. Answers have lengths: one word of four bytes for an
acknowledgement or an identifier, two for sqlbox_lastid(3), and for a step a
frame of at least `Basis` words, 256 in the code. `Wants` is what a call reads
to begin with. `Answered` is a call whose answer comes next and has that length
(`Fits`).

A signal may interrupt `poll` in any call that waits, which the code takes for a
failure of the call, before anything of the answer has been read or in the
middle of it (`Interrupted`; no memory for the rest of a long frame is a case of
it, too). `cut` counts how often it has happened. From then on an answer, or the
rest of one, comes to a client that no longer waits for it, and a later call
that wants another length may stop within it, go on into the next, or take its
words for the length of a frame and wait for more (`Misread`). `SameStatement`,
`QueuesMirror`, `AnswerIsMine` and `CallsReturn`, that every call returns also
if it has to wait for room, are therefore about the time before. What comes
after is as bad as it looks: one answer left unread can have a later step wait
for ever, and unread answers can fill one direction while requests fill the
other, so that the server waits in a write and the client, too. `NothingDropped`
and `ServerEnds` hold in any case. `FailureIsFinal` is what the manual says of a
failed call, and `box_signal` how it fails.

`Wire` is how many identifiers can be told apart on the socket, 2^32 in the
code; the server counts in a `size_t` and does not check. The run gives out
more. Beyond it the server may send an identifier as zero, which the client
takes for a failure, and an old number may be that of a new statement:
`SameStatement` fails there and, with `QueuesMirror` and `AnswerIsMine`, is
about the identifiers below.

### Frame and FramePipe

`BoxStep` and `Box` take it that a frame written is a frame read; `Frame` is the
part of `io.c` that makes it so.  The writer's loop in `sqlbox_write` is an
action per `send`, the reader's two loops in `sqlbox_read_frame` an action per
`read`, each of any number of bytes.  A byte is known by its frame and place, so
that a byte too many or too few is seen when it happens (`InStep`) and not only
in a wrong frame.  The buffer is the caller's and outlives the frame, as the one
of `sqlbox_main_loop` does.  `FramePipe` has the frames written, the frames read
and how the writer ended; `Frame` implements it with the same names, including
that an end within a frame is a failure and that a frame that is there is read
(`ImplementsFramePipe`).  A reader that fails stops here, as the server does; what
a client finds that goes on reading is in `BoxStep` (`StepGarbled`) and `Box`
(`Misread`).

How `poll` reports the end is a parameter.  Stream sockets report it as readable,
with a hangup or without, and then `read` returns nothing.  The code also has a
branch for a hangup without it (`HangupAlone`): the second loop then leaves with
a `break` and returns the frame although it is cut off (`io.c:264`), where the
first fails, even between two frames.  `ImplementsFramePipe` is checked without
this branch and does not hold with it; `InStep` is proved for both.

### RoleHier

`RoleHier` is `hier.c`, which runs before there is a server and produces the
roles the server checks requests against.  A call of the builder is an action; a
call that is refused or finds no memory changes nothing.  `sqlbox_role_hier_gen`
is one action per assignment of the loops that climb from a role to its root,
and one per loop otherwise, because what matters of it happens between its
loops: the first counts what the third writes, and all climbs rely on the
builder never having closed a cycle (`Forest`, `GenReturns`).  `room` is
`rolesz` while it is a count and a length to allocate, `roles` the arrays with
what `rolesz` counts after its reset; `RoomSuffices` compares the two.
`MayEnter` and `MayUse` say what the manual promises, and `Lineage`, which they
use, is a least closed set rather than a climb, so they share nothing with the
loops.  `NothingExtra` holds at every step of the generator, `NothingMissing` at
its end.  Statements and sources are two kinds of one thing.

### ParmPack

`ParmPack` is `sqlbox_parm_pack` and `sqlbox_parm_unpack`, a parameter at a
time, with the callers that decide where a set starts: behind the header of a
request, or behind the code of a row in a reply that other rows may follow.
Packing lays the set out twice.  The first pass adds up how long it will be, the
buffer is grown by that, and the second pass writes; both pad, but the first
pads its own sum, which starts with what the prologue takes (`parm.c:69-72`),
and the second the place in the buffer.  `ShortByFour` says how far this goes
wrong: a set that starts halfway between two multiples of eight and has an
integer or a float may need four bytes more than there are, and none ever needs
more than that.

The buffer is the set of fields written to it, by place, size and meaning, so
that `memset` of what is taken for the rest of it (`step.c:286`), a `realloc`
that keeps only the old length, and a read at the wrong place are seen.
`RoundTrip` says that sets that had room arrive as they were sent, that the
reader finds the end of the frame and never reads past it.  It is about sums
with several paddings, which the unpacking adds to the bytes left where it
should take them off.

### Boxes

`Boxes` looks at the process that calls `sqlbox_alloc` several times, and at the
servers it forks.  `table` is what each process has open by descriptor.  A child
starts with all its parent has, also the client's ends of boxes that are still
up, so a server may have to wait for later ones before it reads end of file
(`EndsAfterLater`); `boxes_linger` shows a transaction that is still locked
after `sqlbox_free`.  The numbers of descriptors matter because
`sqlbox_alloc_fd` closes one of them twice: `OwnEnds` says that nothing else is
closed by that, `NothingLeaked` that no failure of `sqlbox_alloc` leaves
anything open.  Both are for one allocating thread.

The servers share a database. SQLite's locks are external and those of a
rollback journal; where a lock is not granted the server repeats the call, which
is to say that its step is not enabled. `NoStandstill`, that not everybody is
refused, and `ExecReturns` are therefore about callers (`Careful`) that write in
immediate transactions only and that end what they begin: two deferred
transactions that both want to write wait for one another for ever, as a comment
in `sqlite3.c` says they will.

### RegressCalls, RegressTests and Regress

The regression tests say what the authors expect of sqlbox, call by call.
`RegressTests` restates 158 of them as data: a configuration and a sequence of
calls, each with the outcome the test insists on (success, failure, a constraint
violation, a row of certain values, the end of the rows).  A value is a token,
and SQL is what the tests' statements do: create a table with or without a
constraint, insert, select.

`Regress` runs them.  The client makes the calls one by one through the queue of
its statements and a pipe; the server takes the requests in its own time, each
step of it being a step of the handlers in `BoxServer`, of which the model picks
the outcome SQLite would give.  The tests of hierarchies run against `RoleHier`
the same way.  A test on a machine sees one interleaving; here each is checked
in all of them, and with results fetched ahead by any number of rows
(`AsExpected`, `TestsEnd`).  It is also what ties the models to the program: a
handler that refuses what the tests do, or accepts what they see refused, fails
here.

## Runs

| Run | Shows | Bounds |
| --- | --- | --- |
| `server_roles` | the properties of `BoxServer` with three roles, one of them unreachable | 4 identifiers, 2 sources, 2 statements, 2 transaction names |
| `server_orrollback` | `NamedTransactionIsOpen` fails when a statement that rolls back on conflict runs with constraint violations allowed: `db->trans`, documented as "if >0, exp. transaction", is stale | 2 identifiers, 1 source, 1 statement |
| `step_stream` | `BoxStep` implements `RowStream`; `RunsOnce`, `NoStrayReply` | 5 rows, 4 bindings, 4 requests in the pipe |
| `step_short` | `NeverTwice`, `StepReturns` until a frame is torn, when the client's allocations may fail | 2 rows, 2 bindings, 2 requests |
| `box_calls` | `SameStatement`, `QueuesMirror`, `AnswerIsMine`, `CallsReturn` until a call is cut short; `NothingDropped`, `ServerEnds` whatever answers are misread after that | 5 calls, one of them cut short anywhere, 2 requests or answers in either direction, 4 identifiers on the wire, frames of 3 words |
| `box_signal` | `FailureIsFinal` fails: a call interrupted by a signal fails, and the next one reads its answer | 3 calls |
| `hier_edges` | `Forest`, `EndsStandAlone`, `NothingCountedForEnds`, `RoomSuffices`, `NothingExtra`, `NothingMissing`, `GenReturns` | 4 roles, 1 statement |
| `frame_cut` | `InStep`, `ImplementsFramePipe`, with allocations that fail | 4 frames of 2, 3, 4 or 7 bytes over a basis of 3, 5 bytes in the socket |
| `parm_sets` | `ShortByFour`, `RoundTrip` | 2 parameters of any type, lengths 0 and 3, 3 rows, a first buffer of 40 bytes, no more rows from 64 on |
| `boxes` | `OwnEnds`, `NothingLeaked`, `NoStandstill`, `ExecReturns`, `EndsAfterLater` | 2 boxes, 4 requests to each, 2 in a pipe |
| `boxes_linger` | `FreeRollsBack` fails: a later server holds the client's end of a box that was freed | 2 boxes, 3 requests |
| `regress` | `AsExpected`, `TestsEnd` | the tests as they are; 6 identifiers, 2 transaction names |

Why the bounds are enough:

Four identifiers (`server_roles`) make two databases with a statement each, one
database with three statements, and closing and reopening in any order; each
handler touches at most one database and one statement, and the queues are
compared pairwise.  Two transaction names tell a transaction's own from another.

Five rows (`step_stream`) let the client's set, the reply and the server's
buffer hold several rows each at the same time; four bindings and a pipe of four
put three rebinds and a step into the pipe at once.

Five calls (`box_calls`) are enough for two statements prepared, each of them
used by number or by zero, or one finalised and then called by its old number,
in any order and with some of it in the pipe at once; they are more than the
wire can number. They are also one that is cut short, one that leaves the rest
of an answer of another length, and two or three that meet it. The pipe is
smaller than the calls, so that a writer has to wait, and two answers fill the
way back, so that the server has to. Frames of three words are longer than any
other answer. A second call cut short would find the client out of step already.

Four roles (`hier_edges`) make a chain of four, a chain of two beside a start
and a sink, two trees, and two of each end.  A chain of four has a role that
inherits through two others that are neither root nor leaf.  One statement is
enough: permissions of different names never meet in the code.

The lengths of `frame_cut` are below, at, just above and twice the basis, so a
frame is padded, fits, or is read on, and may be longer or shorter than the one
whose buffer it takes over; the socket holds the end of one frame and the start
of the next, and less than the longest.

In `parm_sets` two parameters have every pair of alignments, a length of 3 makes
padding of every kind, and the second and third row start where the ones before
them end.
The buffer of 40 bytes overflows with the second row, where the code's of 1024
would after several dozen.

Two boxes (`boxes`) are one that is inherited and one that inherits, and two
servers that compete for a lock.  Four requests are a transaction with two
statements in it.

Runs in which the system may stop do not check deadlock: a server exits, a
reader stops for good at the end of the stream, a client need not call again.
`box_calls` and `hier_edges` check it.  That says little of `box_calls`, where
the server may always stop; what the calls come to is `CallsReturn`.

## Fairness

Fairness is weak throughout, and never assumed of a client that it calls.

- `BoxServer`: the teardown, straight-line code that waits for nobody.
- `BoxStep`: the server while it has a request to handle or rows to fetch, which
  is what a process in straight-line code or woken by `poll` does; a client that
  waits in `sqlbox_read_frame`, which is woken by a whole frame or a hangup
  (`Reading`). What wakes one behind a torn frame need not be enough for it, so
  `StepGarbled` is not fair.
- `Box`: the server while it has a request and room for the answer; a client
  that reads (`Reads`), woken by an answer, or a part, or a hangup; a client
  that waits to write (`Resumes`), woken by room or by a hangup.  None for
  signals or for failures.
- `Frame`: the reader is woken by `poll` for bytes and for the end, while the
  writer may stop anywhere.
- `RoleHier`: the generator is straight-line code; nobody has to call it.
- `Boxes`: each server, whenever a lock is granted to it and when there is an
  end to read.  That a call which is repeated is granted at last is more than a
  scheduler gives; the code sleeps for random times between two tries to make it
  so, and with the bound on calls it takes no more than going on.  The end of a
  transaction by a careful caller is fair as well.
- `Regress`: the test's program makes its next call, the server and the builder
  run.

## Proofs

`BoxServerProofs` proves, for every configuration and every bound, the
invariants and the action properties of `BoxServer` that the runs check.  The
inductive invariant `IInv` adds to the checked invariants that the queues are
strictly increasing in identifiers (so that a member occurs once and the tail is
the newest), that identifiers above the counter are unused, and what a freed
entry holds.  Each action has its preservation lemma.  `TransactionsAreReal`
needs the assumption that no configured statement rolls back.  `ServerExits` is
liveness and stays with TLC; `TeardownEnds` proves the part of it that is not
fairness: each step of the teardown leaves fewer databases and statements, and
the last one nothing (`FreesOrEnds`).

`BoxStepProofs` has two invariants, both for any number of rows, bindings and
requests under way. `KeptInv` holds whether or not the client finds memory.
Replies may then be left over in the socket, any number of them, and be read by
later calls; but until a frame is torn, what the client holds, the replies and
what the server has fetched ahead are in order (`InOrder`) and SQLite is past
all of them (`Past`). What is on the server's side holds after that as well, in
particular that no binding in the pipe is as old as the server's (`DueInv`).
`TypeOK`, `RunsOnce` and `NeverTwice` follow without an assumption.

`IInv` is about a client whose allocations succeed (`ClientMemory`).  It says
that what was returned, what the client holds, the reply in the socket and what
the server has fetched are consecutive: `FrontInv` ties the server's buffer to
the end of the client's set when the socket is empty, `ReplyInv` puts the reply
between them when it is not, and `PipeInv` counts the rebinds the server has yet
to see.  From it follow `NoStrayReply` and that `BoxStep` implements
`RowStream`.  Both are false without memory: after a call has failed the next
one returns what is left of the result set, or reads the reply the failed one
has not read, while sqlbox_step(3) says that the box "is no longer accessible".

`StepReturns` is liveness. Proved are that, until a frame is torn, a call that
waits has a reply in the socket, which is all it wants, or its request as the
last in the pipe, or the server has gone (`ReplyIsDue`), and, whatever happened,
that each step of the server takes a request from the pipe or the statement one
row on, of which there are only so many (`Nearer`). What is left is that a
server with something to do does it.

`FrameProofs` proves `TypeOK`, `InStep` and that every step of `Frame` is one of
`FramePipe` or changes nothing of it, for frames of any lengths, any basis, any
socket and any cutting.  The last needs the assumption that no hangup comes alone
(`~HangupAlone`).  The first two do not: a hangup alone has a frame returned
before all of it was read, but there is nothing behind it that the reader could
take for something else (`Cut`).  The argument lays the frames one behind the
other in the stream of all bytes ever written: the invariant has a place for
each, the socket holds the stream between the reader's place and the writer's,
and what the reader's buffer holds is the stream from the place of its frame on.
A frame put adds a place and a frame got moves to the next one, so that no
induction over frames is needed.  That a frame that is there is read (the
fairness of `FramePipe`) stays with TLC; that a reader asleep in `poll` has all
that was sent (`SleepsCaughtUp`) is proved, with a hangup alone or without.

`ParmPackProofs` proves `TypeOK`, which has the bytes left to unpack never fall
below zero, and `ShortByFour` for sets of any number of parameters of any
lengths.  The invariant (`Distance`) relates the places the two passes have
reached for the same parameter.  For a set that starts at a multiple of eight
they stay as far apart as they began.  For one that starts halfway between two,
integers and floats are padded differently by the two: the first of them moves
one pass ahead of or behind the other by four bytes, and from there the distance
stays as it is (`AfterShift`, `AfterWide`).

`ParmTripProofs` proves `RoundTrip` for any number of sets and parameters and a
buffer of any size, from the constants' assumptions alone.  Neither side knows
where a field is: the writer has reached a place, and the reader works out from
what it has read where to look next.  The invariant says that both follow one
table, which no variable holds but which exists in every state: a place for each
set and one for each of its parameters, each following from the one before by
the layout.  The fields of every parameter packed so far are around its place
(`Laid`), no two fields of a kind are at the same place (`Apart`), so that what
the reader finds there is what was written, and the reader is at the place of
the parameter it has come to, has got those before it, and counts no fewer bytes
left than there are (`Reader`).  That count is too high from the first padding
on, which is harmless only because it is compared and never used for a place.
Packing a parameter adds a place at the end of the table, unpacking one moves to
the next, so there is no induction over parameters here either.

`RoleHierProofs` proves, for any number of roles and any permissions, `TypeOK`
(which has no run of its own), that the builder keeps a forest, that starts and
sinks stay apart, that the generator's assertions hold, that it writes every
transition and permission the manual promises and none beyond, each once, and
that it fills exactly the arrays it has allocated. `Forest` is stated without
paths, as the absence of a set of roles that has no way out, and its proof uses
the closed set by which the new parent's lineage misses the child. That a climb
never returns to its start (`NoReturn`) follows from it.

The two passes are tied together by sets, not by sums.  A climb from one role
adds one to each of its ancestors, so that after some climbs a role's count is
the cardinality of the set of roles below it that have been climbed from, the
one on its way included as far as it has come (`CameBy`); the loops that write
add the elements of the same set, one by one and never twice (`Sized`,
`Listed`).  Behind them both are the cardinality, and the elements, of what the
manual promises.  For permissions `Taken` says that a role has all its ancestors'
once its climb is over, and until then those of the ancestors behind it.

That the generator returns (`GenReturns`) is liveness.  `AlwaysOnward` proves
that each of its steps takes it further in an order without circles: to a later
loop (`Rank`), to a later role, to an ancestor whose own ancestors are a smaller
set, which is what `Forest` is good for, or to one missing permission less.

`BoxesProofs` proves `TypeOK`, `OwnEnds` and `NothingLeaked` for any number of
boxes and requests, of careful callers and others.  The invariant says whose
every descriptor of the parent is (`Needs`) and what every box must have
(`Has`).  That the second close finds nothing to close rests on boxes being
allocated one after the other (`OneAfterTheOther`); that descriptors never run
out is a count: each one in use is the client's end of a different box
(`TwoAreFree`).

`ExecReturns` and `EndsAfterLater` are liveness. For the first, `NeverAllWait`
proves that servers that retry `SQLITE_BUSY` for ever are never all refused:
while a request is unanswered, some server's next try succeeds, or a commit can
at least keep new readers out, or a caller is free to end the transaction in the
way (`NoStandstill`, which the run checks, too). Client and server of a box are
at different points of the same transaction: the requests in the pipe lead from
the server's to the client's (`Leads`, `Sessions`), so that an end follows for
whatever a server has begun. `Locks` says that only one server may have locked
the database for writing and in which transaction. For the second,
`LaterOnesFirst` proves that who keeps a server from reading end of file, once
its box is gone, is the server of a box allocated later: they cannot wait for
each other in a circle.

`BoxProofs` proves `TypeOK`, `NothingDropped`, `SameStatement`, `QueuesMirror`
and `AnswerIsMine` for any number of calls, a socket of any size and answers of
any lengths. Nothing is assumed of the constants: the last three hold until a
call is cut short, in every state that was reached with fewer identifiers given
than can be told apart on the wire (`Sound`), and may fail from then on. The
invariant follows the server's queue through the requests under way: `Alive`
says which statements it will hold when it comes to the j-th of them. Behind the
last of them those are the client's (`Agree`), at a request that names a
statement this one is among them, and the newest if it was named by zero
(`Meant`). What makes this tractable is that both queues are in the order of the
calls that prepared their members, so that two queues with the same members are
equal (`SameKeys`), and a request written or handled is one step of `Alive` at
one end of the pipe (`Extend`, `Shift`). `Answering` says that the answer on the
way back is that of the statement that was meant. `Base`, which holds whatever
happened, has the types, the order of the queues and the numbering of the
requests.

`CallsReturn` and `ServerEnds` are liveness. `AnswerIsDue` is what can be proved
of the first (`NobodyWaitsForNothing`). Until a call is cut short, what a call
finds to read is its own answer and has the length it reads, so that it returns
with it and waits for no more; until there is something to read its request is
the last in the pipe; and whenever there is a request the server has room to
answer it, so that a call that waits to write will find room itself. The
invariant (`Served`) has the request that is waited for as the last and the only
one of its kind (`Waiting`), and its answer alone on the way back, whole and of
the right length (`Fitting`). All of this ends with the first call cut short,
and so do the theorem and the property. Of the second, that after `sqlbox_free`
every step takes one of the requests left in the pipe or ends the server
(`NothingToDoAfterFree`), in any case.

### What is only model-checked

- Liveness and ENABLED are out of the prover's reach: `ServerExits`,
  `StepReturns`, `GenReturns`, `TestsEnd`, `EndsAfterLater`, `CallsReturn`,
  `ExecReturns`, `ServerEnds`, and the half of `ImplementsFramePipe` that is
  fairness. For all but `TestsEnd` a theorem says what of them is safety:
  that something is under way, that steps lead somewhere, or that not everyone
  waits (`TeardownEnds`, `ServerComesNearer`, `AlwaysOnward`, `LaterOnesFirst`,
  `NobodyWaitsForNothing`, `NeverAllWait`, `NothingToDoAfterFree`,
  `NobodySleepsOnAFrame`). That the steps are then taken, and the induction on
  their number, is what TLC adds on its instances.
- `AsExpected` is about the programs in `regress/` as they are.  There are
  finitely many of them, and what would be proved of each is what the run shows.
- The runs that expect a violation refute their property; there is nothing to
  prove.  `TransactionsAreReal` is the theorem on the other side of
  `server_orrollback`: no transaction is stale if no statement rolls back.

## Not modelled

- Logging (`warn.c`), but for the request that sets message data, which is a
  request of `Regress`.  The compatibility layer (`compats.c`, `configure`,
  `tests.c`), which replaces functions of libc.  Scripts and measurements.
- SQL: that a configured statement could itself be `BEGIN` or `COMMIT` is left
  out, as is the content of rows and parameters but for the tokens of `Regress`.
- The conversions of one parameter to another type (`sqlbox_parm_int`, `_float`,
  `_string`, `_blob`), which keep no state, and what `sqlite3_bind_*` does with
  parameters.
- Exclusive transactions and the other modes of SQLite's journal; in `Boxes`
  nothing but a rollback journal is used.
- Several threads of one process that allocate boxes: `OwnEnds` would not hold.
- Of the regression tests: `test-parm-*`, which are about conversions,
  `test-filter-out-float`, `-int` and `-string`, which are about values, and
  `test-hier-bad-defrole`, `-empty` and `-empty-gen`, which build a hierarchy of
  no roles, a case `RoleHier` leaves out.
- Signals during a write, which would leave part of a request in the socket, and
  socket errors other than the end of the other side: a socket closed with an
  answer unread may be reset (ECONNRESET) on some systems.
- In `BoxStep`, room for replies: it has one at a time but after failures, and
  what a server does that finds none is in `Box`.

## Plan

1. Models: filters and what they generate, with the conversions of `parm.c`
   over small types; the remaining tests with them.
2. Proofs: the last hypotheses that are about what the code does, and not about
   what it is given, where they can be weakened.  `lastid < Wire` is one: what
   `Box` needs is that no two statements alive have the same number on the wire.
