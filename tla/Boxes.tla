------------------------------- MODULE Boxes -------------------------------
(***************************************************************************)
(* One process that allocates several boxes, all opened on one database.   *)
(*                                                                         *)
(* sqlbox_alloc makes a socket pair and forks a server, which inherits     *)
(* every descriptor its parent has: also the client's ends of the boxes    *)
(* allocated before and not freed yet.  A server ends when it reads end of *)
(* file, and there is none as long as any process has the other end.  What *)
(* is open where is a table of descriptors for each process; the numbers   *)
(* matter because sqlbox_alloc_fd closes one of them twice.                *)
(*                                                                         *)
(* The servers share a database.  Where SQLite answers SQLITE_BUSY they    *)
(* try again until it does not, and keep the locks of their transactions   *)
(* meanwhile.  SQLite is external: its locks are those of a rollback       *)
(* journal, where a writer that commits waits for the readers to leave and *)
(* lets no new ones in.                                                    *)
(***************************************************************************)
EXTENDS Naturals, Sequences, FiniteSetsExt

CONSTANTS
  N,         \* bound: boxes allocated, one after the other
  MaxCalls,  \* bound: requests written to one box
  MaxPipe,   \* requests a socket holds before a writer blocks
  Careful    \* TRUE if callers write only in immediate transactions and
             \* end theirs before they free the box

ASSUME BoxesAssumption ==
  /\ N \in Nat /\ MaxCalls \in Nat
  /\ MaxPipe \in Nat \ {0}
  /\ Careful \in BOOLEAN

Box == 1..N
Parent == 0                        \* processes: the caller's, and one per box
Proc == {Parent} \cup Box

Fd == 0 .. 2 * N                   \* enough for what the parent ever has open
Closed == <<0, "closed">>
Ends == {Closed} \cup (Box \X {"server", "client"})

VARIABLES
  table,   \* what each process has open, by descriptor
  at,      \* how far the parent is with a box
  fds,     \* the two descriptors sqlbox_alloc got for it, the server's first
  server,  \* each server: "none", "runs" or "ended"
  pipe,    \* the requests to it
  waits,   \* a caller waits for its answer
  inside,  \* the transaction the caller believes it has, by its kind
  calls,   \* how many requests were written
  trans,   \* the transaction of the server's database, by its kind
  lock     \* what SQLite has locked for it

parentvars == <<at, fds, waits, inside, calls>>
dbvars == <<trans, lock>>
vars == <<table, parentvars, server, pipe, dbvars>>

Init ==
  /\ table = [p \in Proc |-> [fd \in Fd |-> Closed]]
  /\ at = [b \in Box |-> "none"]
  /\ fds = [b \in Box |-> <<0, 0>>]
  /\ server = [b \in Box |-> "none"]
  /\ pipe = [b \in Box |-> <<>>]
  /\ waits = [b \in Box |-> FALSE]
  /\ inside = [b \in Box |-> "none"]
  /\ calls = [b \in Box |-> 0]
  /\ trans = [b \in Box |-> "none"]
  /\ lock = [b \in Box |-> "none"]

-----------------------------------------------------------------------------
(* Allocating and freeing a box. *)

Allocating == {"paired", "forked", "closed"}

Close(p, closing) ==
  table' = [table EXCEPT ![p] = [fd \in Fd |-> IF fd \in closing THEN Closed ELSE @[fd]]]

\* sqlbox_alloc_destructor: the two lowest descriptors that are free.
Socketpair(b) ==
  /\ at[b] = "none"
  /\ \A c \in Box : c < b => at[c] \notin Allocating \cup {"none"}
  /\ LET free == {fd \in Fd : table[Parent][fd] = Closed}
         first == Min(free)
         second == Min(free \ {first})
     IN /\ fds' = [fds EXCEPT ![b] = <<first, second>>]
        /\ table' = [table EXCEPT ![Parent][first] = <<b, "server">>,
                                  ![Parent][second] = <<b, "client">>]
  /\ at' = [at EXCEPT ![b] = "paired"]
  /\ UNCHANGED <<waits, inside, calls, server, pipe, dbvars>>

\* (Slip... are mistakes in the definition that follows.)
\* EndsAfterLater: the child keeps the caller's end of its own box.
SlipFork(b) ==
  /\ at[b] = "paired"
  /\ table' = [table EXCEPT ![b] = table[Parent]]
  /\ server' = [server EXCEPT ![b] = "runs"]
  /\ at' = [at EXCEPT ![b] = "forked"]
  /\ UNCHANGED <<fds, waits, inside, calls, pipe, dbvars>>

\* sqlbox_alloc_fd: the child has what the parent has, and closes the caller's
\* end of its own box.
Fork(b) ==
  /\ at[b] = "paired"
  /\ table' = [table EXCEPT ![b] = [table[Parent] EXCEPT ![fds[b][2]] = Closed]]
  /\ server' = [server EXCEPT ![b] = "runs"]
  /\ at' = [at EXCEPT ![b] = "forked"]
  /\ UNCHANGED <<fds, waits, inside, calls, pipe, dbvars>>

\* NothingLeaked: the one for the server is taken to be the child's.
SlipAllocFails(b) ==
  /\ at[b] \in {"paired", "forked"}
  /\ Close(Parent, {fds[b][2]})
  /\ at' = [at EXCEPT ![b] = "failed"]
  /\ UNCHANGED <<fds, waits, inside, calls, server, pipe, dbvars>>

\* The configuration is refused, fork fails or, in the parent that has forked,
\* calloc does: sqlbox_alloc_destructor closes both.
AllocFails(b) ==
  /\ at[b] \in {"paired", "forked"}
  /\ Close(Parent, {fds[b][1], fds[b][2]})
  /\ at' = [at EXCEPT ![b] = "failed"]
  /\ UNCHANGED <<fds, waits, inside, calls, server, pipe, dbvars>>

\* The parent closes the server's end: once to see whether that fails,
CloseServerEnd(b) ==
  /\ at[b] = "forked"
  /\ Close(Parent, {fds[b][1]})
  /\ at' = [at EXCEPT ![b] = "closed"]
  /\ UNCHANGED <<fds, waits, inside, calls, server, pipe, dbvars>>

\* OwnEnds: the second call is for the other one.
SlipCloseAgain(b) ==
  /\ at[b] = "closed"
  /\ Close(Parent, {fds[b][2]})
  /\ at' = [at EXCEPT ![b] = "up"]
  /\ UNCHANGED <<fds, waits, inside, calls, server, pipe, dbvars>>

\* and then again, whatever has that descriptor now.
CloseAgain(b) ==
  /\ at[b] = "closed"
  /\ Close(Parent, {fds[b][1]})
  /\ at' = [at EXCEPT ![b] = "up"]
  /\ UNCHANGED <<fds, waits, inside, calls, server, pipe, dbvars>>

\* sqlbox_free, which does not wait for the server.
Free(b) ==
  /\ at[b] = "up" /\ ~waits[b]
  /\ Careful => inside[b] = "none"
  /\ Close(Parent, {fds[b][2]})
  /\ at' = [at EXCEPT ![b] = "freed"]
  /\ UNCHANGED <<fds, waits, inside, calls, server, pipe, dbvars>>

-----------------------------------------------------------------------------
(* Callers.  Each box has its own, which may wait while others go on. *)

\* A request is written, if the socket takes it; only an exec has an answer.
Write(b, op, sync) ==
  /\ at[b] = "up" /\ ~waits[b]
  /\ Len(pipe[b]) < MaxPipe
  /\ pipe' = [pipe EXCEPT ![b] = Append(@, op)]
  /\ waits' = [waits EXCEPT ![b] = sync]
  /\ calls' = [calls EXCEPT ![b] = @ + 1]
  /\ UNCHANGED <<table, at, fds, server, dbvars>>

\* Calls that must leave room for the end of a transaction.
Room(b) == calls[b] + 1 < MaxCalls

\* sqlbox_trans_deferred and sqlbox_trans_immediate
Begin(b, kind) ==
  /\ Room(b)
  /\ inside[b] = "none"
  /\ inside' = [inside EXCEPT ![b] = kind]
  /\ Write(b, kind, FALSE)

\* sqlbox_exec and sqlbox_exec_async of a statement that reads or writes
Exec(b, op, sync) ==
  /\ Room(b)
  /\ Careful /\ op = "write" => inside[b] # "deferred"
  /\ UNCHANGED inside
  /\ Write(b, op, sync)

\* sqlbox_trans_commit and sqlbox_trans_rollback
End(b) ==
  /\ inside[b] # "none"
  /\ inside' = [inside EXCEPT ![b] = "none"]
  /\ \E op \in {"commit", "rollback"} : Write(b, op, FALSE)

-----------------------------------------------------------------------------
(* The servers and, external, the locks of the database. *)

Others(b) == {lock[c] : c \in Box \ {b}}

\* What SQLite does not answer with SQLITE_BUSY.
Granted(b, op) ==
  CASE op \in {"deferred", "rollback"} -> TRUE
    [] op = "immediate" -> Others(b) \cap {"reserved", "pending"} = {}
    [] op = "read"      -> lock[b] # "none" \/ "pending" \notin Others(b)
    [] op = "write"     ->
         /\ Others(b) \cap {"reserved", "pending"} = {}
         /\ trans[b] = "none" => "shared" \notin Others(b)
    [] op = "commit"    -> lock[b] \in {"reserved", "pending"} => Others(b) \subseteq {"none"}

\* What is locked for a transaction after its statement.
Locked(b, op) ==
  CASE op = "immediate" -> "reserved"
    [] op \in {"commit", "rollback"} -> "none"
    [] op = "read" /\ trans[b] # "none" /\ lock[b] = "none" -> "shared"
    [] op = "write" /\ trans[b] # "none" -> "reserved"
    [] OTHER -> lock[b]

\* ExecReturns, NoStandstill: the end of a transaction is only noted.
SlipServe(b) ==
  /\ server[b] = "runs"
  /\ pipe[b] # <<>>
  /\ LET op == Head(pipe[b]) IN
       /\ Granted(b, op)
       /\ lock' = [lock EXCEPT ![b] = IF op = "rollback" THEN @ ELSE Locked(b, op)]
       /\ trans' = [trans EXCEPT ![b] =
                      IF op \in {"deferred", "immediate"} THEN op
                      ELSE IF op \in {"commit", "rollback"} THEN "none" ELSE @]
  /\ pipe' = [pipe EXCEPT ![b] = Tail(@)]
  /\ waits' = [waits EXCEPT ![b] = @ /\ Len(pipe[b]) > 1]
  /\ UNCHANGED <<table, at, fds, inside, calls, server>>

\* The handler of the first request returns, at the first try that is not
\* answered with SQLITE_BUSY.
Serve(b) ==
  /\ server[b] = "runs"
  /\ pipe[b] # <<>>
  /\ LET op == Head(pipe[b]) IN
       /\ Granted(b, op)
       /\ lock' = [lock EXCEPT ![b] = Locked(b, op)]
       /\ trans' = [trans EXCEPT ![b] =
                      IF op \in {"deferred", "immediate"} THEN op
                      ELSE IF op \in {"commit", "rollback"} THEN "none" ELSE @]
  /\ pipe' = [pipe EXCEPT ![b] = Tail(@)]
  /\ waits' = [waits EXCEPT ![b] = @ /\ Len(pipe[b]) > 1]
  /\ UNCHANGED <<table, at, fds, inside, calls, server>>

\* A commit is told to wait for the readers, and keeps new ones out.
Busy(b) ==
  /\ server[b] = "runs"
  /\ pipe[b] # <<>> /\ Head(pipe[b]) = "commit"
  /\ lock[b] = "reserved" /\ "shared" \in Others(b)
  /\ lock' = [lock EXCEPT ![b] = "pending"]
  /\ UNCHANGED <<table, parentvars, server, pipe, trans>>

Held(e) == \E p \in Proc, fd \in Fd : table[p][fd] = e

\* End of file: sqlbox_clear closes the database, which rolls back, and the
\* process exits.
EndOfFile(b) ==
  /\ server[b] = "runs"
  /\ pipe[b] = <<>> /\ ~Held(<<b, "client">>)
  /\ server' = [server EXCEPT ![b] = "ended"]
  /\ Close(b, Fd)
  /\ trans' = [trans EXCEPT ![b] = "none"]
  /\ lock' = [lock EXCEPT ![b] = "none"]
  /\ UNCHANGED <<parentvars, pipe>>

-----------------------------------------------------------------------------

Next ==
  \E b \in Box :
    \/ Socketpair(b) \/ Fork(b) \/ AllocFails(b)
    \/ CloseServerEnd(b) \/ CloseAgain(b) \/ Free(b)
    \/ \E kind \in {"deferred", "immediate"} : Begin(b, kind)
    \/ \E op \in {"read", "write"}, sync \in BOOLEAN : Exec(b, op, sync)
    \/ End(b)
    \/ Serve(b) \/ Busy(b) \/ EndOfFile(b)

\* Servers go on while they can.  The sleeps between two tries are random, so
\* that whoever tries often enough gets in; with the bound on calls that takes
\* no more than going on.  A careful caller does end its transactions.
Spec ==
  /\ Init /\ [][Next]_vars
  /\ \A b \in Box : WF_vars(Serve(b) \/ Busy(b)) /\ WF_vars(EndOfFile(b))
  /\ \A b \in Box : WF_vars(Careful /\ End(b))

-----------------------------------------------------------------------------

\* Every variable is of its type, and no socket holds more than it takes.
TypeOK ==
  /\ table \in [Proc -> [Fd -> Ends]]
  /\ at \in [Box -> Allocating \cup {"none", "up", "failed", "freed"}]
  /\ fds \in [Box -> Fd \X Fd]
  /\ server \in [Box -> {"none", "runs", "ended"}]
  /\ \A b \in Box : Len(pipe[b]) <= MaxPipe
  /\ waits \in [Box -> BOOLEAN]
  /\ inside \in [Box -> {"none", "deferred", "immediate"}]
  /\ calls \in [Box -> 0..MaxCalls]
  /\ trans \in [Box -> {"none", "deferred", "immediate"}]
  /\ lock \in [Box -> {"none", "shared", "reserved", "pending"}]

\* A box that is up writes to its own server, and a server that runs reads its
\* own box, whatever was closed twice and whichever descriptors were used again.
OwnEnds ==
  \A b \in Box :
    /\ at[b] = "up" => table[Parent][fds[b][2]] = <<b, "client">>
    /\ server[b] = "runs" => table[b][fds[b][1]] = <<b, "server">>

\* Nothing is leaked into the parent: once its boxes are freed or failed, it
\* has none of their descriptors open.
NothingLeaked ==
  (\A b \in Box : at[b] \in {"none", "failed", "freed"}) =>
    \A fd \in Fd : table[Parent][fd] = Closed

\* Whose turn it may be: a server's, with its first request, or a caller's, to
\* end its transaction.
CanServe(b) ==
  /\ server[b] = "runs" /\ pipe[b] # <<>>
  /\ \/ Granted(b, Head(pipe[b]))
     \/ Head(pipe[b]) = "commit" /\ lock[b] = "reserved" /\ "shared" \in Others(b)

CanEnd(b) == at[b] = "up" /\ ~waits[b] /\ inside[b] # "none" /\ Len(pipe[b]) < MaxPipe

\* Servers that try again for ever, each with its locks, do not all wait for one
\* another: while a request is unanswered, some server's next try is answered or
\* some caller is free to end the transaction that is in the way, if callers are
\* careful.
NoStandstill ==
  Careful /\ (\E b \in Box : pipe[b] # <<>>) => \E b \in Box : CanServe(b) \/ CanEnd(b)

\* An exec that waits for its answer gets it, whatever the other boxes have
\* locked when it is asked for, if callers are careful.
ExecReturns == \A b \in Box : waits[b] ~> ~waits[b]

\* A server ends after its box and those allocated later are freed, or failed
\* to be allocated, and callers were careful.
EndsAfterLater ==
  \A b \in Box :
    (\A c \in Box : c >= b => at[c] \in {"failed", "freed"}) ~> server[b] # "runs"

\* sqlbox_free(3): "When the box channel closes, it will finalise databases'
\* open statements, roll back databases' transactions, close open databases".
FreeRollsBack == \A b \in Box : at[b] = "freed" ~> lock[b] = "none"
=============================================================================
