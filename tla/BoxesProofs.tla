---------------------------- MODULE BoxesProofs ----------------------------
(***************************************************************************)
(* Proofs about Boxes, for any number of boxes and requests: the types, so *)
(* that descriptors do not run out, that a box keeps its own two ends      *)
(* although one of them is closed twice, that none is leaked into the      *)
(* caller's process, that the servers never all wait for one another, and  *)
(* that who holds a box open was allocated after it.                       *)
(*                                                                         *)
(* The inductive invariant says of each descriptor of the caller's process *)
(* whose it is.  A second close is harmless because nothing else can have  *)
(* been opened in between: boxes are allocated one after the other.  For   *)
(* the standstill a second invariant follows each caller's transaction     *)
(* through the requests in the pipe, and says what its server has locked   *)
(* by then.                                                                *)
(***************************************************************************)
EXTENDS Boxes, SequenceTheorems, FiniteSetTheorems, WellFoundedInduction, TLAPS

Op == {"deferred", "immediate", "read", "write", "commit", "rollback"}
Open == {"paired", "forked", "closed", "up"}

Types ==
  /\ table \in [Proc -> [Fd -> Ends]]
  /\ at \in [Box -> Allocating \cup {"none", "up", "failed", "freed"}]
  /\ fds \in [Box -> Fd \X Fd]
  /\ server \in [Box -> {"none", "runs", "ended"}]
  /\ pipe \in [Box -> Seq(Op)]
  /\ waits \in [Box -> BOOLEAN]
  /\ inside \in [Box -> {"none", "deferred", "immediate"}]
  /\ calls \in [Box -> Nat]
  /\ trans \in [Box -> {"none", "deferred", "immediate"}]
  /\ lock \in [Box -> {"none", "shared", "reserved", "pending"}]

\* Room is left for the end of every transaction, and in every pipe.
Bounds ==
  \A b \in Box :
    /\ Len(pipe[b]) <= MaxPipe
    /\ calls[b] <= MaxCalls /\ (inside[b] # "none" => calls[b] < MaxCalls)

\* Boxes are allocated in order, one after the other.
OneAfterTheOther ==
  \A b \in Box : at[b] # "none" =>
    \A c \in Box : c < b => at[c] \notin Allocating \cup {"none"}

\* What the parent needs it has,
Has ==
  \A b \in Box :
    /\ at[b] \in {"paired", "forked"} => table[Parent][fds[b][1]] = <<b, "server">>
    /\ at[b] = "closed" => table[Parent][fds[b][1]] = Closed
    /\ at[b] \in Open => table[Parent][fds[b][2]] = <<b, "client">>

\* and what it has it needs.
Needs ==
  \A fd \in Fd :
    \/ table[Parent][fd] = Closed
    \/ \E c \in Box :
         \/ table[Parent][fd] = <<c, "client">> /\ at[c] \in Open /\ fd = fds[c][2]
         \/ table[Parent][fd] = <<c, "server">> /\ at[c] \in {"paired", "forked"} /\ fd = fds[c][1]

Serving ==
  \A b \in Box : server[b] = "runs" =>
    at[b] # "none" /\ table[b][fds[b][1]] = <<b, "server">>

IInv == Types /\ Bounds /\ OneAfterTheOther /\ Has /\ Needs /\ Serving

-----------------------------------------------------------------------------
(* Descriptors. *)

LEMMA EndsDiffer ==
  \A b \in Box, c \in Box :
    /\ <<b, "server">> # <<c, "client">> /\ <<b, "server">> # Closed /\ <<b, "client">> # Closed
    /\ <<b, "server">> = <<c, "server">> => b = c
    /\ <<b, "client">> = <<c, "client">> => b = c
    /\ <<b, "server">> \in Ends /\ <<b, "client">> \in Ends /\ Closed \in Ends
    /\ b \in Proc /\ b # Parent
BY BoxesAssumption DEF Ends, Closed, Box, Proc, Parent

\* The smallest of some descriptors is one of them.
LEMMA MinFacts ==
  ASSUME NEW S, S \subseteq Fd, S # {}
  PROVE  Min(S) \in S
<1> DEFINE R == OpToRel(<, Nat)
<1>1. \A x, y \in Nat : <<y, x>> \in R <=> y < x
  BY DEF OpToRel
<1>2. IsWellFoundedOn(R, Nat)
  BY NatLessThanWellFounded
<1> HIDE DEF R
<1>3. S \subseteq Nat
  BY DEF Fd
<1>4. PICK x \in S : \A y \in S : ~(<<y, x>> \in R)
  BY <1>2, <1>3, WFMin
<1>5. ASSUME NEW y \in S PROVE x <= y
  <2>1. x \in Nat /\ y \in Nat /\ ~(<<y, x>> \in R)
    BY <1>3, <1>4
  <2>2. ~(y < x)
    BY <1>1, <2>1
  <2>3. QED
    BY <2>1, <2>2
<1>6. QED
  BY <1>5 DEF Min

LEMMA CloseFacts ==
  ASSUME IInv, NEW p \in Proc, NEW closing, Close(p, closing)
  PROVE  /\ table' \in [Proc -> [Fd -> Ends]]
         /\ \A q \in Proc : q # p => table'[q] = table[q]
         /\ \A fd \in Fd : table'[p][fd] = IF fd \in closing THEN Closed ELSE table[p][fd]
<1>1. table \in [Proc -> [Fd -> Ends]] /\ Closed \in Ends
  BY DEF IInv, Types, Ends
<1>2. [fd \in Fd |-> IF fd \in closing THEN Closed ELSE table[p][fd]] \in [Fd -> Ends]
  BY <1>1
<1>3. QED
  BY <1>1, <1>2 DEF Close

\* Two descriptors are free when a box is to be allocated: each of those in use
\* belongs to another box, as the caller's end of it.
LEMMA TwoAreFree ==
  ASSUME IInv, NEW b \in Box, at[b] = "none", \A c \in Box : at[c] \notin Allocating
  PROVE  LET free == {fd \in Fd : table[Parent][fd] = Closed} IN
         free # {} /\ free \ {Min(free)} # {}
<1> DEFINE free == {fd \in Fd : table[Parent][fd] = Closed}
           open == Fd \ free
           owner == [fd \in open |-> table[Parent][fd][1]]
<1>1. N \in Nat /\ N >= 1 /\ Parent \in Proc
  BY BoxesAssumption DEF Box, Proc
<1>2. IsFiniteSet(Fd) /\ Cardinality(Fd) = 2 * N + 1
  <2>1. 0 \in Int /\ 2 * N \in Int /\ ~(0 > 2 * N) /\ 2 * N - 0 + 1 = 2 * N + 1
    BY <1>1
  <2>2. QED
    BY <2>1, FS_Interval DEF Fd
<1>3. IsFiniteSet(Box) /\ Cardinality(Box) = N
  <2>1. 1 \in Int /\ N \in Int /\ ~(1 > N) /\ N - 1 + 1 = N
    BY <1>1
  <2>2. QED
    BY <2>1, FS_Interval DEF Box
<1>4. \A fd \in open : \E c \in Box : table[Parent][fd] = <<c, "client">> /\ fd = fds[c][2]
  BY DEF IInv, Needs, Allocating
<1>5. owner \in [open -> Box]
  BY <1>4
<1>6. \A x, y \in open : owner[x] = owner[y] => x = y
  BY <1>4
<1>7. owner \in Injection(open, Box)
  BY <1>5, <1>6 DEF Injection, IsInjective
<1>8. Cardinality(open) <= N
  BY <1>3, <1>7, FS_Injection
<1>9. free \in SUBSET Fd /\ open \in SUBSET Fd
  OBVIOUS
<1>10. IsFiniteSet(free) /\ Cardinality(open) = Cardinality(Fd) - Cardinality(Fd \cap free)
  BY <1>2, <1>9, FS_Subset, FS_Difference
<1>11. Fd \cap free = free
  BY <1>9
<1> HIDE DEF free, open, owner
<1>12. Cardinality(free) \in Nat /\ Cardinality(open) \in Nat
  BY <1>2, <1>9, <1>10, FS_Subset, FS_CardinalityType
<1>13. Cardinality(free) >= 2
  <2> DEFINE total == 2 * N + 1
  <2> HIDE DEF total
  <2>1. Cardinality(Fd) = total
    BY <1>2 DEF total
  <2>2. Cardinality(open) = total - Cardinality(free)
    BY <2>1, <1>10, <1>11, Zenon
  <2>3. total = 2 * N + 1
    BY DEF total
  <2>4. QED
    BY <1>1, <1>8, <1>12, <2>2, <2>3
<1>14. free # {}
  BY <1>10, <1>13, FS_EmptySet
<1>15. IsFiniteSet(free \ {Min(free)}) /\ Cardinality(free \ {Min(free)}) >= 1
  <2>1. /\ IsFiniteSet(free \ {Min(free)})
        /\ \/ Cardinality(free \ {Min(free)}) = Cardinality(free) - 1
           \/ Cardinality(free \ {Min(free)}) = Cardinality(free)
    BY <1>10, FS_RemoveElement
  <2>2. QED
    BY <1>12, <1>13, <2>1
<1>16. free \ {Min(free)} # {}
  BY <1>15, FS_EmptySet
<1>17. QED
  BY <1>14, <1>16 DEF free

-----------------------------------------------------------------------------
(* The initial state. *)

LEMMA InitIInv == Init => IInv
<1> SUFFICES ASSUME Init PROVE IInv
  OBVIOUS
<1>1. Types
  BY BoxesAssumption DEF Init, Types, Ends, Fd, Allocating
<1>2. Bounds
  BY BoxesAssumption DEF Init, Bounds
<1>3. Needs
  BY DEF Init, Needs, Proc, Parent
<1>4. OneAfterTheOther /\ Has /\ Serving
  BY DEF Init, OneAfterTheOther, Has, Serving, Open
<1>5. QED
  BY <1>1, <1>2, <1>3, <1>4 DEF IInv

-----------------------------------------------------------------------------
(* Steps of the parent that close descriptors. *)

\* The ends of one box are two descriptors.
LEMMA TwoEnds ==
  ASSUME IInv, NEW b \in Box, at[b] \in {"paired", "forked"}
  PROVE  /\ fds[b][1] \in Fd /\ fds[b][2] \in Fd /\ fds[b][1] # fds[b][2]
         /\ table[Parent][fds[b][1]] = <<b, "server">>
         /\ table[Parent][fds[b][2]] = <<b, "client">>
<1>1. fds[b] \in Fd \X Fd
  BY DEF IInv, Types
<1>2. table[Parent][fds[b][1]] = <<b, "server">> /\ table[Parent][fds[b][2]] = <<b, "client">>
  BY DEF IInv, Has, Open
<1>3. QED
  BY <1>1, <1>2, EndsDiffer

LEMMA CloseKeeps ==
  ASSUME IInv, NEW b \in Box, NEW closing, NEW to \in {"closed", "up", "failed", "freed"},
         Close(Parent, closing), at' = [at EXCEPT ![b] = to],
         UNCHANGED <<fds, waits, inside, calls, server, pipe, dbvars>>,
         at[b] \in Open,
         \A fd \in closing : table[Parent][fd] \in {Closed, <<b, "server">>, <<b, "client">>},
         to = "closed" => at[b] \in Allocating /\ fds[b][1] \in closing,
         fds[b][2] \in closing <=> to \in {"failed", "freed"},
         at[b] \in {"paired", "forked"} => fds[b][1] \in closing
  PROVE  IInv'
<1>1. Types /\ Bounds /\ OneAfterTheOther /\ Has /\ Needs /\ Serving
  BY DEF IInv
<1>2. /\ table' \in [Proc -> [Fd -> Ends]]
      /\ \A q \in Proc : q # Parent => table'[q] = table[q]
      /\ \A fd \in Fd : table'[Parent][fd] = IF fd \in closing THEN Closed ELSE table[Parent][fd]
  <2>1. Parent \in Proc
    BY DEF Proc
  <2>2. QED
    BY <2>1, CloseFacts
<1>3. \A c \in Box : at'[c] = IF c = b THEN to ELSE at[c]
  BY <1>1 DEF Types
<1>4. \A c \in Box : fds[c][1] \in Fd /\ fds[c][2] \in Fd
  BY <1>1 DEF Types
<1>5. Types'
  <2>1. at' \in [Box -> Allocating \cup {"none", "up", "failed", "freed"}]
    BY <1>1 DEF Types, Allocating
  <2>2. QED
    BY <1>1, <1>2, <2>1 DEF Types, dbvars
<1>6. Bounds'
  BY <1>1 DEF Bounds, dbvars
<1>7. OneAfterTheOther'
  BY <1>1, <1>3 DEF OneAfterTheOther, Allocating, Open
<1>8. Has'
  <2> SUFFICES ASSUME NEW c \in Box
               PROVE  /\ at'[c] \in {"paired", "forked"} => table'[Parent][fds[c][1]] = <<c, "server">>
                      /\ at'[c] = "closed" => table'[Parent][fds[c][1]] = Closed
                      /\ at'[c] \in Open => table'[Parent][fds[c][2]] = <<c, "client">>
    BY DEF Has
  <2>1. CASE c = b
    BY <1>1, <1>2, <1>3, <1>4, <2>1 DEF Has, Open
  <2>2. CASE c # b
    <3>1. at'[c] = at[c]
      BY <1>3, <2>2
    <3>2. <<c, "server">> # Closed /\ <<c, "server">> # <<b, "server">> /\ <<c, "server">> # <<b, "client">>
      BY <2>2, EndsDiffer
    <3>3. <<c, "client">> # Closed /\ <<c, "client">> # <<b, "server">> /\ <<c, "client">> # <<b, "client">>
      BY <2>2, EndsDiffer
    <3>4. ASSUME at[c] \in {"paired", "forked"} PROVE table'[Parent][fds[c][1]] = <<c, "server">>
      BY <1>1, <1>2, <1>4, <3>2, <3>4 DEF Has
    <3>5. ASSUME at[c] = "closed" PROVE table'[Parent][fds[c][1]] = Closed
      BY <1>1, <1>2, <1>4, <3>5 DEF Has
    <3>6. ASSUME at[c] \in Open PROVE table'[Parent][fds[c][2]] = <<c, "client">>
      BY <1>1, <1>2, <1>4, <3>3, <3>6 DEF Has
    <3>7. QED
      BY <3>1, <3>4, <3>5, <3>6
  <2>3. QED
    BY <2>1, <2>2
<1>9. Needs'
  <2> SUFFICES ASSUME NEW fd \in Fd, table'[Parent][fd] # Closed
               PROVE  \E c \in Box :
                 \/ table'[Parent][fd] = <<c, "client">> /\ at'[c] \in Open /\ fd = fds[c][2]
                 \/ table'[Parent][fd] = <<c, "server">> /\ at'[c] \in {"paired", "forked"} /\ fd = fds[c][1]
    BY DEF Needs
  <2>1. fd \notin closing /\ table'[Parent][fd] = table[Parent][fd]
    BY <1>2
  <2>2. PICK c \in Box :
          \/ table[Parent][fd] = <<c, "client">> /\ at[c] \in Open /\ fd = fds[c][2]
          \/ table[Parent][fd] = <<c, "server">> /\ at[c] \in {"paired", "forked"} /\ fd = fds[c][1]
    BY <1>1, <2>1 DEF Needs
  <2>3. CASE c = b
    BY <1>3, <2>1, <2>2, <2>3 DEF Open
  <2>4. CASE c # b
    BY <1>3, <2>1, <2>2, <2>4
  <2>5. QED
    BY <2>3, <2>4
<1>10. Serving'
  <2> SUFFICES ASSUME NEW c \in Box, server'[c] = "runs"
               PROVE  at'[c] # "none" /\ table'[c][fds'[c][1]] = <<c, "server">>
    BY DEF Serving
  <2>1. at[c] # "none" /\ table[c][fds[c][1]] = <<c, "server">>
    BY <1>1 DEF Serving
  <2>2. table'[c] = table[c]
    BY <1>2, EndsDiffer
  <2>3. QED
    BY <1>3, <2>1, <2>2
<1>11. QED
  BY <1>5, <1>6, <1>7, <1>8, <1>9, <1>10 DEF IInv

LEMMA AllocFailsKeeps ==
  ASSUME IInv, NEW b \in Box, AllocFails(b)
  PROVE  IInv'
<1>1. at[b] \in {"paired", "forked"} /\ Close(Parent, {fds[b][1], fds[b][2]})
  BY DEF AllocFails
<1>2. table[Parent][fds[b][1]] = <<b, "server">> /\ table[Parent][fds[b][2]] = <<b, "client">>
  BY <1>1, TwoEnds
<1>3. at' = [at EXCEPT ![b] = "failed"] /\ UNCHANGED <<fds, waits, inside, calls, server, pipe, dbvars>>
  BY DEF AllocFails
<1>4. \A fd \in {fds[b][1], fds[b][2]} : table[Parent][fd] \in {Closed, <<b, "server">>, <<b, "client">>}
  BY <1>2
<1>5. at[b] \in Open
  BY <1>1 DEF Open
<1> DEFINE closing == {fds[b][1], fds[b][2]}
           to == "failed"
<1>6. fds[b][1] \in closing /\ fds[b][2] \in closing /\ to \in {"failed", "freed"} /\ to # "closed"
  OBVIOUS
<1> HIDE DEF closing, to
<1>7. /\ Close(Parent, closing) /\ at' = [at EXCEPT ![b] = to]
      /\ \A fd \in closing : table[Parent][fd] \in {Closed, <<b, "server">>, <<b, "client">>}
      /\ to \in {"closed", "up", "failed", "freed"}
  BY <1>1, <1>3, <1>4 DEF closing, to
<1>8. QED
  BY <1>3, <1>5, <1>6, <1>7, CloseKeeps

LEMMA CloseServerEndKeeps ==
  ASSUME IInv, NEW b \in Box, CloseServerEnd(b)
  PROVE  IInv'
<1>1. at[b] = "forked" /\ Close(Parent, {fds[b][1]})
  BY DEF CloseServerEnd
<1>2. table[Parent][fds[b][1]] = <<b, "server">> /\ fds[b][1] # fds[b][2]
  BY <1>1, TwoEnds
<1>3. at' = [at EXCEPT ![b] = "closed"] /\ UNCHANGED <<fds, waits, inside, calls, server, pipe, dbvars>>
  BY DEF CloseServerEnd
<1>4. at[b] \in Open /\ at[b] \in Allocating
  BY <1>1 DEF Open, Allocating
<1> DEFINE closing == {fds[b][1]}
           to == "closed"
<1>5. fds[b][1] \in closing /\ fds[b][2] \notin closing /\ to \notin {"failed", "freed"}
  BY <1>2
<1> HIDE DEF closing, to
<1>6. /\ Close(Parent, closing) /\ at' = [at EXCEPT ![b] = to]
      /\ \A fd \in closing : table[Parent][fd] \in {Closed, <<b, "server">>, <<b, "client">>}
      /\ to \in {"closed", "up", "failed", "freed"}
  BY <1>1, <1>2, <1>3 DEF closing, to
<1>7. QED
  BY <1>3, <1>4, <1>5, <1>6, CloseKeeps

\* The second close finds nothing to close.
LEMMA CloseAgainKeeps ==
  ASSUME IInv, NEW b \in Box, CloseAgain(b)
  PROVE  IInv'
<1>1. at[b] = "closed" /\ Close(Parent, {fds[b][1]})
  BY DEF CloseAgain
<1>2. table[Parent][fds[b][1]] = Closed /\ table[Parent][fds[b][2]] = <<b, "client">>
  BY <1>1 DEF IInv, Has, Open
<1>3. fds[b][1] # fds[b][2]
  BY <1>2, EndsDiffer
<1>4. at' = [at EXCEPT ![b] = "up"] /\ UNCHANGED <<fds, waits, inside, calls, server, pipe, dbvars>>
  BY DEF CloseAgain
<1>5. at[b] \in Open /\ at[b] \notin {"paired", "forked"}
  BY <1>1 DEF Open
<1> DEFINE closing == {fds[b][1]}
           to == "up"
<1>6. fds[b][2] \notin closing /\ to \notin {"failed", "freed"} /\ to # "closed"
  BY <1>3
<1> HIDE DEF closing, to
<1>7. /\ Close(Parent, closing) /\ at' = [at EXCEPT ![b] = to]
      /\ \A fd \in closing : table[Parent][fd] \in {Closed, <<b, "server">>, <<b, "client">>}
      /\ to \in {"closed", "up", "failed", "freed"}
  BY <1>1, <1>2, <1>4 DEF closing, to
<1>8. QED
  BY <1>4, <1>5, <1>6, <1>7, CloseKeeps

LEMMA FreeKeeps ==
  ASSUME IInv, NEW b \in Box, Free(b)
  PROVE  IInv'
<1>1. at[b] = "up" /\ Close(Parent, {fds[b][2]})
  BY DEF Free
<1>2. table[Parent][fds[b][2]] = <<b, "client">>
  BY <1>1 DEF IInv, Has, Open
<1>3. at' = [at EXCEPT ![b] = "freed"] /\ UNCHANGED <<fds, waits, inside, calls, server, pipe, dbvars>>
  BY DEF Free
<1>4. at[b] \in Open /\ at[b] \notin {"paired", "forked"}
  BY <1>1 DEF Open
<1> DEFINE closing == {fds[b][2]}
           to == "freed"
<1>5. fds[b][2] \in closing /\ to \in {"failed", "freed"} /\ to # "closed"
  OBVIOUS
<1> HIDE DEF closing, to
<1>6. /\ Close(Parent, closing) /\ at' = [at EXCEPT ![b] = to]
      /\ \A fd \in closing : table[Parent][fd] \in {Closed, <<b, "server">>, <<b, "client">>}
      /\ to \in {"closed", "up", "failed", "freed"}
  BY <1>1, <1>2, <1>3 DEF closing, to
<1>7. QED
  BY <1>3, <1>4, <1>5, <1>6, CloseKeeps

-----------------------------------------------------------------------------
(* The other steps of the parent. *)

LEMMA SocketpairKeeps ==
  ASSUME IInv, NEW b \in Box, Socketpair(b)
  PROVE  IInv'
<1> DEFINE free == {fd \in Fd : table[Parent][fd] = Closed}
           first == Min(free)
           second == Min(free \ {first})
<1>1. Types /\ Bounds /\ OneAfterTheOther /\ Has /\ Needs /\ Serving
  BY DEF IInv
<1>2. /\ at[b] = "none" /\ \A c \in Box : c < b => at[c] \notin Allocating \cup {"none"}
      /\ at' = [at EXCEPT ![b] = "paired"]
      /\ UNCHANGED <<waits, inside, calls, server, pipe, dbvars>>
  BY DEF Socketpair
<1>3. /\ fds' = [fds EXCEPT ![b] = <<first, second>>]
      /\ table' = [table EXCEPT ![Parent][first] = <<b, "server">>,
                                ![Parent][second] = <<b, "client">>]
  BY DEF Socketpair
\* Boxes after this one were not allocated yet.
<1>4. \A c \in Box : at[c] \notin Allocating /\ (c > b => at[c] = "none")
  <2> SUFFICES ASSUME NEW c \in Box PROVE at[c] \notin Allocating /\ (c > b => at[c] = "none")
    OBVIOUS
  <2>1. CASE c < b
    BY <1>2, <2>1 DEF Box
  <2>2. CASE c = b
    BY <1>2, <2>2 DEF Allocating, Box
  <2>3. CASE c > b
    <3>1. b < c
      BY <2>3 DEF Box
    <3>2. at[c] = "none"
      BY <1>1, <1>2, <3>1 DEF OneAfterTheOther
    <3>3. QED
      BY <3>2 DEF Allocating
  <2>4. QED
    BY <2>1, <2>2, <2>3 DEF Box
<1>5. free # {} /\ free \ {first} # {}
  BY <1>2, <1>4, TwoAreFree
<1>6. first \in free /\ second \in free /\ first # second
  <2>1. free \subseteq Fd /\ free \ {first} \subseteq Fd
    OBVIOUS
  <2>2. first \in free
    BY <1>5, <2>1, MinFacts
  <2>3. second \in free \ {first}
    BY <1>5, <2>1, MinFacts
  <2>4. QED
    BY <2>2, <2>3
<1>7. /\ first \in Fd /\ second \in Fd /\ first # second
      /\ table[Parent][first] = Closed /\ table[Parent][second] = Closed
  BY <1>6
<1> HIDE DEF free, first, second
<1>8. /\ table' \in [Proc -> [Fd -> Ends]]
      /\ \A q \in Proc : q # Parent => table'[q] = table[q]
      /\ table'[Parent][first] = <<b, "server">> /\ table'[Parent][second] = <<b, "client">>
      /\ \A fd \in Fd : fd # first /\ fd # second => table'[Parent][fd] = table[Parent][fd]
  <2>1. table \in [Proc -> [Fd -> Ends]] /\ Parent \in Proc
    BY <1>1 DEF Types, Proc
  <2>2. <<b, "server">> \in Ends /\ <<b, "client">> \in Ends
    BY EndsDiffer
  <2>3. QED
    BY <1>3, <1>7, <2>1, <2>2
<1>9. \A c \in Box : at'[c] = IF c = b THEN "paired" ELSE at[c]
  BY <1>1, <1>2 DEF Types
<1>10. fds'[b][1] = first /\ fds'[b][2] = second /\ \A c \in Box : c # b => fds'[c] = fds[c]
  BY <1>1, <1>3 DEF Types
<1>11. Types'
  <2>1. at' \in [Box -> Allocating \cup {"none", "up", "failed", "freed"}]
    BY <1>1, <1>2 DEF Types, Allocating
  <2>2. fds' \in [Box -> Fd \X Fd]
    BY <1>1, <1>3, <1>7 DEF Types
  <2>3. QED
    BY <1>1, <1>2, <1>8, <2>1, <2>2 DEF Types, dbvars
<1>12. Bounds'
  BY <1>1, <1>2 DEF Bounds, dbvars
<1>13. OneAfterTheOther'
  <2> SUFFICES ASSUME NEW c \in Box, at'[c] # "none", NEW d \in Box, d < c
               PROVE  at'[d] \notin Allocating \cup {"none"}
    BY DEF OneAfterTheOther
  <2>1. c <= b
    BY <1>4, <1>9 DEF Box
  <2>2. d # b /\ d < b
    BY <2>1 DEF Box
  <2>3. QED
    BY <1>2, <1>9, <2>2
<1>14. Has'
  <2> SUFFICES ASSUME NEW c \in Box
               PROVE  /\ at'[c] \in {"paired", "forked"} => table'[Parent][fds'[c][1]] = <<c, "server">>
                      /\ at'[c] = "closed" => table'[Parent][fds'[c][1]] = Closed
                      /\ at'[c] \in Open => table'[Parent][fds'[c][2]] = <<c, "client">>
    BY DEF Has
  <2>1. CASE c = b
    BY <1>8, <1>9, <1>10, <2>1
  <2>2. CASE c # b
    <3>1. at'[c] = at[c] /\ fds'[c] = fds[c] /\ at'[c] \notin Allocating
      BY <1>4, <1>9, <1>10, <2>2
    <3>2. ASSUME at'[c] \in Open PROVE table'[Parent][fds'[c][2]] = <<c, "client">>
      <4>1. table[Parent][fds[c][2]] = <<c, "client">>
        BY <1>1, <3>1, <3>2 DEF Has
      <4>2. fds[c][2] \in Fd
        BY <1>1 DEF Types
      <4>3. <<c, "client">> # Closed
        BY EndsDiffer
      <4>4. fds[c][2] # first /\ fds[c][2] # second
        BY <1>7, <4>1, <4>3
      <4>5. QED
        BY <1>8, <3>1, <4>1, <4>2, <4>4
    <3>3. QED
      BY <3>1, <3>2 DEF Allocating
  <2>3. QED
    BY <2>1, <2>2
<1>15. Needs'
  <2> SUFFICES ASSUME NEW fd \in Fd, table'[Parent][fd] # Closed
               PROVE  \E c \in Box :
                 \/ table'[Parent][fd] = <<c, "client">> /\ at'[c] \in Open /\ fd = fds'[c][2]
                 \/ table'[Parent][fd] = <<c, "server">> /\ at'[c] \in {"paired", "forked"} /\ fd = fds'[c][1]
    BY DEF Needs
  <2>1. CASE fd = first \/ fd = second
    BY <1>8, <1>9, <1>10, <2>1 DEF Open
  <2>2. CASE fd # first /\ fd # second
    <3>1. table'[Parent][fd] = table[Parent][fd]
      BY <1>8, <2>2
    <3>2. PICK c \in Box :
            \/ table[Parent][fd] = <<c, "client">> /\ at[c] \in Open /\ fd = fds[c][2]
            \/ table[Parent][fd] = <<c, "server">> /\ at[c] \in {"paired", "forked"} /\ fd = fds[c][1]
      BY <1>1, <3>1 DEF Needs
    <3>3. c # b
      BY <1>2, <3>2 DEF Open
    <3>4. QED
      BY <1>9, <1>10, <3>1, <3>2, <3>3
  <2>3. QED
    BY <2>1, <2>2
<1>16. Serving'
  <2> SUFFICES ASSUME NEW c \in Box, server'[c] = "runs"
               PROVE  at'[c] # "none" /\ table'[c][fds'[c][1]] = <<c, "server">>
    BY DEF Serving
  <2>1. at[c] # "none" /\ table[c][fds[c][1]] = <<c, "server">>
    BY <1>1, <1>2 DEF Serving
  <2>2. table'[c] = table[c] /\ c # b
    BY <1>2, <1>8, <2>1, EndsDiffer
  <2>3. QED
    BY <1>9, <1>10, <2>1, <2>2
<1>17. QED
  BY <1>11, <1>12, <1>13, <1>14, <1>15, <1>16 DEF IInv

LEMMA ForkKeeps ==
  ASSUME IInv, NEW b \in Box, Fork(b)
  PROVE  IInv'
<1>1. Types /\ Bounds /\ OneAfterTheOther /\ Has /\ Needs /\ Serving
  BY DEF IInv
<1>2. /\ at[b] = "paired" /\ at' = [at EXCEPT ![b] = "forked"]
      /\ server' = [server EXCEPT ![b] = "runs"]
      /\ table' = [table EXCEPT ![b] = [table[Parent] EXCEPT ![fds[b][2]] = Closed]]
      /\ UNCHANGED <<fds, waits, inside, calls, pipe, dbvars>>
  BY DEF Fork
<1>3. /\ fds[b][1] \in Fd /\ fds[b][2] \in Fd /\ fds[b][1] # fds[b][2]
      /\ table[Parent][fds[b][1]] = <<b, "server">>
      /\ table[Parent][fds[b][2]] = <<b, "client">>
  BY <1>2, TwoEnds
<1>4. /\ table' \in [Proc -> [Fd -> Ends]]
      /\ \A q \in Proc : q # b => table'[q] = table[q]
      /\ table'[b][fds[b][1]] = <<b, "server">> /\ table'[Parent] = table[Parent]
  <2>1. table \in [Proc -> [Fd -> Ends]] /\ Parent \in Proc /\ b \in Proc /\ b # Parent /\ Closed \in Ends
    BY <1>1, EndsDiffer DEF Types, Proc
  <2>2. [table[Parent] EXCEPT ![fds[b][2]] = Closed] \in [Fd -> Ends]
    BY <2>1
  <2>3. QED
    BY <1>2, <1>3, <2>1, <2>2
<1>5. \A c \in Box : at'[c] = IF c = b THEN "forked" ELSE at[c]
  BY <1>1, <1>2 DEF Types
<1>6. Types'
  <2>1. at' \in [Box -> Allocating \cup {"none", "up", "failed", "freed"}]
    BY <1>1, <1>2 DEF Types, Allocating
  <2>2. server' \in [Box -> {"none", "runs", "ended"}]
    BY <1>1, <1>2 DEF Types
  <2>3. QED
    BY <1>1, <1>2, <1>4, <2>1, <2>2 DEF Types, dbvars
<1>7. Bounds'
  BY <1>1, <1>2 DEF Bounds, dbvars
<1>8. OneAfterTheOther'
  BY <1>1, <1>2, <1>5 DEF OneAfterTheOther, Allocating
<1>9. Has'
  <2> SUFFICES ASSUME NEW c \in Box
               PROVE  /\ at'[c] \in {"paired", "forked"} => table'[Parent][fds'[c][1]] = <<c, "server">>
                      /\ at'[c] = "closed" => table'[Parent][fds'[c][1]] = Closed
                      /\ at'[c] \in Open => table'[Parent][fds'[c][2]] = <<c, "client">>
    BY DEF Has
  <2>1. table'[Parent] = table[Parent] /\ fds' = fds
    BY <1>2, <1>4
  <2>2. CASE c = b
    BY <1>3, <1>5, <2>1, <2>2
  <2>3. CASE c # b
    <3>1. at'[c] = at[c]
      BY <1>5, <2>3
    <3>2. QED
      BY <1>1, <2>1, <3>1 DEF Has
  <2>4. QED
    BY <2>2, <2>3
<1>10. Needs'
  <2> SUFFICES ASSUME NEW fd \in Fd, table'[Parent][fd] # Closed
               PROVE  \E c \in Box :
                 \/ table'[Parent][fd] = <<c, "client">> /\ at'[c] \in Open /\ fd = fds'[c][2]
                 \/ table'[Parent][fd] = <<c, "server">> /\ at'[c] \in {"paired", "forked"} /\ fd = fds'[c][1]
    BY DEF Needs
  <2>1. PICK c \in Box :
          \/ table[Parent][fd] = <<c, "client">> /\ at[c] \in Open /\ fd = fds[c][2]
          \/ table[Parent][fd] = <<c, "server">> /\ at[c] \in {"paired", "forked"} /\ fd = fds[c][1]
    BY <1>1, <1>4 DEF Needs
  <2>2. QED
    BY <1>2, <1>4, <1>5, <2>1 DEF Open
<1>11. Serving'
  <2> SUFFICES ASSUME NEW c \in Box, server'[c] = "runs"
               PROVE  at'[c] # "none" /\ table'[c][fds'[c][1]] = <<c, "server">>
    BY DEF Serving
  <2>1. CASE c = b
    BY <1>2, <1>4, <1>5, <2>1
  <2>2. CASE c # b
    <3>1. server[c] = "runs" /\ c \in Proc
      BY <1>1, <1>2, <2>2, EndsDiffer DEF Types
    <3>2. at[c] # "none" /\ table[c][fds[c][1]] = <<c, "server">>
      BY <1>1, <3>1 DEF Serving
    <3>3. at'[c] = at[c] /\ table'[c] = table[c] /\ fds' = fds
      BY <1>2, <1>4, <1>5, <2>2, <3>1
    <3>4. QED
      BY <3>2, <3>3
  <2>3. QED
    BY <2>1, <2>2
<1>12. QED
  BY <1>6, <1>7, <1>8, <1>9, <1>10, <1>11 DEF IInv

-----------------------------------------------------------------------------
(* Steps that leave what is open as it is. *)

LEMMA SameTable ==
  ASSUME IInv, UNCHANGED <<table, at, fds, server>>
  PROVE  OneAfterTheOther' /\ Has' /\ Needs' /\ Serving'
<1>1. OneAfterTheOther'
  BY DEF IInv, OneAfterTheOther
<1>2. Has'
  BY DEF IInv, Has
<1>3. Needs'
  BY DEF IInv, Needs
<1>4. Serving'
  BY DEF IInv, Serving
<1>5. QED
  BY <1>1, <1>2, <1>3, <1>4

LEMMA WriteKeeps ==
  ASSUME IInv, NEW b \in Box, NEW op \in Op, NEW sync \in BOOLEAN, Write(b, op, sync),
         inside' \in [Box -> {"none", "deferred", "immediate"}],
         \A c \in Box : c # b => inside'[c] = inside[c],
         calls[b] < MaxCalls, inside'[b] # "none" => calls[b] + 1 < MaxCalls
  PROVE  IInv'
<1>1. Types /\ Bounds
  BY DEF IInv
<1>2. /\ Len(pipe[b]) < MaxPipe
      /\ pipe' = [pipe EXCEPT ![b] = Append(@, op)]
      /\ waits' = [waits EXCEPT ![b] = sync]
      /\ calls' = [calls EXCEPT ![b] = @ + 1]
      /\ UNCHANGED <<table, at, fds, server, dbvars>>
  BY DEF Write
<1>3. pipe[b] \in Seq(Op) /\ calls[b] \in Nat /\ MaxCalls \in Nat /\ MaxPipe \in Nat
  BY <1>1, BoxesAssumption DEF Types
<1>4. Append(pipe[b], op) \in Seq(Op) /\ Len(Append(pipe[b], op)) = Len(pipe[b]) + 1 /\ Len(pipe[b]) \in Nat
  BY <1>3
<1>5. Types'
  <2>1. pipe' \in [Box -> Seq(Op)]
    BY <1>1, <1>2, <1>4 DEF Types
  <2>2. waits' \in [Box -> BOOLEAN] /\ calls' \in [Box -> Nat]
    BY <1>1, <1>2, <1>3 DEF Types
  <2>3. QED
    BY <1>1, <1>2, <2>1, <2>2 DEF Types, dbvars
<1>6. Bounds'
  <2> SUFFICES ASSUME NEW c \in Box
               PROVE  /\ Len(pipe'[c]) <= MaxPipe
                      /\ calls'[c] <= MaxCalls /\ (inside'[c] # "none" => calls'[c] < MaxCalls)
    BY DEF Bounds
  <2>1. CASE c = b
    <3>1. pipe'[b] = Append(pipe[b], op) /\ calls'[b] = calls[b] + 1
      BY <1>1, <1>2 DEF Types
    <3>2. Len(pipe'[b]) <= MaxPipe
      BY <1>2, <1>3, <1>4, <3>1
    <3>3. calls'[b] <= MaxCalls /\ (inside'[b] # "none" => calls'[b] < MaxCalls)
      BY <1>3, <3>1
    <3>4. QED
      BY <2>1, <3>2, <3>3
  <2>2. CASE c # b
    <3>1. pipe'[c] = pipe[c] /\ calls'[c] = calls[c] /\ inside'[c] = inside[c]
      BY <1>1, <1>2, <2>2 DEF Types
    <3>2. QED
      BY <1>1, <3>1 DEF Bounds
  <2>3. QED
    BY <2>1, <2>2
<1>7. OneAfterTheOther' /\ Has' /\ Needs' /\ Serving'
  BY <1>2, SameTable
<1>8. QED
  BY <1>5, <1>6, <1>7 DEF IInv

LEMMA CallKeeps ==
  ASSUME IInv, NEW b \in Box,
         \/ \E kind \in {"deferred", "immediate"} : Begin(b, kind)
         \/ \E op \in {"read", "write"}, sync \in BOOLEAN : Exec(b, op, sync)
         \/ End(b)
  PROVE  IInv'
<1>1. /\ inside \in [Box -> {"none", "deferred", "immediate"}]
      /\ calls[b] \in Nat /\ MaxCalls \in Nat
      /\ inside[b] # "none" => calls[b] < MaxCalls
  BY BoxesAssumption DEF IInv, Types, Bounds
<1>2. Room(b) => calls[b] < MaxCalls /\ calls[b] + 1 < MaxCalls
  BY <1>1 DEF Room
<1>3. ASSUME NEW kind \in {"deferred", "immediate"}, Begin(b, kind) PROVE IInv'
  <2>1. Room(b) /\ inside' = [inside EXCEPT ![b] = kind] /\ Write(b, kind, FALSE)
    BY <1>3 DEF Begin
  <2>2. inside' \in [Box -> {"none", "deferred", "immediate"}] /\ \A c \in Box : c # b => inside'[c] = inside[c]
    BY <1>1, <2>1
  <2>3. kind \in Op /\ FALSE \in BOOLEAN
    BY DEF Op
  <2>4. QED
    BY <1>2, <2>1, <2>2, <2>3, WriteKeeps
<1>4. ASSUME NEW op \in {"read", "write"}, NEW sync \in BOOLEAN, Exec(b, op, sync) PROVE IInv'
  <2>1. Room(b) /\ inside' = inside /\ Write(b, op, sync)
    BY <1>4 DEF Exec
  <2>2. op \in Op
    BY DEF Op
  <2>3. QED
    BY <1>1, <1>2, <2>1, <2>2, WriteKeeps
<1>5. ASSUME End(b) PROVE IInv'
  <2>1. inside[b] # "none" /\ inside' = [inside EXCEPT ![b] = "none"]
    BY <1>5 DEF End
  <2>2. PICK op \in {"commit", "rollback"} : Write(b, op, FALSE)
    BY <1>5 DEF End
  <2>3. /\ inside' \in [Box -> {"none", "deferred", "immediate"}]
        /\ inside'[b] = "none" /\ \A c \in Box : c # b => inside'[c] = inside[c]
    BY <1>1, <2>1
  <2>4. op \in Op /\ FALSE \in BOOLEAN
    BY DEF Op
  <2>5. QED
    BY <1>1, <2>1, <2>2, <2>3, <2>4, WriteKeeps
<1>6. QED
  BY <1>3, <1>4, <1>5

-----------------------------------------------------------------------------
(* Steps of a server. *)

LEMMA ServeKeeps ==
  ASSUME IInv, NEW b \in Box, Serve(b)
  PROVE  IInv'
<1>1. Types /\ Bounds
  BY DEF IInv
<1> DEFINE op == Head(pipe[b])
<1>2. /\ pipe[b] # <<>>
      /\ lock' = [lock EXCEPT ![b] = Locked(b, op)]
      /\ trans' = [trans EXCEPT ![b] = IF op \in {"deferred", "immediate"} THEN op
                      ELSE IF op \in {"commit", "rollback"} THEN "none" ELSE @]
      /\ pipe' = [pipe EXCEPT ![b] = Tail(@)]
      /\ waits' = [waits EXCEPT ![b] = @ /\ Len(pipe[b]) > 1]
      /\ UNCHANGED <<table, at, fds, inside, calls, server>>
  BY DEF Serve
<1>3. pipe[b] \in Seq(Op) /\ op \in Op /\ Tail(pipe[b]) \in Seq(Op) /\ Len(Tail(pipe[b])) <= Len(pipe[b])
  BY <1>1, <1>2 DEF Types
<1> HIDE DEF op
<1>4. Types'
  <2>1. pipe' \in [Box -> Seq(Op)]
    BY <1>1, <1>2, <1>3 DEF Types
  <2>2. waits' \in [Box -> BOOLEAN]
    <3>1. waits \in [Box -> BOOLEAN] /\ (waits[b] /\ Len(pipe[b]) > 1) \in BOOLEAN
      BY <1>1 DEF Types
    <3>2. QED
      BY <1>2, <3>1
  <2>3. trans' \in [Box -> {"none", "deferred", "immediate"}]
    BY <1>1, <1>2 DEF Types
  <2>4. lock' \in [Box -> {"none", "shared", "reserved", "pending"}]
    <3>1. lock[b] \in {"none", "shared", "reserved", "pending"}
      BY <1>1 DEF Types
    <3>2. Locked(b, op) \in {"none", "shared", "reserved", "pending"}
      BY <3>1 DEF Locked
    <3>3. QED
      BY <1>1, <1>2, <3>2 DEF Types
  <2>5. QED
    BY <1>1, <1>2, <2>1, <2>2, <2>3, <2>4 DEF Types
<1>5. Bounds'
  <2> SUFFICES ASSUME NEW c \in Box
               PROVE  /\ Len(pipe'[c]) <= MaxPipe
                      /\ calls'[c] <= MaxCalls /\ (inside'[c] # "none" => calls'[c] < MaxCalls)
    BY DEF Bounds
  <2>1. Len(pipe'[c]) <= Len(pipe[c]) /\ Len(pipe'[c]) \in Nat /\ Len(pipe[c]) \in Nat
    BY <1>1, <1>2, <1>3 DEF Types
  <2>2. Len(pipe[c]) <= MaxPipe /\ MaxPipe \in Nat
    BY <1>1, BoxesAssumption DEF Bounds
  <2>3. QED
    BY <1>1, <1>2, <2>1, <2>2 DEF Bounds
<1>6. OneAfterTheOther' /\ Has' /\ Needs' /\ Serving'
  BY <1>2, SameTable
<1>7. QED
  BY <1>4, <1>5, <1>6 DEF IInv

LEMMA BusyKeeps ==
  ASSUME IInv, NEW b \in Box, Busy(b)
  PROVE  IInv'
<1>1. lock' = [lock EXCEPT ![b] = "pending"] /\ UNCHANGED <<table, at, fds, waits, inside, calls, server, pipe, trans>>
  BY DEF Busy, parentvars
<1>2. Types'
  BY <1>1 DEF IInv, Types
<1>3. Bounds'
  BY <1>1 DEF IInv, Bounds
<1>4. OneAfterTheOther' /\ Has' /\ Needs' /\ Serving'
  BY <1>1, SameTable
<1>5. QED
  BY <1>2, <1>3, <1>4 DEF IInv

LEMMA EndOfFileKeeps ==
  ASSUME IInv, NEW b \in Box, EndOfFile(b)
  PROVE  IInv'
<1>1. Types /\ Bounds /\ OneAfterTheOther /\ Has /\ Needs /\ Serving
  BY DEF IInv
<1>2. /\ server' = [server EXCEPT ![b] = "ended"] /\ Close(b, Fd)
      /\ trans' = [trans EXCEPT ![b] = "none"] /\ lock' = [lock EXCEPT ![b] = "none"]
      /\ UNCHANGED <<at, fds, waits, inside, calls, pipe>>
  BY DEF EndOfFile, parentvars
<1>3. /\ table' \in [Proc -> [Fd -> Ends]]
      /\ \A q \in Proc : q # b => table'[q] = table[q]
  <2>1. b \in Proc
    BY EndsDiffer
  <2>2. QED
    BY <1>2, <2>1, CloseFacts
<1>4. table'[Parent] = table[Parent]
  BY <1>3, EndsDiffer DEF Proc
<1>5. Types'
  BY <1>1, <1>2, <1>3 DEF Types
<1>6. Bounds'
  BY <1>1, <1>2 DEF Bounds
<1>7. OneAfterTheOther'
  BY <1>1, <1>2 DEF OneAfterTheOther
<1>8. Has'
  BY <1>1, <1>2, <1>4 DEF Has
<1>9. Needs'
  BY <1>1, <1>2, <1>4 DEF Needs
<1>10. Serving'
  <2> SUFFICES ASSUME NEW c \in Box, server'[c] = "runs"
               PROVE  at'[c] # "none" /\ table'[c][fds'[c][1]] = <<c, "server">>
    BY DEF Serving
  <2>1. c # b /\ server[c] = "runs" /\ c \in Proc
    BY <1>1, <1>2, EndsDiffer DEF Types
  <2>2. at[c] # "none" /\ table[c][fds[c][1]] = <<c, "server">>
    BY <1>1, <2>1 DEF Serving
  <2>3. QED
    BY <1>2, <1>3, <2>1, <2>2
<1>11. QED
  BY <1>5, <1>6, <1>7, <1>8, <1>9, <1>10 DEF IInv

-----------------------------------------------------------------------------
(* The theorems. *)

LEMMA StepIInv == IInv /\ [Next]_vars => IInv'
<1> SUFFICES ASSUME IInv, [Next]_vars PROVE IInv'
  OBVIOUS
<1>1. ASSUME UNCHANGED vars PROVE IInv'
  <2>1. UNCHANGED <<table, at, fds, waits, inside, calls, server, pipe, trans, lock>>
    BY <1>1 DEF vars, parentvars, dbvars
  <2>2. Types' /\ Bounds'
    BY <2>1 DEF IInv, Types, Bounds
  <2>3. OneAfterTheOther' /\ Has' /\ Needs' /\ Serving'
    BY <2>1, SameTable
  <2>4. QED
    BY <2>2, <2>3 DEF IInv
<1>2. ASSUME NEW b \in Box,
             \/ Socketpair(b) \/ Fork(b) \/ AllocFails(b)
             \/ CloseServerEnd(b) \/ CloseAgain(b) \/ Free(b)
             \/ \E kind \in {"deferred", "immediate"} : Begin(b, kind)
             \/ \E op \in {"read", "write"}, sync \in BOOLEAN : Exec(b, op, sync)
             \/ End(b)
             \/ Serve(b) \/ Busy(b) \/ EndOfFile(b)
      PROVE  IInv'
  <2>1. CASE Socketpair(b)
    BY <2>1, SocketpairKeeps
  <2>2. CASE Fork(b)
    BY <2>2, ForkKeeps
  <2>3. CASE AllocFails(b)
    BY <2>3, AllocFailsKeeps
  <2>4. CASE CloseServerEnd(b)
    BY <2>4, CloseServerEndKeeps
  <2>5. CASE CloseAgain(b)
    BY <2>5, CloseAgainKeeps
  <2>6. CASE Free(b)
    BY <2>6, FreeKeeps
  <2>7. CASE \/ \E kind \in {"deferred", "immediate"} : Begin(b, kind)
             \/ \E op \in {"read", "write"}, sync \in BOOLEAN : Exec(b, op, sync)
             \/ End(b)
    BY <2>7, CallKeeps
  <2>8. CASE Serve(b)
    BY <2>8, ServeKeeps
  <2>9. CASE Busy(b)
    BY <2>9, BusyKeeps
  <2>10. CASE EndOfFile(b)
    BY <2>10, EndOfFileKeeps
  <2>11. QED
    BY <1>2, <2>1, <2>2, <2>3, <2>4, <2>5, <2>6, <2>7, <2>8, <2>9, <2>10
<1>3. QED
  BY <1>1, <1>2 DEF Next

LEMMA Inductive == Spec => []IInv
BY InitIInv, StepIInv, PTL DEF Spec

\* Whatever is written, closed and freed, every variable keeps its type; so the
\* parent never runs out of the descriptors it is given, and no socket takes
\* more than it has room for.
THEOREM TypeCorrect == Spec => []TypeOK
<1>1. IInv => TypeOK
  <2> SUFFICES ASSUME IInv PROVE TypeOK
    OBVIOUS
  <2>1. Types /\ Bounds
    BY DEF IInv
  <2>2. \A b \in Box : calls[b] \in 0..MaxCalls
    BY <2>1, BoxesAssumption DEF Types, Bounds
  <2>3. calls \in [Box -> 0..MaxCalls]
    BY <2>1, <2>2 DEF Types
  <2>4. \A b \in Box : Len(pipe[b]) <= MaxPipe
    BY <2>1 DEF Bounds
  <2>5. QED
    BY <2>1, <2>3, <2>4 DEF Types, TypeOK
<1>2. QED
  BY <1>1, Inductive, PTL

\* sqlbox_alloc closes the server's end twice in the parent, and descriptors
\* are used again; a box writes to its own server all the same.
THEOREM KeepsOwnEnds == Spec => []OwnEnds
<1>1. IInv => OwnEnds
  BY DEF IInv, Has, Serving, OwnEnds, Open
<1>2. QED
  BY <1>1, Inductive, PTL

\* Whichever step of sqlbox_alloc fails, nothing of the box stays open in the
\* parent, nor does anything after sqlbox_free.
THEOREM LeaksNothing == Spec => []NothingLeaked
<1>1. IInv => NothingLeaked
  BY DEF IInv, Needs, NothingLeaked, Open
<1>2. QED
  BY <1>1, Inductive, PTL

-----------------------------------------------------------------------------
(* Nobody waits for ever because everybody waits: what is written to a box    *)
(* continues the transaction its server is in, and ends in the one the caller *)
(* believes it has; and only one server has locked the database for writing.  *)

Kind == {"none", "deferred", "immediate"}
Writing == {"reserved", "pending"}

\* What a careful caller asks for in a transaction, and which one that leaves.
Fits(st, op) ==
  /\ op \in {"deferred", "immediate"} => st = "none"
  /\ op \in {"commit", "rollback"} => st # "none"
  /\ op = "write" => st # "deferred"

After(st, op) ==
  CASE op \in {"deferred", "immediate"} -> op
    [] op \in {"commit", "rollback"} -> "none"
    [] OTHER -> st

\* From one transaction to another, along the requests in between.
Leads(from, ops, to) ==
  \E st \in [0..Len(ops) -> Kind] :
    /\ st[0] = from /\ st[Len(ops)] = to
    /\ \A i \in 1..Len(ops) : Fits(st[i-1], ops[i]) /\ st[i] = After(st[i-1], ops[i])

Sessions ==
  \A b \in Box :
    /\ Leads(trans[b], pipe[b], inside[b])
    /\ inside[b] # "none" => at[b] = "up"
    /\ waits[b] => pipe[b] # <<>>
    /\ at[b] \in {"forked", "closed", "up"} => server[b] = "runs"
    /\ pipe[b] # <<>> => server[b] = "runs"

Locks ==
  \A b \in Box :
    /\ lock[b] \in Writing <=> trans[b] = "immediate"
    /\ lock[b] = "shared" => trans[b] = "deferred"
    /\ lock[b] = "pending" => pipe[b] # <<>> /\ Head(pipe[b]) = "commit"
    /\ \A c \in Box : lock[b] \in Writing /\ lock[c] \in Writing => b = c

LEMMA LeadsNowhere ==
  ASSUME NEW from \in Kind, NEW to
  PROVE  Leads(from, <<>>, to) <=> from = to
<1>1. Len(<<>>) = 0 /\ 0 \in 0..0
  OBVIOUS
<1>2. ASSUME Leads(from, <<>>, to) PROVE from = to
  BY <1>1, <1>2 DEF Leads
<1>3. ASSUME from = to PROVE Leads(from, <<>>, to)
  <2> DEFINE st == [i \in 0..Len(<<>>) |-> from]
  <2>1. st \in [0..Len(<<>>) -> Kind] /\ st[0] = from /\ st[Len(<<>>)] = to
    BY <1>1, <1>3
  <2>2. \A i \in 1..Len(<<>>) : FALSE
    BY <1>1
  <2> HIDE DEF st
  <2>3. QED
    BY <2>1, <2>2 DEF Leads
<1>4. QED
  BY <1>2, <1>3

LEMMA LeadsOn ==
  ASSUME NEW from, NEW to, NEW ops \in Seq(Op), NEW op \in Op,
         Leads(from, ops, to), Fits(to, op)
  PROVE  Leads(from, Append(ops, op), After(to, op))
<1>1. PICK st \in [0..Len(ops) -> Kind] :
        /\ st[0] = from /\ st[Len(ops)] = to
        /\ \A i \in 1..Len(ops) : Fits(st[i-1], ops[i]) /\ st[i] = After(st[i-1], ops[i])
  BY DEF Leads
<1> DEFINE n == Len(ops)
           more == Append(ops, op)
           at2 == [i \in 0..n+1 |-> IF i = n + 1 THEN After(to, op) ELSE st[i]]
<1>2. n \in Nat /\ Len(more) = n + 1 /\ more[n+1] = op /\ \A i \in 1..n : more[i] = ops[i]
  OBVIOUS
<1>3. After(to, op) \in Kind
  <2>1. to \in Kind
    BY <1>1, <1>2
  <2>2. QED
    BY <2>1 DEF After, Kind
<1>4. at2 \in [0..n+1 -> Kind]
  <2> SUFFICES ASSUME NEW i \in 0..n+1 PROVE (IF i = n + 1 THEN After(to, op) ELSE st[i]) \in Kind
    OBVIOUS
  <2>1. i # n + 1 => i \in 0..n
    BY <1>2
  <2>2. QED
    BY <1>1, <1>3, <2>1
<1>5. at2[n+1] = After(to, op) /\ \A i \in 0..n : at2[i] = st[i]
  BY <1>2
<1> HIDE DEF at2, more
<1>6. at2[0] = from /\ at2[n] = to
  BY <1>1, <1>2, <1>5
<1>7. ASSUME NEW i \in 1..n+1
      PROVE  Fits(at2[i-1], more[i]) /\ at2[i] = After(at2[i-1], more[i])
  <2>1. CASE i = n + 1
    <3>1. i - 1 = n
      BY <1>2, <2>1
    <3>2. QED
      BY <1>2, <1>5, <1>6, <2>1, <3>1
  <2>2. CASE i # n + 1
    <3>1. i \in 1..n /\ i \in 0..n /\ i - 1 \in 0..n
      BY <1>2, <2>2
    <3>2. at2[i] = st[i] /\ at2[i-1] = st[i-1] /\ more[i] = ops[i]
      BY <1>2, <1>5, <3>1
    <3>3. QED
      BY <1>1, <3>1, <3>2
  <2>3. QED
    BY <2>1, <2>2
<1> HIDE DEF n
<1>8. Leads(from, more, After(to, op))
  BY <1>2, <1>4, <1>5, <1>6, <1>7 DEF Leads
<1>9. QED
  BY <1>8 DEF more

LEMMA LeadsFrom ==
  ASSUME NEW from, NEW to, NEW ops \in Seq(Op), ops # <<>>, Leads(from, ops, to)
  PROVE  Fits(from, Head(ops)) /\ Leads(After(from, Head(ops)), Tail(ops), to)
<1>1. PICK st \in [0..Len(ops) -> Kind] :
        /\ st[0] = from /\ st[Len(ops)] = to
        /\ \A i \in 1..Len(ops) : Fits(st[i-1], ops[i]) /\ st[i] = After(st[i-1], ops[i])
  BY DEF Leads
<1> DEFINE n == Len(ops)
           rest == Tail(ops)
           at2 == [i \in 0..n-1 |-> st[i+1]]
<1>2. n \in Nat /\ n >= 1 /\ Len(rest) = n - 1 /\ Head(ops) = ops[1] /\ \A i \in 1..n-1 : rest[i] = ops[i+1]
  OBVIOUS
<1>3. Fits(from, ops[1]) /\ st[1] = After(from, ops[1])
  <2>1. 1 \in 1..n /\ 1 - 1 = 0
    BY <1>2
  <2>2. Fits(st[1-1], ops[1]) /\ st[1] = After(st[1-1], ops[1])
    BY <1>1, <2>1
  <2>3. QED
    BY <1>1, <2>1, <2>2
<1>4. at2 \in [0..n-1 -> Kind]
  <2> SUFFICES ASSUME NEW i \in 0..n-1 PROVE st[i+1] \in Kind
    OBVIOUS
  <2>1. i + 1 \in 0..n
    BY <1>2
  <2>2. QED
    BY <1>1, <2>1
<1>5. \A i \in 0..n-1 : at2[i] = st[i+1]
  OBVIOUS
<1> HIDE DEF at2, rest
<1>6. at2[0] = After(from, ops[1]) /\ at2[n-1] = to
  <2>1. 0 \in 0..n-1 /\ 0 + 1 = 1 /\ n - 1 \in 0..n-1 /\ n - 1 + 1 = n
    BY <1>2
  <2>2. at2[0] = st[1] /\ at2[n-1] = st[n]
    BY <1>5, <2>1
  <2>3. QED
    BY <1>1, <1>3, <2>2
<1>7. ASSUME NEW i \in 1..n-1
      PROVE  Fits(at2[i-1], rest[i]) /\ at2[i] = After(at2[i-1], rest[i])
  <2>1. i \in 0..n-1 /\ i - 1 \in 0..n-1 /\ i + 1 \in 1..n /\ i - 1 + 1 = i /\ i + 1 - 1 = i
    BY <1>2
  <2>2. at2[i-1] = st[i] /\ at2[i] = st[i+1] /\ rest[i] = ops[i+1]
    BY <1>2, <1>5, <2>1
  <2>3. Fits(st[i+1-1], ops[i+1]) /\ st[i+1] = After(st[i+1-1], ops[i+1])
    BY <1>1, <2>1
  <2>4. QED
    BY <2>1, <2>2, <2>3
<1> HIDE DEF n
<1>8. Leads(After(from, ops[1]), rest, to)
  BY <1>2, <1>4, <1>6, <1>7 DEF Leads
<1>9. QED
  BY <1>2, <1>3, <1>8 DEF rest

LEMMA InitSessions == Init => Sessions /\ Locks
<1> SUFFICES ASSUME Init PROVE Sessions /\ Locks
  OBVIOUS
<1>1. \A b \in Box : Leads("none", <<>>, "none")
  BY LeadsNowhere DEF Kind
<1>2. Sessions
  BY <1>1 DEF Init, Sessions
<1>3. Locks
  BY DEF Init, Locks, Writing
<1>4. QED
  BY <1>2, <1>3

\* The steps of sqlbox_alloc and sqlbox_free.
LEMMA AllocKeepsSessions ==
  ASSUME Careful, IInv, Sessions, Locks, NEW b \in Box,
         \/ Socketpair(b) \/ Fork(b) \/ AllocFails(b)
         \/ CloseServerEnd(b) \/ CloseAgain(b) \/ Free(b)
  PROVE  Sessions' /\ Locks'
<1>1. UNCHANGED <<pipe, waits, inside, trans, lock>>
  BY DEF Socketpair, Fork, AllocFails, CloseServerEnd, CloseAgain, Free, dbvars
<1>2. at \in [Box -> Allocating \cup {"none", "up", "failed", "freed"}] /\ server \in [Box -> {"none", "runs", "ended"}]
  BY DEF IInv, Types
<1>3. \A c \in Box : c # b => at'[c] = at[c]
  BY <1>2 DEF Socketpair, Fork, AllocFails, CloseServerEnd, CloseAgain, Free
<1>4. \A c \in Box : server'[c] = server[c] \/ (c = b /\ server'[c] = "runs")
  BY <1>2 DEF Socketpair, Fork, AllocFails, CloseServerEnd, CloseAgain, Free
<1>5. inside[b] = "none"
  BY DEF Sessions, Socketpair, Fork, AllocFails, CloseServerEnd, CloseAgain, Free
<1>6. at'[b] \in {"forked", "closed", "up"} => server'[b] = "runs" \/ at[b] \in {"forked", "closed"}
  BY <1>2 DEF Socketpair, Fork, AllocFails, CloseServerEnd, CloseAgain, Free
<1>7. Sessions'
  <2> SUFFICES ASSUME NEW c \in Box
               PROVE  /\ Leads(trans'[c], pipe'[c], inside'[c])
                      /\ inside'[c] # "none" => at'[c] = "up"
                      /\ waits'[c] => pipe'[c] # <<>>
                      /\ at'[c] \in {"forked", "closed", "up"} => server'[c] = "runs"
                      /\ pipe'[c] # <<>> => server'[c] = "runs"
    BY DEF Sessions
  <2>1. Leads(trans'[c], pipe'[c], inside'[c]) /\ (waits'[c] => pipe'[c] # <<>>)
    BY <1>1 DEF Sessions
  <2>2. inside'[c] # "none" => at'[c] = "up"
    BY <1>1, <1>3, <1>5 DEF Sessions
  <2>3. at'[c] \in {"forked", "closed", "up"} => server'[c] = "runs"
    BY <1>3, <1>4, <1>6 DEF Sessions
  <2>4. pipe'[c] # <<>> => server'[c] = "runs"
    BY <1>1, <1>4 DEF Sessions
  <2>5. QED
    BY <2>1, <2>2, <2>3, <2>4
<1>8. Locks'
  BY <1>1 DEF Locks
<1>9. QED
  BY <1>7, <1>8

\* What a careful caller writes continues its transaction.
LEMMA WriteKeepsSessions ==
  ASSUME IInv, Sessions, Locks, NEW b \in Box, NEW op \in Op, NEW sync \in BOOLEAN, Write(b, op, sync),
         Fits(inside[b], op), inside' = [inside EXCEPT ![b] = After(inside[b], op)]
  PROVE  Sessions' /\ Locks'
<1>1. /\ pipe \in [Box -> Seq(Op)] /\ waits \in [Box -> BOOLEAN]
      /\ inside \in [Box -> Kind] /\ trans \in [Box -> Kind]
  BY DEF IInv, Types, Kind
<1>2. /\ at[b] = "up"
      /\ pipe' = [pipe EXCEPT ![b] = Append(@, op)]
      /\ waits' = [waits EXCEPT ![b] = sync]
      /\ UNCHANGED <<at, server, trans, lock>>
  BY DEF Write, dbvars
<1>3. pipe'[b] = Append(pipe[b], op) /\ inside'[b] = After(inside[b], op) /\ pipe[b] \in Seq(Op)
  BY <1>1, <1>2
<1>4. Append(pipe[b], op) # <<>> /\ (pipe[b] # <<>> => Head(Append(pipe[b], op)) = Head(pipe[b]))
  BY <1>3
<1>5. \A c \in Box : c # b => pipe'[c] = pipe[c] /\ inside'[c] = inside[c] /\ waits'[c] = waits[c]
  BY <1>1, <1>2
<1>6. Sessions'
  <2> SUFFICES ASSUME NEW c \in Box
               PROVE  /\ Leads(trans'[c], pipe'[c], inside'[c])
                      /\ inside'[c] # "none" => at'[c] = "up"
                      /\ waits'[c] => pipe'[c] # <<>>
                      /\ at'[c] \in {"forked", "closed", "up"} => server'[c] = "runs"
                      /\ pipe'[c] # <<>> => server'[c] = "runs"
    BY DEF Sessions
  <2>1. CASE c = b
    <3>1. Leads(trans[b], pipe[b], inside[b]) /\ server[b] = "runs"
      BY <1>2 DEF Sessions
    <3>2. Leads(trans[b], Append(pipe[b], op), After(inside[b], op))
      BY <1>3, <3>1, LeadsOn
    <3>3. QED
      BY <1>2, <1>3, <1>4, <2>1, <3>1, <3>2
  <2>2. CASE c # b
    BY <1>2, <1>5, <2>2 DEF Sessions
  <2>3. QED
    BY <2>1, <2>2
<1>7. Locks'
  <2>1. \A c \in Box : pipe[c] # <<>> => pipe'[c] # <<>> /\ Head(pipe'[c]) = Head(pipe[c])
    BY <1>3, <1>4, <1>5
  <2>2. QED
    BY <1>2, <2>1 DEF Locks
<1>8. QED
  BY <1>6, <1>7

LEMMA CallKeepsSessions ==
  ASSUME Careful, IInv, Sessions, Locks, NEW b \in Box,
         \/ \E kind \in {"deferred", "immediate"} : Begin(b, kind)
         \/ \E op \in {"read", "write"}, sync \in BOOLEAN : Exec(b, op, sync)
         \/ End(b)
  PROVE  Sessions' /\ Locks'
<1>1. inside \in [Box -> Kind]
  BY DEF IInv, Types, Kind
<1>2. ASSUME NEW kind \in {"deferred", "immediate"}, Begin(b, kind) PROVE Sessions' /\ Locks'
  <2>1. inside[b] = "none" /\ inside' = [inside EXCEPT ![b] = kind] /\ Write(b, kind, FALSE)
    BY <1>2 DEF Begin
  <2>2. kind \in Op /\ FALSE \in BOOLEAN /\ Fits(inside[b], kind) /\ After(inside[b], kind) = kind
    BY <2>1 DEF Op, Fits, After
  <2>3. QED
    BY <2>1, <2>2, WriteKeepsSessions
<1>3. ASSUME NEW op \in {"read", "write"}, NEW sync \in BOOLEAN, Exec(b, op, sync) PROVE Sessions' /\ Locks'
  <2>1. (op = "write" => inside[b] # "deferred") /\ inside' = inside /\ Write(b, op, sync)
    BY <1>3 DEF Exec
  <2>2. op \in Op /\ Fits(inside[b], op) /\ After(inside[b], op) = inside[b]
    BY <2>1 DEF Op, Fits, After
  <2>3. inside' = [inside EXCEPT ![b] = After(inside[b], op)]
    BY <1>1, <2>1, <2>2
  <2>4. QED
    BY <2>1, <2>2, <2>3, WriteKeepsSessions
<1>4. ASSUME End(b) PROVE Sessions' /\ Locks'
  <2>1. inside[b] # "none" /\ inside' = [inside EXCEPT ![b] = "none"]
    BY <1>4 DEF End
  <2>2. PICK op \in {"commit", "rollback"} : Write(b, op, FALSE)
    BY <1>4 DEF End
  <2>3. op \in Op /\ FALSE \in BOOLEAN /\ Fits(inside[b], op) /\ After(inside[b], op) = "none"
    BY <2>1 DEF Op, Fits, After
  <2>4. QED
    BY <2>1, <2>2, <2>3, WriteKeepsSessions
<1>5. QED
  BY <1>2, <1>3, <1>4

LEMMA LongTail ==
  ASSUME NEW ops \in Seq(Op), Len(ops) > 1
  PROVE  Tail(ops) # <<>>
<1>1. PICK n \in Nat, m \in Int : n = Len(ops) /\ m = Len(Tail(ops)) /\ m = n - 1
  OBVIOUS
<1>2. n > 1 /\ m = n - 1
  BY <1>1
<1>3. m # 0
  BY ONLY <1>2
<1>4. Len(<<>>) = 0
  OBVIOUS
<1>5. QED
  BY <1>1, <1>3, <1>4, Zenon

\* What a server is told to do fits the transaction it is in, and two are not
\* let to write.
LEMMA ServeKeepsSessions ==
  ASSUME IInv, Sessions, Locks, NEW b \in Box, Serve(b)
  PROVE  Sessions' /\ Locks'
<1>1. /\ pipe \in [Box -> Seq(Op)] /\ waits \in [Box -> BOOLEAN]
      /\ inside \in [Box -> Kind] /\ trans \in [Box -> Kind]
      /\ lock \in [Box -> {"none", "shared", "reserved", "pending"}]
  BY DEF IInv, Types, Kind
<1> DEFINE op == Head(pipe[b])
<1>2. /\ pipe[b] # <<>> /\ Granted(b, op)
      /\ lock' = [lock EXCEPT ![b] = Locked(b, op)]
      /\ trans' = [trans EXCEPT ![b] = IF op \in {"deferred", "immediate"} THEN op
                      ELSE IF op \in {"commit", "rollback"} THEN "none" ELSE @]
      /\ pipe' = [pipe EXCEPT ![b] = Tail(@)]
      /\ waits' = [waits EXCEPT ![b] = @ /\ Len(pipe[b]) > 1]
      /\ UNCHANGED <<at, inside, server>>
  BY DEF Serve
<1>3. pipe[b] \in Seq(Op) /\ op \in Op
  BY <1>1, <1>2
<1> HIDE DEF op
<1>4. pipe'[b] = Tail(pipe[b]) /\ trans'[b] = After(trans[b], op) /\ lock'[b] = Locked(b, op)
  BY <1>1, <1>2 DEF After
<1>5. Fits(trans[b], op) /\ Leads(After(trans[b], op), Tail(pipe[b]), inside[b])
  <2>1. Leads(trans[b], pipe[b], inside[b])
    BY DEF Sessions
  <2>2. QED
    BY <1>2, <1>3, <2>1, LeadsFrom DEF op
<1>6. waits'[b] => pipe'[b] # <<>>
  <2>1. waits'[b] => Len(pipe[b]) > 1
    BY <1>1, <1>2
  <2>2. Len(pipe[b]) > 1 => Tail(pipe[b]) # <<>>
    BY <1>3, LongTail
  <2>3. QED
    BY <1>4, <2>1, <2>2
<1>7. \A c \in Box : c # b =>
        /\ pipe'[c] = pipe[c] /\ waits'[c] = waits[c] /\ trans'[c] = trans[c] /\ lock'[c] = lock[c]
  BY <1>1, <1>2
<1>8. Sessions'
  <2> SUFFICES ASSUME NEW c \in Box
               PROVE  /\ Leads(trans'[c], pipe'[c], inside'[c])
                      /\ inside'[c] # "none" => at'[c] = "up"
                      /\ waits'[c] => pipe'[c] # <<>>
                      /\ at'[c] \in {"forked", "closed", "up"} => server'[c] = "runs"
                      /\ pipe'[c] # <<>> => server'[c] = "runs"
    BY DEF Sessions
  <2>1. CASE c = b
    BY <1>2, <1>4, <1>5, <1>6, <2>1 DEF Sessions
  <2>2. CASE c # b
    BY <1>2, <1>7, <2>2 DEF Sessions
  <2>3. QED
    BY <2>1, <2>2
<1>9. /\ lock[b] \in Writing <=> trans[b] = "immediate"
      /\ lock[b] = "shared" => trans[b] = "deferred"
      /\ lock[b] = "pending" => op = "commit"
      /\ trans[b] \in Kind /\ lock[b] \in {"none", "shared", "reserved", "pending"}
  BY <1>1 DEF Locks, op
<1>10. /\ Locked(b, op) \in Writing <=> After(trans[b], op) = "immediate"
       /\ Locked(b, op) = "shared" => After(trans[b], op) = "deferred"
       /\ Locked(b, op) # "pending"
       /\ Locked(b, op) \in Writing => lock[b] \in Writing \/ op = "immediate"
  <2>1. CASE op = "deferred"
    BY <1>5, <1>9, <2>1 DEF Locked, After, Fits, Writing
  <2>2. CASE op = "immediate"
    BY <1>5, <1>9, <2>2 DEF Locked, After, Fits, Writing
  <2>3. CASE op \in {"commit", "rollback"}
    BY <1>5, <1>9, <2>3 DEF Locked, After, Fits, Writing
  <2>4. CASE op = "read"
    BY <1>5, <1>9, <2>4 DEF Locked, After, Fits, Writing, Kind
  <2>5. CASE op = "write"
    BY <1>5, <1>9, <2>5 DEF Locked, After, Fits, Writing, Kind
  <2>6. QED
    BY <1>3, <2>1, <2>2, <2>3, <2>4, <2>5 DEF Op
<1>11. op = "immediate" => \A c \in Box : c # b => lock[c] \notin Writing
  BY <1>2 DEF Granted, Others, Writing
<1>12. Locks'
  <2> SUFFICES ASSUME NEW c \in Box
               PROVE  /\ lock'[c] \in Writing <=> trans'[c] = "immediate"
                      /\ lock'[c] = "shared" => trans'[c] = "deferred"
                      /\ lock'[c] = "pending" => pipe'[c] # <<>> /\ Head(pipe'[c]) = "commit"
                      /\ \A d \in Box : lock'[c] \in Writing /\ lock'[d] \in Writing => c = d
    BY DEF Locks
  <2>1. /\ lock'[c] \in Writing <=> trans'[c] = "immediate"
        /\ lock'[c] = "shared" => trans'[c] = "deferred"
        /\ lock'[c] = "pending" => pipe'[c] # <<>> /\ Head(pipe'[c]) = "commit"
    <3>1. CASE c = b
      BY <1>4, <1>10, <3>1
    <3>2. CASE c # b
      BY <1>7, <3>2 DEF Locks
    <3>3. QED
      BY <3>1, <3>2
  <2>2. ASSUME NEW d \in Box, lock'[c] \in Writing, lock'[d] \in Writing PROVE c = d
    <3>1. CASE c = b /\ d # b
      BY <1>4, <1>7, <1>10, <1>11, <2>2, <3>1 DEF Locks
    <3>2. CASE c # b /\ d = b
      BY <1>4, <1>7, <1>10, <1>11, <2>2, <3>2 DEF Locks
    <3>3. CASE c # b /\ d # b
      BY <1>7, <2>2, <3>3 DEF Locks
    <3>4. QED
      BY <3>1, <3>2, <3>3
  <2>3. QED
    BY <2>1, <2>2
<1>13. QED
  BY <1>8, <1>12

LEMMA BusyKeepsSessions ==
  ASSUME IInv, Sessions, Locks, NEW b \in Box, Busy(b)
  PROVE  Sessions' /\ Locks'
<1>1. /\ pipe[b] # <<>> /\ Head(pipe[b]) = "commit" /\ lock[b] = "reserved"
      /\ lock' = [lock EXCEPT ![b] = "pending"]
      /\ UNCHANGED <<at, waits, inside, server, pipe, trans>>
  BY DEF Busy, parentvars
<1>2. \A c \in Box : lock'[c] = IF c = b THEN "pending" ELSE lock[c]
  BY <1>1 DEF IInv, Types
<1>3. \A c \in Box : lock'[c] \in Writing <=> lock[c] \in Writing
  BY <1>1, <1>2 DEF Writing
<1>4. Sessions'
  BY <1>1 DEF Sessions
<1>5. Locks'
  BY <1>1, <1>2, <1>3 DEF Locks
<1>6. QED
  BY <1>4, <1>5

\* When a server ends its caller has none of its transactions left.
LEMMA EndOfFileKeepsSessions ==
  ASSUME IInv, Sessions, Locks, NEW b \in Box, EndOfFile(b)
  PROVE  Sessions' /\ Locks'
<1>1. /\ pipe[b] = <<>> /\ ~Held(<<b, "client">>)
      /\ server' = [server EXCEPT ![b] = "ended"]
      /\ trans' = [trans EXCEPT ![b] = "none"] /\ lock' = [lock EXCEPT ![b] = "none"]
      /\ UNCHANGED <<at, waits, inside, pipe>>
  BY DEF EndOfFile, parentvars
<1>2. at[b] \notin Open
  <2>1. Parent \in Proc /\ fds[b][2] \in Fd
    BY DEF IInv, Types, Proc
  <2>2. table[Parent][fds[b][2]] # <<b, "client">>
    BY <1>1, <2>1 DEF Held
  <2>3. QED
    BY <2>2 DEF IInv, Has
<1>3. inside[b] = "none"
  BY <1>2 DEF Sessions, Open
<1>4. \A c \in Box : /\ trans'[c] = IF c = b THEN "none" ELSE trans[c]
                     /\ lock'[c] = IF c = b THEN "none" ELSE lock[c]
                     /\ server'[c] = IF c = b THEN "ended" ELSE server[c]
  BY <1>1 DEF IInv, Types
<1>5. Leads("none", <<>>, "none")
  BY LeadsNowhere DEF Kind
<1>6. Sessions'
  <2> SUFFICES ASSUME NEW c \in Box
               PROVE  /\ Leads(trans'[c], pipe'[c], inside'[c])
                      /\ inside'[c] # "none" => at'[c] = "up"
                      /\ waits'[c] => pipe'[c] # <<>>
                      /\ at'[c] \in {"forked", "closed", "up"} => server'[c] = "runs"
                      /\ pipe'[c] # <<>> => server'[c] = "runs"
    BY DEF Sessions
  <2>1. CASE c = b
    BY <1>1, <1>2, <1>3, <1>4, <1>5, <2>1 DEF Sessions, Open
  <2>2. CASE c # b
    BY <1>1, <1>4, <2>2 DEF Sessions
  <2>3. QED
    BY <2>1, <2>2
<1>7. Locks'
  BY <1>1, <1>4 DEF Locks, Writing
<1>8. QED
  BY <1>6, <1>7

LEMMA StepSessions ==
  ASSUME Careful
  PROVE  IInv /\ Sessions /\ Locks /\ [Next]_vars => Sessions' /\ Locks'
<1> SUFFICES ASSUME IInv, Sessions, Locks, [Next]_vars PROVE Sessions' /\ Locks'
  OBVIOUS
<1>1. ASSUME UNCHANGED vars PROVE Sessions' /\ Locks'
  <2>1. UNCHANGED <<at, waits, inside, server, pipe, trans, lock>>
    BY <1>1 DEF vars, parentvars, dbvars
  <2>2. QED
    BY <2>1 DEF Sessions, Locks
<1>2. ASSUME NEW b \in Box,
             \/ Socketpair(b) \/ Fork(b) \/ AllocFails(b)
             \/ CloseServerEnd(b) \/ CloseAgain(b) \/ Free(b)
             \/ \E kind \in {"deferred", "immediate"} : Begin(b, kind)
             \/ \E op \in {"read", "write"}, sync \in BOOLEAN : Exec(b, op, sync)
             \/ End(b)
             \/ Serve(b) \/ Busy(b) \/ EndOfFile(b)
      PROVE  Sessions' /\ Locks'
  <2>1. CASE \/ Socketpair(b) \/ Fork(b) \/ AllocFails(b)
             \/ CloseServerEnd(b) \/ CloseAgain(b) \/ Free(b)
    BY <2>1, AllocKeepsSessions
  <2>2. CASE \/ \E kind \in {"deferred", "immediate"} : Begin(b, kind)
             \/ \E op \in {"read", "write"}, sync \in BOOLEAN : Exec(b, op, sync)
             \/ End(b)
    BY <2>2, CallKeepsSessions
  <2>3. CASE Serve(b)
    BY <2>3, ServeKeepsSessions
  <2>4. CASE Busy(b)
    BY <2>4, BusyKeepsSessions
  <2>5. CASE EndOfFile(b)
    BY <2>5, EndOfFileKeepsSessions
  <2>6. QED
    BY <1>2, <2>1, <2>2, <2>3, <2>4, <2>5
<1>3. QED
  BY <1>1, <1>2 DEF Next

\* A box that is in a transaction has a request to go on with, or its caller can
\* end it.
LEMMA TurnOf ==
  ASSUME IInv, Sessions, NEW b \in Box, trans[b] # "none", pipe[b] = <<>>
  PROVE  CanEnd(b)
<1>1. inside[b] = trans[b]
  <2>1. Leads(trans[b], <<>>, inside[b])
    BY DEF Sessions
  <2>2. trans[b] \in Kind
    BY DEF IInv, Types, Kind
  <2>3. QED
    BY <2>1, <2>2, LeadsNowhere
<1>2. at[b] = "up" /\ ~waits[b] /\ inside[b] # "none"
  BY <1>1 DEF Sessions
<1>3. Len(pipe[b]) < MaxPipe
  <2>1. 0 < MaxPipe
    BY BoxesAssumption
  <2>2. QED
    BY <2>1
<1>4. QED
  BY <1>2, <1>3 DEF CanEnd

\* A reader never waits for long: it asks to read on, or to end.
LEMMA ReaderGoesOn ==
  ASSUME IInv, Sessions, Locks, NEW b \in Box, lock[b] = "shared"
  PROVE  CanServe(b) \/ CanEnd(b)
<1>1. trans[b] = "deferred"
  BY DEF Locks
<1>2. CASE pipe[b] = <<>>
  BY <1>1, <1>2, TurnOf
<1>3. CASE pipe[b] # <<>>
  <2>1. pipe[b] \in Seq(Op) /\ Leads(trans[b], pipe[b], inside[b]) /\ server[b] = "runs"
    BY <1>3 DEF IInv, Types, Sessions
  <2>2. Fits(trans[b], Head(pipe[b])) /\ Head(pipe[b]) \in Op
    BY <1>3, <2>1, LeadsFrom
  <2>3. Head(pipe[b]) \in {"read", "commit", "rollback"}
    BY <1>1, <2>2 DEF Fits, Op
  <2>4. Granted(b, Head(pipe[b]))
    BY <2>3 DEF Granted
  <2>5. QED
    BY <1>3, <2>1, <2>4 DEF CanServe
<1>4. QED
  BY <1>2, <1>3

\* Nor does the one that writes, but for the readers when it commits.
LEMMA WriterGoesOn ==
  ASSUME IInv, Sessions, Locks, NEW b \in Box, lock[b] \in Writing
  PROVE  \E c \in Box : CanServe(c) \/ CanEnd(c)
<1>1. trans[b] = "immediate" /\ \A c \in Box : c # b => lock[c] \in {"none", "shared"}
  BY DEF IInv, Types, Locks, Writing
<1>2. CASE \E c \in Box : lock[c] = "shared"
  BY <1>2, ReaderGoesOn
<1>3. CASE pipe[b] = <<>>
  BY <1>1, <1>3, TurnOf
<1>4. CASE pipe[b] # <<>> /\ \A c \in Box : lock[c] # "shared"
  <2>1. pipe[b] \in Seq(Op) /\ Leads(trans[b], pipe[b], inside[b]) /\ server[b] = "runs"
    BY <1>4 DEF IInv, Types, Sessions
  <2>2. Fits(trans[b], Head(pipe[b])) /\ Head(pipe[b]) \in Op
    BY <1>4, <2>1, LeadsFrom
  <2>3. Head(pipe[b]) \in {"read", "write", "commit", "rollback"}
    BY <1>1, <2>2 DEF Fits, Op
  <2>4. Others(b) \subseteq {"none"}
    BY <1>1, <1>4 DEF Others
  <2>5. lock[b] # "none"
    BY DEF Writing
  <2>6. Granted(b, Head(pipe[b]))
    BY <2>3, <2>4, <2>5 DEF Granted
  <2>7. QED
    BY <1>4, <2>1, <2>6 DEF CanServe
<1>5. QED
  BY <1>2, <1>3, <1>4

\* Servers that retry SQLITE_BUSY without end, each with its locks, never all
\* wait for one another, for any number of boxes, if callers write in immediate
\* transactions: some server is answered at its next try, or some caller is free
\* to end the transaction that is in the way.
THEOREM NeverAllWait == Spec => []NoStandstill
<1>1. CASE Careful
  <2>1. ASSUME IInv, Sessions, Locks PROVE NoStandstill
    <3> SUFFICES ASSUME NEW b \in Box, pipe[b] # <<>>
                 PROVE  \E c \in Box : CanServe(c) \/ CanEnd(c)
      BY DEF NoStandstill
    <3>1. CASE \E c \in Box : lock[c] \in Writing
      BY <2>1, <3>1, WriterGoesOn
    <3>2. CASE \E c \in Box : lock[c] = "shared"
      BY <2>1, <3>2, ReaderGoesOn
    <3>3. CASE \A c \in Box : lock[c] \notin Writing /\ lock[c] # "shared"
      <4>1. \A c \in Box : lock[c] = "none"
        BY <2>1, <3>3 DEF IInv, Types, Writing
      <4>2. pipe[b] \in Seq(Op) /\ server[b] = "runs"
        BY <2>1 DEF IInv, Types, Sessions
      <4>3. Head(pipe[b]) \in Op
        BY <4>2
      <4>4. Others(b) \subseteq {"none"}
        BY <4>1 DEF Others
      <4>5. Granted(b, Head(pipe[b]))
        BY <4>1, <4>3, <4>4 DEF Granted, Op
      <4>6. QED
        BY <4>2, <4>5 DEF CanServe
    <3>4. QED
      BY <3>1, <3>2, <3>3
  <2>2. Init => IInv /\ Sessions /\ Locks
    BY InitIInv, InitSessions
  <2>3. IInv /\ Sessions /\ Locks /\ [Next]_vars => (IInv /\ Sessions /\ Locks)'
    BY <1>1, StepIInv, StepSessions
  <2>4. IInv /\ Sessions /\ Locks => NoStandstill
    BY <2>1
  <2>5. QED
    BY <2>2, <2>3, <2>4, PTL DEF Spec
<1>2. CASE ~Careful
  <2>1. NoStandstill
    BY <1>2 DEF NoStandstill
  <2>2. QED
    BY <2>1, PTL
<1>3. QED
  BY <1>1, <1>2

-----------------------------------------------------------------------------
(* Who keeps whom from ending.                                              *)

\* A server that has not started or has ended has nothing open, and one that
\* runs has callers' ends of none but boxes allocated before its own.
Inherits ==
  \A c \in Box : \A fd \in Fd :
    table[c][fd] # Closed =>
      server[c] = "runs" /\ \A b \in Box : table[c][fd] = <<b, "client">> => b < c

LEMMA ForkInherits ==
  ASSUME IInv, Inherits, NEW b \in Box, Fork(b)
  PROVE  Inherits'
<1>1. /\ at[b] = "paired" /\ server' = [server EXCEPT ![b] = "runs"]
      /\ table' = [table EXCEPT ![b] = [table[Parent] EXCEPT ![fds[b][2]] = Closed]]
  BY DEF Fork
<1>2. /\ table \in [Proc -> [Fd -> Ends]] /\ server \in [Box -> {"none", "runs", "ended"}]
      /\ Parent \in Proc /\ b \in Proc /\ fds[b][2] \in Fd
  BY <1>1, EndsDiffer, TwoEnds DEF IInv, Types, Proc
<1>3. SUFFICES ASSUME NEW c \in Box, NEW fd \in Fd, table'[c][fd] # Closed
               PROVE  server'[c] = "runs" /\ \A d \in Box : table'[c][fd] = <<d, "client">> => d < c
  BY DEF Inherits
<1>4. CASE c # b
  <2>1. table'[c] = table[c] /\ server'[c] = server[c]
    BY <1>1, <1>2, <1>4, EndsDiffer
  <2>2. QED
    BY <1>3, <2>1 DEF Inherits
<1>5. CASE c = b
  <2>1. fd # fds[b][2] /\ table'[b][fd] = table[Parent][fd] /\ server'[b] = "runs"
    BY <1>1, <1>2, <1>3, <1>5
  <2>2. ASSUME NEW d \in Box, table[Parent][fd] = <<d, "client">> PROVE d < b
    <3>1. at[d] \in Open /\ fd = fds[d][2]
      <4>1. <<d, "client">> # Closed
        BY EndsDiffer
      <4>2. PICK e \in Box :
              \/ table[Parent][fd] = <<e, "client">> /\ at[e] \in Open /\ fd = fds[e][2]
              \/ table[Parent][fd] = <<e, "server">> /\ at[e] \in {"paired", "forked"} /\ fd = fds[e][1]
        BY <2>2, <4>1 DEF IInv, Needs
      <4>3. QED
        BY <2>2, <4>2, EndsDiffer
    <3>2. d # b
      BY <2>1, <3>1
    <3>3. ~(b < d)
      <4>1. at[d] # "none"
        BY <3>1 DEF Open
      <4>2. QED
        BY <1>1, <4>1 DEF IInv, OneAfterTheOther, Allocating
    <3>4. QED
      BY <3>2, <3>3 DEF Box
  <2>3. QED
    BY <1>5, <2>1, <2>2
<1>6. QED
  BY <1>4, <1>5

LEMMA EndOfFileInherits ==
  ASSUME IInv, Inherits, NEW b \in Box, EndOfFile(b)
  PROVE  Inherits'
<1>1. server' = [server EXCEPT ![b] = "ended"] /\ Close(b, Fd)
  BY DEF EndOfFile
<1>2. /\ b \in Proc /\ server \in [Box -> {"none", "runs", "ended"}]
      /\ \A q \in Proc : q # b => table'[q] = table[q]
      /\ \A fd \in Fd : table'[b][fd] = Closed
  <2>1. b \in Proc
    BY EndsDiffer
  <2>2. QED
    BY <1>1, <2>1, CloseFacts DEF IInv, Types
<1>3. \A c \in Box : c # b => table'[c] = table[c] /\ server'[c] = server[c]
  BY <1>1, <1>2, EndsDiffer
<1>4. QED
  BY <1>2, <1>3 DEF Inherits

LEMMA StepInherits == IInv /\ Inherits /\ [Next]_vars => Inherits'
<1> SUFFICES ASSUME IInv, Inherits, [Next]_vars PROVE Inherits'
  OBVIOUS
<1>1. ASSUME server' = server, \A c \in Box : table'[c] = table[c] PROVE Inherits'
  BY <1>1 DEF Inherits
<1>2. ASSUME NEW closing, Close(Parent, closing), server' = server PROVE Inherits'
  <2>1. Parent \in Proc /\ \A c \in Box : c \in Proc /\ c # Parent
    BY EndsDiffer DEF Proc
  <2>2. \A c \in Box : table'[c] = table[c]
    BY <1>2, <2>1, CloseFacts
  <2>3. QED
    BY <1>1, <1>2, <2>2
<1>3. CASE UNCHANGED vars
  BY <1>1, <1>3 DEF vars
<1>4. ASSUME NEW b \in Box,
             \/ Socketpair(b) \/ Fork(b) \/ AllocFails(b)
             \/ CloseServerEnd(b) \/ CloseAgain(b) \/ Free(b)
             \/ \E kind \in {"deferred", "immediate"} : Begin(b, kind)
             \/ \E op \in {"read", "write"}, sync \in BOOLEAN : Exec(b, op, sync)
             \/ End(b)
             \/ Serve(b) \/ Busy(b) \/ EndOfFile(b)
      PROVE  Inherits'
  <2>1. CASE Socketpair(b)
    <3>1. PICK first, second :
            table' = [table EXCEPT ![Parent][first] = <<b, "server">>, ![Parent][second] = <<b, "client">>]
      BY <2>1 DEF Socketpair
    <3>2. \A c \in Box : c \in Proc /\ c # Parent
      BY EndsDiffer
    <3>3. \A c \in Box : table'[c] = table[c]
      BY <3>1, <3>2 DEF IInv, Types
    <3>4. QED
      BY <1>1, <2>1, <3>3 DEF Socketpair
  <2>2. CASE Fork(b)
    BY <2>2, ForkInherits
  <2>3. CASE AllocFails(b) \/ CloseServerEnd(b) \/ CloseAgain(b) \/ Free(b)
    BY <1>2, <2>3 DEF AllocFails, CloseServerEnd, CloseAgain, Free
  <2>4. CASE \/ \E kind \in {"deferred", "immediate"} : Begin(b, kind)
             \/ \E op \in {"read", "write"}, sync \in BOOLEAN : Exec(b, op, sync)
             \/ End(b)
    BY <1>1, <2>4 DEF Begin, Exec, End, Write
  <2>5. CASE Serve(b) \/ Busy(b)
    BY <1>1, <2>5 DEF Serve, Busy
  <2>6. CASE EndOfFile(b)
    BY <2>6, EndOfFileInherits
  <2>7. QED
    BY <1>4, <2>1, <2>2, <2>3, <2>4, <2>5, <2>6
<1>5. QED
  BY <1>3, <1>4 DEF Next

\* What can keep a server from ending: the caller, who has its box or is still
\* allocating it, or the server of a box allocated later.
KeptByLater ==
  \A b \in Box :
    Held(<<b, "client">>) => at[b] \in Open \/ \E c \in Box : b < c /\ server[c] = "runs"

\* Servers wait for later ones only, so that they cannot wait for one another in
\* a circle: with its box freed or failed, the last that runs reads end of file.
THEOREM LaterOnesFirst == Spec => []KeptByLater
<1>1. Init => Inherits
  BY DEF Init, Inherits, Proc
<1>2. ASSUME IInv, Inherits PROVE KeptByLater
  <2> SUFFICES ASSUME NEW b \in Box, Held(<<b, "client">>)
               PROVE  at[b] \in Open \/ \E c \in Box : b < c /\ server[c] = "runs"
    BY DEF KeptByLater
  <2>1. PICK p \in Proc, fd \in Fd : table[p][fd] = <<b, "client">>
    BY DEF Held
  <2>2. <<b, "client">> # Closed
    BY EndsDiffer
  <2>3. CASE p = Parent
    <3>1. PICK e \in Box :
            \/ table[Parent][fd] = <<e, "client">> /\ at[e] \in Open /\ fd = fds[e][2]
            \/ table[Parent][fd] = <<e, "server">> /\ at[e] \in {"paired", "forked"} /\ fd = fds[e][1]
      BY <1>2, <2>1, <2>2, <2>3 DEF IInv, Needs
    <3>2. QED
      BY <2>1, <2>3, <3>1, EndsDiffer
  <2>4. CASE p \in Box
    BY <1>2, <2>1, <2>2, <2>4 DEF Inherits
  <2>5. QED
    BY <2>3, <2>4 DEF Proc
<1>3. QED
  BY <1>1, <1>2, StepInherits, Inductive, PTL DEF Spec
=============================================================================
