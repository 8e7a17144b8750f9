--------------------------- MODULE BoxStepProofs ---------------------------
(***************************************************************************)
(* Proofs about BoxStep, whatever the number of rows, of bindings and of   *)
(* requests under way.                                                     *)
(*                                                                         *)
(* The inductive invariants follow a result from SQLite to the client.     *)
(* Until a frame is torn, with memory or without, what the client has      *)
(* returned, what it holds, the replies in the socket and what the server  *)
(* has fetched ahead are in order, and SQLite is past all of them          *)
(* (KeptInv).  While the client has memory they are one unbroken run of    *)
(* numbers that ends where SQLite stands (IInv), and client, socket and    *)
(* server together implement RowStream.  A call that waits has its request *)
(* or its reply under way, until a frame is torn, and each step of the     *)
(* server brings the reply nearer.                                         *)
(***************************************************************************)
EXTENDS BoxStep, SequenceTheorems, TLAPS

-----------------------------------------------------------------------------
(* What holds with memory or without, the order as long as no frame is torn. *)

\* The pipe holds bindings younger than the one the server has, in order; a
\* reply is never empty, and who waits for one holds none.
DueInv ==
  /\ \A i \in 1..Len(c2s) : c2s[i].op = "rebind" => srun < c2s[i].run /\ c2s[i].run <= run
  /\ \A i, j \in 1..Len(c2s) :
       i < j /\ c2s[i].op = "rebind" /\ c2s[j].op = "rebind" => c2s[i].run < c2s[j].run
  /\ srun <= run
  /\ \A k \in 1..Len(s2c) : Len(s2c[k]) >= 1
  /\ call = "reading" => cset = <<>>

\* The results that can still reach the client, and the last that has: row 0 is
\* the client's, the last row the server's, and between them are the replies.
Ends == Len(s2c) + 1

Places(k) ==
  IF k = 0 THEN curset..Len(cset)
  ELSE IF k = Ends THEN 1..Len(sbuf)
  ELSE 1..Len(s2c[k])

At(k, i) ==
  IF k = 0 THEN (IF i = curset THEN out ELSE cset[i])
  ELSE IF k = Ends THEN sbuf[i]
  ELSE s2c[k][i]

Before(a, b) == a.run < b.run \/ (a.run = b.run /\ a.n < b.n)

Ahead(k, i, l, j) == k < l \/ (k = l /\ i < j)

\* However many replies are left over, they are in order, and the statement in
\* the server is past all of them.
InOrder ==
  \A k, l \in 0..Ends : \A i \in Places(k), j \in Places(l) :
    Ahead(k, i, l, j) =>
      At(k, i) = Broken \/ At(l, j) = Broken \/ Before(At(k, i), At(l, j))

Past ==
  \A k \in 0..Ends : \A i \in Places(k) :
    At(k, i).run < srun \/ (At(k, i).run = srun /\ At(k, i).n <= pos)

\* What the server has fetched ahead ends where SQLite stands.
BufferInv ==
  /\ sdone <=> ended
  /\ pos = 0 => ~ended
  /\ pos > MaxRows => ended
  /\ execs = IF pos = 0 THEN 0 ELSE 1
  /\ sbuf # <<>> => (sbuf[Len(sbuf)].last <=> ended) /\ multi
  /\ \A i \in 1..Len(sbuf) :
       /\ sbuf[i].run = srun
       /\ sbuf[i].n + Len(sbuf) = pos + i
       /\ sbuf[i].last => i = Len(sbuf)

KeptInv == TypeOK /\ BufferInv /\ DueInv /\ (~torn => InOrder /\ Past)

-----------------------------------------------------------------------------
(* What holds as long as the client finds memory. *)

\* A step waits in the pipe; it can only be the last request there.
StepSent == c2s # <<>> /\ c2s[Len(c2s)].op = "step"

\* The pipe holds the rebinds the server has yet to see, in order, and then
\* perhaps a step.
PipeInv ==
  /\ \A i \in 1..Len(c2s) : c2s[i].op = "rebind" => c2s[i].run = srun + i
  /\ \A i \in 1..Len(c2s) : c2s[i].op = "step" => i = Len(c2s)
  /\ up => run = srun + (IF StepSent THEN Len(c2s) - 1 ELSE Len(c2s))
  /\ srun <= run
  /\ ~up => c2s = <<>>

\* Who waits for what.
CallInv ==
  /\ call = "idle" => s2c = <<>> /\ ~StepSent
  /\ call = "reading" => cset = <<>>
  /\ call = "reading" /\ up /\ s2c = <<>> => StepSent
  /\ Len(s2c) <= 1
  /\ s2c # <<>> => c2s = <<>> /\ srun = run
  /\ failed => ~up /\ cset = <<>> /\ call = "idle"

\* What the client holds continues what it returned last.
HeldInv ==
  /\ out.run <= run
  /\ cset # <<>> => curset >= 1 /\ cset[curset] = out /\ srun = run
  /\ \A i \in 1..Len(cset) :
       /\ cset[i].run = run
       /\ cset[i].n + curset = out.n + i
       /\ cset[i].last => i = Len(cset)
  /\ srun < run => out.run < run

\* The reply in the socket lies between what was returned and what is fetched.
ReplyInv ==
  s2c # <<>> =>
    LET f == s2c[1] IN
    /\ f # <<>>
    /\ \A i \in 1..Len(f) :
         /\ f[i].run = run
         /\ f[i].n = RS!Given + i
         /\ f[i].last => i = Len(f)
    /\ RS!Given + Len(f) + Len(sbuf) = pos
    /\ ~RS!Ended
    /\ f[Len(f)].last <=> ended /\ sbuf = <<>>

\* The end of what the client has received.
FrontN == IF cset = <<>> THEN RS!Given ELSE cset[Len(cset)].n
FrontLast == IF cset = <<>> THEN RS!Ended ELSE cset[Len(cset)].last

\* With nothing in the socket the server's buffer follows on the client's.
FrontInv ==
  s2c = <<>> /\ srun = run =>
    /\ FrontN + Len(sbuf) = pos
    /\ FrontLast <=> ended /\ sbuf = <<>>

IInv == TypeOK /\ ~torn /\ PipeInv /\ CallInv /\ HeldInv /\ BufferInv /\ ReplyInv /\ FrontInv

-----------------------------------------------------------------------------
(* Types: the flags, and the rest, which the provers treat apart. *)

FlagsOK ==
  /\ failed \in BOOLEAN /\ up \in BOOLEAN /\ sdone \in BOOLEAN
  /\ multi \in BOOLEAN /\ ended \in BOOLEAN /\ torn \in BOOLEAN
  /\ pc \in {"recv", "fetch"}
  /\ pc = "fetch" => ~sdone /\ multi

DataOK ==
  /\ run \in 1..MaxRuns /\ out \in Results
  /\ call \in {"idle", "reading"}
  /\ cset \in Seq(Results) /\ curset \in 0..Len(cset)
  /\ c2s \in Seq(Requests)
  /\ s2c \in Seq(Seq(Results))
  /\ sbuf \in Seq(Results)
  /\ srun \in 1..MaxRuns /\ pos \in 0..(MaxRows + 1)
  /\ execs \in Nat

LEMMA TypeParts == TypeOK <=> FlagsOK /\ DataOK
BY Zenon DEF TypeOK, FlagsOK, DataOK

\* The numbers of a result.
LEMMA ResultFields ==
  ASSUME NEW r \in Results
  PROVE  r.run \in Nat /\ r.n \in Nat /\ r.last \in BOOLEAN
<1>1. r.run \in Nat /\ r.n \in Nat
  BY BoundsAssumption DEF Results
<1>2. QED
  BY <1>1 DEF Results

LEMMA ResultIs ==
  ASSUME NEW r \in Results, NEW g, NEW n, r.run = g, r.n = n
  PROVE  r = RS!Result(g, n, TRUE) \/ r = RS!Result(g, n, FALSE)
<1>1. r = [run |-> r.run, n |-> r.n, last |-> r.last] /\ r.last \in BOOLEAN
  BY DEF Results
<1>2. QED
  BY <1>1, Zenon DEF RS!Result

LEMMA InitIInv == Init => IInv
<1> SUFFICES ASSUME Init PROVE IInv
  OBVIOUS
<1>1. FlagsOK
  BY Zenon DEF FlagsOK, Init, RS!Init
<1>2. DataOK
  BY BoundsAssumption DEF DataOK, Results, Init, RS!Init, RS!NoResult, RS!Result
<1> USE DEF Init, RS!Init, RS!NoResult, RS!Result
<1>3. PipeInv /\ CallInv
  BY DEF PipeInv, CallInv, StepSent
<1>4. HeldInv
  BY DEF HeldInv
<1>5. BufferInv
  <2>1. ~sdone /\ ~ended
    BY Zenon
  <2>2. pos = 0 /\ execs = 0 /\ sbuf = <<>> /\ MaxRows \in Nat
    BY BoundsAssumption
  <2>3. QED
    BY <2>1, <2>2 DEF BufferInv
<1>6. ReplyInv
  BY DEF ReplyInv
<1>7. FrontInv
  BY DEF FrontInv, FrontN, FrontLast, RS!Given, RS!Ended
<1>8. QED
  BY <1>1, <1>2, <1>3, <1>4, <1>5, <1>6, <1>7, TypeParts DEF IInv

\* What a call does that fails for want of memory or reads behind a torn frame.
LEMMA NoMemory ==
  ASSUME StepNoMemory \/ StepGarbled
  PROVE  /\ call = "reading" /\ UNCHANGED <<run, c2s, servervars, sqlvars>>
         /\ failed' = failed \/ failed' = TRUE
         /\ torn' = torn \/ torn' = TRUE
         /\ StepNoMemory => ~ClientMemory /\ call' = "idle" /\ UNCHANGED out
         /\ StepGarbled => torn /\ torn' /\ s2c # <<>>
<1>1. CASE StepNoMemory
  <2>1. Fails /\ (torn' = torn \/ torn' = TRUE)
    BY <1>1, Zenon DEF StepNoMemory, StepNoBuffer, StepTear, StepNoResults
  <2>2. CASE ~StepGarbled
    BY <1>1, <2>1, <2>2, Zenon DEF Fails
  <2>3. CASE StepGarbled
    BY <1>1, <2>1, <2>3, Zenon DEF Fails, StepGarbled
  <2>4. QED
    BY <2>2, <2>3
<1>2. CASE ~StepNoMemory
  <2>1. /\ call = "reading" /\ torn /\ s2c # <<>>
        /\ UNCHANGED <<run, torn, c2s, servervars, sqlvars>>
        /\ failed' = failed \/ failed' = TRUE
    BY <1>2, Zenon DEF StepGarbled
  <2>2. QED
    BY <1>2, <2>1, Zenon
<1>3. QED
  BY <1>1, <1>2

\* A torn frame stays one.
LEMMA StaysTorn ==
  ASSUME [Next]_vars, torn
  PROVE  torn'
<1>1. CASE StepCached \/ StepSend \/ StepRead \/ StepHangup \/ Rebind
  BY <1>1, Zenon DEF StepCached, StepSend, StepRead, StepHangup, Rebind
<1>2. CASE StepNoMemory \/ StepGarbled
  BY <1>2, NoMemory, Zenon
<1>3. CASE Server \/ Die \/ UNCHANGED vars
  BY <1>3, Zenon DEF Server, OpStepBuffered, OpStepSingle, Fetch, OpRebind, OpStepPastEnd,
                     Die, Shutdown, vars, clientvars
<1>4. QED
  BY <1>1, <1>2, <1>3, Zenon DEF Next, Client

\* While the client finds memory no frame is torn.
LEMMA NeverTorn ==
  ASSUME ClientMemory, [Next]_vars, ~torn
  PROVE  ~torn'
<1>1. CASE StepCached \/ StepSend \/ StepRead \/ StepHangup \/ Rebind
  BY <1>1, Zenon DEF StepCached, StepSend, StepRead, StepHangup, Rebind
<1>2. CASE StepNoMemory \/ StepGarbled
  BY <1>2, NoMemory, Zenon
<1>3. CASE Server \/ Die \/ UNCHANGED vars
  BY <1>3, Zenon DEF Server, OpStepBuffered, OpStepSingle, Fetch, OpRebind, OpStepPastEnd,
                     Die, Shutdown, vars, clientvars
<1>4. QED
  BY <1>1, <1>2, <1>3, Zenon DEF Next, Client

\* What sqlite3_step returns has the type of a result.
LEMMA SqlStepType ==
  ASSUME TypeOK, BufferInv, NEW last \in BOOLEAN, SqlStep(last)
  PROVE  /\ pos' \in 0..(MaxRows + 1)
         /\ ended' \in BOOLEAN
         /\ execs' \in Nat
         /\ srun' \in 1..MaxRuns
         /\ Stepped \in Results
<1>1. pos \in Nat /\ MaxRows \in Nat /\ (~ended => pos <= MaxRows)
  BY BoundsAssumption, TypeParts DEF DataOK, BufferInv
<1>2. pos' \in 0..(MaxRows + 1)
  BY <1>1 DEF SqlStep
<1>3. ended' \in BOOLEAN
  BY Zenon DEF SqlStep
<1>4. execs' \in Nat /\ srun' \in 1..MaxRuns
  BY TypeParts DEF SqlStep, DataOK
<1>5. srun' \in 0..MaxRuns
  BY <1>4, BoundsAssumption
<1>6. QED
  BY <1>2, <1>3, <1>4, <1>5 DEF Stepped, Results

LEMMA FlagsStep ==
  ASSUME TypeOK, BufferInv, Next
  PROVE  FlagsOK'
<1> FlagsOK
  BY TypeParts
<1> USE DEF FlagsOK
<1>1. CASE StepCached \/ StepRead \/ Rebind
  <2>1. UNCHANGED <<failed, torn, servervars, sqlvars>>
    BY <1>1, Zenon DEF StepCached, StepRead, Rebind
  <2>2. QED
    BY <2>1, Zenon DEF servervars, sqlvars
<1>2. CASE StepSend \/ StepHangup \/ StepNoMemory \/ StepGarbled
  <2>1. /\ failed' = failed \/ failed' = TRUE
        /\ torn' = torn \/ torn' = TRUE
        /\ UNCHANGED <<servervars, sqlvars>>
    BY <1>2, NoMemory, Zenon DEF StepSend, StepHangup
  <2>2. failed' \in BOOLEAN /\ torn' \in BOOLEAN
    BY <2>1, Zenon
  <2>3. QED
    BY <2>1, <2>2, Zenon DEF servervars, sqlvars
<1>3. CASE OpStepBuffered
  BY <1>3, Zenon DEF OpStepBuffered, BufferInv, clientvars, sqlvars
<1>4. CASE OpStepSingle \/ Fetch
  BY <1>4, Zenon DEF OpStepSingle, Fetch, SqlStep, clientvars
<1>5. CASE OpRebind
  BY <1>5, Zenon DEF OpRebind, Requested, clientvars
<1>6. CASE OpStepPastEnd \/ Die
  <2>1. up' = FALSE /\ UNCHANGED <<failed, torn, pc, sdone, multi, ended>>
    BY <1>6, Zenon DEF OpStepPastEnd, Die, Shutdown, clientvars, sqlvars
  <2>2. QED
    BY <2>1, Zenon
<1>7. QED
  BY <1>1, <1>2, <1>3, <1>4, <1>5, <1>6 DEF Next, Client, Server

LEMMA TailIs ==
  ASSUME NEW S, NEW s \in Seq(S), s # <<>>
  PROVE  /\ Len(s) \in Nat /\ Len(s) >= 1 /\ Len(Tail(s)) = Len(s) - 1
         /\ \A i \in 1..Len(Tail(s)) : i + 1 \in 1..Len(s) /\ Tail(s)[i] = s[i + 1]
<1>1. Len(s) \in Nat /\ Len(s) >= 1
  BY LenProperties, EmptySeq
<1>2. Len(Tail(s)) = Len(s) - 1 /\ \A i \in 1..Len(Tail(s)) : Tail(s)[i] = s[i + 1]
  BY HeadTailProperties
<1>3. \A i \in 1..Len(s) - 1 : i + 1 \in 1..Len(s)
  BY ONLY <1>1
<1>4. QED
  BY <1>1, <1>2, <1>3

\* The binding the server takes up is a later one.
LEMMA RebindLater ==
  ASSUME TypeOK, DueInv, Requested("rebind")
  PROVE  /\ Head(c2s).run \in 1..MaxRuns
         /\ srun < Head(c2s).run /\ Head(c2s).run <= run
<1>1. c2s # <<>> /\ Head(c2s).op = "rebind"
  BY Zenon DEF Requested
<1>2. c2s \in Seq(Requests) /\ srun \in 1..MaxRuns /\ run \in 1..MaxRuns
  BY TypeParts DEF DataOK
<1>3. Head(c2s) = c2s[1] /\ 1 \in 1..Len(c2s)
  <2>1. Len(c2s) \in Nat /\ Len(c2s) >= 1
    BY <1>1, <1>2, LenProperties, EmptySeq
  <2>2. QED
    BY <1>1, <1>2, <2>1
<1>4. c2s[1] \in Requests
  BY <1>2, <1>3, ElementOfSeq
<1>5. c2s[1].run \in 0..MaxRuns
  BY <1>4 DEF Requests
<1>6. srun < c2s[1].run /\ c2s[1].run <= run
  BY <1>1, <1>3 DEF DueInv
<1>7. QED
  BY <1>2, <1>3, <1>5, <1>6, BoundsAssumption

\* What is left of a row for which there was no memory.
LEMMA BrokenIs == Broken \in Results /\ Broken.run = 0
<1>1. 0 \in 0..MaxRuns /\ 1 \in 0..(MaxRows + 1)
  BY BoundsAssumption
<1>2. QED
  BY <1>1 DEF Broken, Results

LEMMA DataStep ==
  ASSUME TypeOK, DueInv, BufferInv, Next
  PROVE  DataOK'
<1> DataOK
  BY TypeParts
<1>1. CASE StepCached
  BY <1>1 DEF DataOK, StepCached, servervars, sqlvars
<1>2. CASE StepSend
  <2>1. /\ cset' = <<>> /\ curset' = 0
        /\ call' \in {call, "reading"}
        /\ c2s' = c2s \/ c2s' = Append(c2s, StepRequest)
        /\ UNCHANGED <<run, out, s2c, sbuf, srun, pos, execs>>
    BY <1>2, Zenon DEF StepSend, servervars, sqlvars
  <2>2. StepRequest \in Requests
    BY BoundsAssumption DEF StepRequest, Requests
  <2>3. c2s' \in Seq(Requests)
    <3>1. c2s \in Seq(Requests)
      BY Zenon DEF DataOK
    <3>2. Append(c2s, StepRequest) \in Seq(Requests)
      BY <2>2, <3>1, AppendProperties
    <3>3. QED
      BY <2>1, <3>1, <3>2, Zenon
  <2>4. QED
    BY <2>1, <2>3 DEF DataOK
<1>3. CASE StepRead
  <2>1. s2c \in Seq(Seq(Results)) /\ s2c # <<>> /\ s2c[1] # <<>>
    <3>1. s2c \in Seq(Seq(Results)) /\ s2c # <<>>
      BY <1>3, Zenon DEF DataOK, StepRead
    <3>2. 1 \in 1..Len(s2c)
      BY <3>1, TailIs
    <3>3. Len(s2c[1]) >= 1
      BY <3>2 DEF DueInv
    <3>4. QED
      BY <3>1, <3>3
  <2>2. Head(s2c) \in Seq(Results) /\ Head(s2c) # <<>> /\ Tail(s2c) \in Seq(Seq(Results))
    BY <2>1
  <2>3. Head(Head(s2c)) \in Results /\ Len(Head(s2c)) \in Nat /\ Len(Head(s2c)) >= 1
    BY <2>2
  <2>4. QED
    BY <1>3, <2>2, <2>3 DEF DataOK, StepRead, servervars, sqlvars
<1>4. CASE StepHangup
  BY <1>4 DEF DataOK, StepHangup, servervars, sqlvars
<1>5. CASE StepNoMemory \/ StepGarbled
  <2>1. UNCHANGED <<run, c2s, sbuf, srun, pos, execs>>
    BY <1>5, NoMemory, Zenon DEF servervars, sqlvars
  <2>2. CASE StepNoBuffer \/ StepTear
    <3>1. call' = "idle" /\ UNCHANGED <<out, cset, curset, s2c>>
      BY <2>2, Zenon DEF StepNoBuffer, StepTear, Fails
    <3>2. QED
      BY <2>1, <3>1 DEF DataOK
  <2>3. CASE StepNoResults
    <3>1. /\ call' = "idle" /\ s2c # <<>> /\ s2c' = Tail(s2c) /\ curset' = 0 /\ UNCHANGED out
      BY <2>3, Zenon DEF StepNoResults, Fails
    <3>2. PICK k \in 0..(Len(Head(s2c)) - 1) :
            LET kept == SubSeq(Head(s2c), 1, k)
            IN cset' = kept \/ cset' = Append(kept, Broken)
      BY <2>3 DEF StepNoResults
    <3>3. Head(s2c) \in Seq(Results) /\ s2c' \in Seq(Seq(Results))
      BY <3>1, HeadTailProperties DEF DataOK
    <3>4. SubSeq(Head(s2c), 1, k) \in Seq(Results)
      BY <3>2, <3>3
    <3>5. Append(SubSeq(Head(s2c), 1, k), Broken) \in Seq(Results)
      BY <3>4, BrokenIs, AppendProperties
    <3>6. cset' \in Seq(Results)
      BY <3>2, <3>4, <3>5
    <3>7. Len(cset') \in Nat
      BY <3>6, LenProperties
    <3>8. QED
      BY <2>1, <3>1, <3>3, <3>6, <3>7 DEF DataOK
  <2>4. CASE StepGarbled
    <3>1. PICK k \in 0..Len(s2c) : s2c' = SubSeq(s2c, k + 1, Len(s2c))
      BY <2>4 DEF StepGarbled
    <3>2. s2c' \in Seq(Seq(Results))
      <4>1. s2c \in Seq(Seq(Results))
        BY DEF DataOK
      <4>2. QED
        BY <3>1, <4>1
    <3>3. CASE UNCHANGED <<out, call, cset, curset>>
      BY <2>1, <3>2, <3>3 DEF DataOK
    <3>4. CASE ~UNCHANGED <<out, call, cset, curset>>
      <4>1. PICK r \in Results :
              /\ call' = "idle"
              /\ \/ cset' \in {<<>>, <<r>>} /\ UNCHANGED <<out, curset>>
                 \/ out' = r /\ cset' = <<r>> /\ curset' = 1
        BY <2>4, <3>4, Zenon DEF StepGarbled
      <4>2. <<r>> \in Seq(Results) /\ Len(<<r>>) = 1 /\ <<>> \in Seq(Results)
        OBVIOUS
      <4>3. curset = 0
        <5>1. call = "reading" /\ cset = <<>>
          BY <2>4, NoMemory, Zenon DEF DueInv
        <5>2. QED
          BY <5>1 DEF DataOK
      <4>4. out' \in Results /\ cset' \in Seq(Results)
        BY <4>1, <4>2 DEF DataOK
      <4>5. curset' \in 0..Len(cset')
        <5>1. Len(cset') \in Nat
          BY <4>4, LenProperties
        <5>2. curset' = 0 \/ (curset' = 1 /\ Len(cset') = 1)
          BY <4>1, <4>2, <4>3
        <5>3. QED
          BY <5>1, <5>2
      <4>6. QED
        BY <2>1, <3>2, <4>1, <4>4, <4>5 DEF DataOK
    <3>5. QED
      BY <3>3, <3>4
  <2>5. QED
    BY <1>5, <2>2, <2>3, <2>4 DEF StepNoMemory
<1>6. CASE Rebind
  <2>1. /\ run < MaxRuns /\ run' = run + 1
        /\ cset' = <<>> /\ curset' = 0
        /\ c2s' = Append(c2s, RebindRequest(run'))
        /\ UNCHANGED <<call, out, s2c, sbuf, srun, pos, execs>>
    BY <1>6, Zenon DEF Rebind, servervars, sqlvars
  <2>2. run' \in 1..MaxRuns /\ run' \in 0..MaxRuns
    BY <2>1, BoundsAssumption DEF DataOK
  <2>3. RebindRequest(run') \in Requests
    BY <2>2 DEF RebindRequest, Requests
  <2>4. c2s' \in Seq(Requests)
    BY <2>1, <2>3, AppendProperties DEF DataOK
  <2>5. QED
    BY <2>1, <2>2, <2>4 DEF DataOK
<1>7. CASE OpStepBuffered
  BY <1>7 DEF DataOK, OpStepBuffered, Requested, Receive, clientvars, sqlvars
<1>8. CASE OpStepSingle
  <2>1. PICK last \in BOOLEAN : SqlStep(last)
    BY <1>8 DEF OpStepSingle
  <2>2. QED
    BY <1>8, <2>1, SqlStepType DEF DataOK, OpStepSingle, Requested, Receive, clientvars
<1>9. CASE Fetch
  <2>1. PICK last \in BOOLEAN : SqlStep(last)
    BY <1>9 DEF Fetch
  <2>2. QED
    BY <1>9, <2>1, SqlStepType DEF DataOK, Fetch, clientvars
<1>10. CASE OpRebind
  <2>1. /\ c2s # <<>> /\ c2s' = Tail(c2s) /\ Head(c2s).op = "rebind"
        /\ srun' = Head(c2s).run /\ pos' = 0 /\ execs' = 0 /\ sbuf' = <<>>
        /\ UNCHANGED <<run, out, call, cset, curset, s2c>>
    BY <1>10, Zenon DEF OpRebind, Requested, Receive, clientvars
  <2>2. Head(c2s).run \in 1..MaxRuns
    BY <1>10, RebindLater DEF OpRebind
  <2>3. QED
    BY <2>1, <2>2, BoundsAssumption DEF DataOK
<1>11. CASE OpStepPastEnd \/ Die
  <2>1. /\ c2s' = <<>>
        /\ UNCHANGED <<run, out, call, cset, curset, s2c, sbuf, srun, pos, execs>>
    BY <1>11, Zenon DEF OpStepPastEnd, Die, Shutdown, clientvars, sqlvars
  <2>2. QED
    BY <2>1 DEF DataOK
<1>12. QED
  BY <1>1, <1>2, <1>3, <1>4, <1>5, <1>6, <1>7, <1>8, <1>9, <1>10, <1>11 DEF Next, Client, Server

-----------------------------------------------------------------------------
(* The requests under way. *)

\* A step is answered when it is alone in the pipe.
LEMMA StepAlone ==
  ASSUME TypeOK, PipeInv, Requested("step")
  PROVE  Len(c2s) = 1 /\ StepSent /\ up /\ srun = run /\ Tail(c2s) = <<>>
<1>0. up
  BY Zenon DEF Requested
<1>1. c2s # <<>> /\ Head(c2s).op = "step"
  BY Zenon DEF Requested
<1>2. c2s \in Seq(Requests) /\ srun \in Nat /\ run \in Nat
  BY BoundsAssumption, TypeParts DEF DataOK
<1>3. Head(c2s) = c2s[1] /\ Len(c2s) \in Nat /\ Len(c2s) >= 1
  BY <1>1, <1>2
<1>4. Len(c2s) = 1
  <2>1. \A i \in 1..Len(c2s) : c2s[i].op = "step" => i = Len(c2s)
    BY Zenon DEF PipeInv
  <2>2. 1 \in 1..Len(c2s)
    BY <1>3
  <2>3. QED
    BY <1>1, <1>3, <2>1, <2>2, Zenon
<1>5. StepSent
  BY <1>1, <1>3, <1>4 DEF StepSent
<1>6. run = srun + (IF StepSent THEN Len(c2s) - 1 ELSE Len(c2s))
  BY <1>0, Zenon DEF PipeInv
<1>7. srun = run
  BY <1>2, <1>4, <1>5, <1>6
<1>8. Tail(c2s) = <<>>
  <2>1. Tail(c2s) \in Seq(Requests) /\ Len(Tail(c2s)) = 0
    BY <1>1, <1>2, <1>4, HeadTailProperties
  <2>2. QED
    BY <2>1, EmptySeq
<1>9. QED
  BY <1>0, <1>4, <1>5, <1>7, <1>8

\* The binding the server takes up is the next one.
LEMMA RebindNext ==
  ASSUME TypeOK, PipeInv, Requested("rebind")
  PROVE  Head(c2s).run = srun + 1 /\ srun + 1 <= run
<1>1. c2s # <<>> /\ Head(c2s).op = "rebind" /\ up
  BY Zenon DEF Requested
<1>2. c2s \in Seq(Requests) /\ srun \in Nat /\ run \in Nat
  BY BoundsAssumption, TypeParts DEF DataOK
<1>3. Head(c2s) = c2s[1] /\ Len(c2s) \in Nat /\ Len(c2s) >= 1
  BY <1>1, <1>2
<1>4. c2s[1].run = srun + 1
  BY <1>1, <1>3 DEF PipeInv
<1>5. StepSent => Len(c2s) > 1
  BY <1>1, <1>3 DEF StepSent
<1>6. run = srun + (IF StepSent THEN Len(c2s) - 1 ELSE Len(c2s))
  BY <1>1, Zenon DEF PipeInv
<1>7. QED
  BY <1>2, <1>3, <1>4, <1>5, <1>6

\* The last member of a sequence is the last of its tail, if there is one.
LEMMA LastOfTail ==
  ASSUME NEW S, NEW s \in Seq(S), s # <<>>
  PROVE  /\ Tail(s) = <<>> => Len(s) = 1
         /\ Tail(s) # <<>> => Tail(s)[Len(Tail(s))] = s[Len(s)]
<1> DEFINE t == Tail(s)
<1>1. /\ t \in Seq(S) /\ Len(t) = Len(s) - 1 /\ Len(s) \in Nat
      /\ \A i \in 1..Len(t) : t[i] = s[i + 1]
  BY HeadTailProperties, LenProperties
<1> HIDE DEF t
<1>2. t = <<>> => Len(s) = 1
  BY <1>1
<1>3. ASSUME t # <<>> PROVE t[Len(t)] = s[Len(s)]
  <2>1. Len(t) \in 1..Len(t) /\ Len(t) + 1 = Len(s)
    BY <1>1, <1>3
  <2>2. QED
    BY <1>1, <2>1
<1>4. QED
  BY <1>2, <1>3 DEF t

LEMMA RebindKeepsStep ==
  ASSUME TypeOK, Requested("rebind"), c2s' = Tail(c2s)
  PROVE  StepSent' <=> StepSent
<1>1. c2s # <<>> /\ Head(c2s).op # "step" /\ c2s \in Seq(Requests) /\ Head(c2s) = c2s[1]
  BY TypeParts DEF Requested, DataOK
<1>2. /\ c2s' = <<>> => Len(c2s) = 1
      /\ c2s' # <<>> => c2s'[Len(c2s')] = c2s[Len(c2s)]
  BY <1>1, LastOfTail
<1>3. QED
  BY <1>1, <1>2, Zenon DEF StepSent

LEMMA PipeStep ==
  ASSUME TypeOK, PipeInv, CallInv, Next
  PROVE  PipeInv'
<1>1. /\ c2s \in Seq(Requests)
      /\ srun \in Nat /\ run \in Nat /\ Len(c2s) \in Nat
  BY BoundsAssumption, TypeParts DEF DataOK
<1>2. ASSUME UNCHANGED <<c2s, srun, run, up>> PROVE PipeInv'
  BY <1>2 DEF PipeInv, StepSent
<1>3. CASE StepCached \/ StepRead \/ StepHangup \/ StepNoMemory \/ StepGarbled
  <2>1. UNCHANGED <<c2s, srun, run, up>>
    BY <1>3, NoMemory, Zenon DEF StepCached, StepRead, StepHangup, servervars, sqlvars
  <2>2. QED
    BY <1>2, <2>1
<1>4. CASE StepSend
  <2>1. UNCHANGED <<srun, run, up>> /\ ~StepSent
    BY <1>4, Zenon DEF StepSend, servervars, sqlvars, CallInv
  <2>2. CASE ~up
    <3>1. UNCHANGED c2s
      BY <1>4, <2>2, Zenon DEF StepSend
    <3>2. QED
      BY <1>2, <2>1, <3>1
  <2>3. CASE up
    <3>1. c2s' = Append(c2s, StepRequest)
      BY <1>4, <2>3, Zenon DEF StepSend
    <3>2. /\ Len(c2s') = Len(c2s) + 1 /\ c2s' # <<>>
          /\ c2s'[Len(c2s')].op = "step"
          /\ \A i \in 1..Len(c2s) : c2s'[i] = c2s[i] /\ c2s[i].op # "step"
      BY <1>1, <2>1, <3>1 DEF StepRequest, PipeInv, StepSent
    <3>3. StepSent' /\ up'
      BY <2>1, <2>3, <3>2, Zenon DEF StepSent
    <3>4. run = srun + Len(c2s)
      BY <2>1, <2>3 DEF PipeInv
    <3>5. QED
      BY <1>1, <2>1, <3>2, <3>3, <3>4 DEF PipeInv
  <2>4. QED
    BY <2>2, <2>3
<1>5. CASE Rebind
  <2>1. /\ up /\ up' = up /\ ~StepSent /\ run' = run + 1 /\ srun' = srun
        /\ c2s' = Append(c2s, RebindRequest(run'))
    BY <1>5, Zenon DEF Rebind, CallInv, servervars, sqlvars
  <2>2. run = srun + Len(c2s)
    BY <2>1 DEF PipeInv
  <2>3. /\ Len(c2s') = Len(c2s) + 1 /\ c2s' # <<>>
        /\ c2s'[Len(c2s')].op = "rebind" /\ c2s'[Len(c2s')].run = run + 1
        /\ \A i \in 1..Len(c2s) : c2s'[i] = c2s[i] /\ c2s[i].op # "step"
    BY <1>1, <2>1 DEF RebindRequest, PipeInv, StepSent
  <2>4. ~StepSent' /\ up'
    BY <2>1, <2>3, Zenon DEF StepSent
  <2>5. QED
    BY <1>1, <2>1, <2>2, <2>3, <2>4 DEF PipeInv
<1>6. CASE OpStepBuffered \/ OpStepSingle
  <2>1. Requested("step") /\ c2s' = Tail(c2s) /\ UNCHANGED <<srun, run, up>>
    BY <1>6, Zenon DEF OpStepBuffered, OpStepSingle, Receive, SqlStep, clientvars, sqlvars
  <2>2. c2s' = <<>> /\ srun' = run' /\ Len(c2s') = 0
    BY <2>1, StepAlone
  <2>3. ~StepSent'
    BY <2>2 DEF StepSent
  <2>4. QED
    BY <1>1, <2>1, <2>2, <2>3 DEF PipeInv
<1>7. CASE Fetch
  <2>1. UNCHANGED <<c2s, srun, run, up>>
    BY <1>7, Zenon DEF Fetch, SqlStep, clientvars
  <2>2. QED
    BY <1>2, <2>1
<1>8. CASE OpRebind
  <2>1. /\ Requested("rebind") /\ c2s # <<>> /\ c2s' = Tail(c2s) /\ up
        /\ srun' = Head(c2s).run /\ UNCHANGED <<run, up>>
    BY <1>8, Zenon DEF OpRebind, Requested, Receive, clientvars
  <2>0. c2s # <<>> /\ c2s' = Tail(c2s)
    BY <2>1, Zenon
  <2>2. srun' = srun + 1 /\ srun' <= run
    BY <2>1, RebindNext
  <2>3. /\ Len(c2s') = Len(c2s) - 1
        /\ \A i \in 1..Len(c2s') : i + 1 \in 1..Len(c2s) /\ c2s'[i] = c2s[i + 1]
    BY <1>1, <2>1
  <2>4. Head(c2s).op # "step" /\ Head(c2s) = c2s[1]
    BY <1>1, <2>1 DEF Requested
  <2>5. StepSent' <=> StepSent
    BY <2>1, RebindKeepsStep
  <2>6. run = srun + (IF StepSent THEN Len(c2s) - 1 ELSE Len(c2s))
    BY <2>1, Zenon DEF PipeInv
  <2>7. up'
    BY <2>1, Zenon
  <2>8. run' = srun' + (IF StepSent' THEN Len(c2s') - 1 ELSE Len(c2s'))
    BY <1>1, <2>1, <2>2, <2>3, <2>5, <2>6
  <2>9. \A i \in 1..Len(c2s') : c2s'[i].op = "rebind" => c2s'[i].run = srun' + i
    <3>1. ASSUME NEW i \in 1..Len(c2s'), c2s'[i].op = "rebind"
          PROVE  c2s'[i].run = srun' + i
      <4>1. i + 1 \in 1..Len(c2s) /\ c2s'[i] = c2s[i + 1]
        BY <2>3
      <4>2. c2s[i + 1].run = srun + (i + 1)
        BY <3>1, <4>1, Zenon DEF PipeInv
      <4>3. i \in Nat
        BY ONLY <3>1
      <4>4. srun + (i + 1) = (srun + 1) + i
        BY ONLY <1>1, <4>3
      <4>5. QED
        BY <2>2, <4>1, <4>2, <4>4, Zenon
    <3>2. QED
      BY <3>1, Zenon
  <2>10. \A i \in 1..Len(c2s') : c2s'[i].op = "step" => i = Len(c2s')
    BY <1>1, <2>2, <2>3 DEF PipeInv
  <2>11. srun' <= run'
    BY <2>1, <2>2
  <2>12. QED
    BY <2>7, <2>8, <2>9, <2>10, <2>11, Zenon DEF PipeInv
<1>9. CASE OpStepPastEnd \/ Die
  <2>1. c2s' = <<>> /\ up' = FALSE /\ UNCHANGED <<srun, run>>
    BY <1>9, Zenon DEF OpStepPastEnd, Die, Shutdown, clientvars, sqlvars
  <2>2. Len(c2s') = 0 /\ ~up'
    BY <2>1
  <2>3. QED
    BY <2>1, <2>2 DEF PipeInv
<1>10. QED
  BY <1>3, <1>4, <1>5, <1>6, <1>7, <1>8, <1>9 DEF Next, Client, Server

-----------------------------------------------------------------------------
(* Who waits for what. *)

LEMMA CallStep ==
  ASSUME TypeOK, PipeInv, CallInv, Next, ClientMemory, ~torn
  PROVE  CallInv'
<1>1. c2s \in Seq(Requests) /\ s2c \in Seq(Seq(Results))
  BY TypeParts DEF DataOK
<1>2. call \in {"idle", "reading"} /\ "idle" # "reading"
  BY TypeParts DEF DataOK
<1>3. CASE StepCached
  <2>1. call = "idle" /\ UNCHANGED <<call, cset, c2s, s2c, srun, run, up, failed>>
    BY <1>3, Zenon DEF StepCached, servervars, sqlvars
  <2>2. QED
    BY <2>1, Zenon DEF CallInv, StepSent
<1>4. CASE StepSend
  <2>1. /\ call = "idle" /\ cset' = <<>> /\ s2c = <<>>
        /\ UNCHANGED <<s2c, srun, run, up>>
    BY <1>4, Zenon DEF StepSend, servervars, sqlvars, CallInv
  <2>2. Len(s2c) = 0
    BY <2>1
  <2>3. Len(s2c') <= 1
    BY <2>1, <2>2
  <2>4. CASE ~up
    BY <1>2, <1>4, <2>1, <2>3, <2>4, Zenon DEF StepSend, CallInv, StepSent
  <2>5. CASE up
    <3>1. call' = "reading" /\ c2s' = Append(c2s, StepRequest) /\ UNCHANGED failed
      BY <1>4, <2>5, Zenon DEF StepSend
    <3>2. c2s' # <<>> /\ c2s'[Len(c2s')].op = "step"
      BY <1>1, <3>1 DEF StepRequest
    <3>3. StepSent'
      BY <3>2, Zenon DEF StepSent
    <3>4. QED
      BY <1>2, <2>1, <2>3, <2>5, <3>1, <3>3, Zenon DEF CallInv
  <2>6. QED
    BY <2>4, <2>5
<1>5. CASE StepRead
  <2>1. /\ call = "reading" /\ call' = "idle" /\ s2c # <<>> /\ s2c' = Tail(s2c)
        /\ UNCHANGED <<c2s, srun, run, up, failed>>
    BY <1>5, Zenon DEF StepRead, servervars, sqlvars
  <2>2. c2s = <<>> /\ Len(s2c) <= 1 /\ ~failed
    BY <1>2, <2>1, Zenon DEF CallInv
  <2>3. s2c' = <<>> /\ Len(s2c') <= 1
    BY <1>1, <2>1, <2>2, EmptySeq, HeadTailProperties
  <2>4. QED
    BY <1>2, <2>1, <2>2, <2>3, Zenon DEF CallInv, StepSent
<1>6. CASE StepHangup
  <2>1. /\ call = "reading" /\ call' = "idle" /\ s2c = <<>> /\ ~up
        /\ UNCHANGED <<cset, c2s, s2c, srun, run, up>>
    BY <1>6, Zenon DEF StepHangup, servervars, sqlvars
  <2>2. c2s = <<>> /\ cset = <<>> /\ Len(s2c) <= 1
    BY <2>1, Zenon DEF CallInv, PipeInv
  <2>3. QED
    BY <1>2, <2>1, <2>2, Zenon DEF CallInv, StepSent
<1>7. CASE StepNoMemory \/ StepGarbled
  BY <1>7, NoMemory, Zenon
<1>8. CASE Rebind
  <2>1. /\ call = "idle" /\ call' = "idle" /\ up /\ cset' = <<>> /\ s2c = <<>>
        /\ c2s' = Append(c2s, RebindRequest(run'))
        /\ Len(s2c) <= 1 /\ ~failed /\ UNCHANGED <<s2c, up, failed>>
    BY <1>8, Zenon DEF Rebind, servervars, sqlvars, CallInv
  <2>2. c2s'[Len(c2s')].op = "rebind"
    BY <1>1, <2>1 DEF RebindRequest
  <2>3. ~StepSent'
    BY <2>2 DEF StepSent
  <2>4. QED
    BY <1>2, <2>1, <2>3, Zenon DEF CallInv
<1>9. CASE OpStepBuffered \/ OpStepSingle
  <2>1. /\ Requested("step") /\ c2s' = Tail(c2s)
        /\ \E f : s2c' = Append(s2c, f)
        /\ UNCHANGED <<call, cset, srun, run, up, failed>>
    BY <1>9, Zenon DEF OpStepBuffered, OpStepSingle, Receive, SqlStep, clientvars, sqlvars
  <2>2. StepSent /\ up /\ srun = run /\ c2s' = <<>>
    BY <2>1, StepAlone, Zenon
  <2>3. call = "reading" /\ s2c = <<>> /\ cset = <<>> /\ ~failed
    BY <1>2, <2>2, Zenon DEF CallInv, StepSent
  <2>4. s2c' # <<>> /\ Len(s2c') <= 1
    BY <2>1, <2>3
  <2>5. QED
    BY <1>2, <2>1, <2>2, <2>3, <2>4, Zenon DEF CallInv
<1>10. CASE Fetch
  <2>1. UNCHANGED <<call, cset, c2s, s2c, srun, run, up, failed>>
    BY <1>10, Zenon DEF Fetch, SqlStep, clientvars
  <2>2. QED
    BY <2>1, Zenon DEF CallInv, StepSent
<1>11. CASE OpRebind
  <2>1. /\ Requested("rebind") /\ c2s # <<>> /\ c2s' = Tail(c2s)
        /\ UNCHANGED <<call, cset, s2c, up, failed>>
    BY <1>11, Zenon DEF OpRebind, Requested, Receive, clientvars
  <2>2. s2c = <<>> /\ (StepSent' <=> StepSent)
    BY <2>1, RebindKeepsStep, Zenon DEF CallInv
  <2>3. QED
    BY <2>1, <2>2, Zenon DEF CallInv
<1>12. CASE OpStepPastEnd \/ Die
  <2>1. /\ c2s' = <<>> /\ up' = FALSE
        /\ UNCHANGED <<call, cset, s2c, srun, run, failed>>
    BY <1>12, Zenon DEF OpStepPastEnd, Die, Shutdown, clientvars, sqlvars
  <2>2. QED
    BY <2>1, Zenon DEF CallInv, StepSent
<1>13. QED
  BY <1>3, <1>4, <1>5, <1>6, <1>7, <1>8, <1>9, <1>10, <1>11, <1>12 DEF Next, Client, Server

-----------------------------------------------------------------------------
(* The server's buffer. *)

\* What a step of a statement that has not ended does.
LEMMA SqlStepOn ==
  ASSUME TypeOK, BufferInv, ~ended, NEW last \in BOOLEAN, SqlStep(last)
  PROVE  /\ pos \in Nat /\ pos' = pos + 1 /\ execs' = 1 /\ srun' = srun
         /\ pos' > MaxRows => ended'
         /\ Stepped.run = srun /\ Stepped.n = pos + 1 /\ (Stepped.last <=> ended')
<1>1. pos \in Nat /\ execs \in Nat /\ MaxRows \in Nat
  BY BoundsAssumption, TypeParts DEF DataOK
<1>2. /\ pos' = pos + 1 /\ execs' = IF pos = 0 THEN execs + 1 ELSE execs
      /\ srun' = srun /\ (pos' <= MaxRows \/ last) /\ ended' = last
  BY Zenon DEF SqlStep
<1>3. execs = IF pos = 0 THEN 0 ELSE 1
  BY Zenon DEF BufferInv
<1>4. execs' = 1
  BY <1>1, <1>2, <1>3
<1>5. pos' <= MaxRows \/ ended'
  BY <1>2, Zenon
<1>6. pos' > MaxRows => ended'
  BY <1>1, <1>2, <1>5
<1>7. Stepped.run = srun' /\ Stepped.n = pos' /\ Stepped.last = ended'
  BY DEF Stepped
<1>8. QED
  BY <1>1, <1>2, <1>4, <1>6, <1>7

LEMMA BufferStep ==
  ASSUME TypeOK, BufferInv, Next
  PROVE  BufferInv'
<1>1. sbuf \in Seq(Results) /\ MaxRows \in Nat /\ pos \in Nat
  BY BoundsAssumption, TypeParts DEF DataOK
<1>2. CASE Client \/ OpStepPastEnd \/ Die
  <2>1. UNCHANGED <<sbuf, sdone, multi, sqlvars>>
    BY <1>2, NoMemory, Zenon DEF Client, StepCached, StepSend, StepRead, StepHangup, Rebind,
                       OpStepPastEnd, Die, Shutdown, servervars
  <2>2. QED
    BY <2>1, Zenon DEF BufferInv, sqlvars
<1>3. CASE OpStepBuffered
  <2>1. sbuf' = <<>> /\ UNCHANGED <<sdone, multi, sqlvars>>
    BY <1>3, Zenon DEF OpStepBuffered
  <2>2. \A i \in 1..Len(sbuf') : FALSE
    BY <2>1
  <2>3. QED
    BY <2>1, <2>2, Zenon DEF BufferInv, sqlvars
<1>4. CASE OpStepSingle
  <2>1. PICK last \in BOOLEAN : SqlStep(last)
    BY <1>4, Zenon DEF OpStepSingle
  <2>2. sbuf = <<>> /\ sbuf' = <<>> /\ ~sdone /\ sdone' = ended' /\ ~ended
    BY <1>4, Zenon DEF OpStepSingle, BufferInv
  <2>3. pos' = pos + 1 /\ execs' = 1 /\ (pos' > MaxRows => ended')
    BY <2>1, <2>2, SqlStepOn
  <2>4. pos' # 0 /\ \A i \in 1..Len(sbuf') : FALSE
    BY <1>1, <2>2, <2>3
  <2>5. QED
    BY <2>2, <2>3, <2>4, Zenon DEF BufferInv
<1>5. CASE Fetch
  <2>1. PICK last \in BOOLEAN : SqlStep(last)
    BY <1>5, Zenon DEF Fetch
  <2>2. ~ended /\ multi /\ multi' = multi /\ sdone' = ended' /\ sbuf' = Append(sbuf, Stepped)
    BY <1>5, Zenon DEF Fetch, BufferInv, TypeOK
  <2>3. /\ pos' = pos + 1 /\ execs' = 1 /\ srun' = srun /\ (pos' > MaxRows => ended')
        /\ Stepped.run = srun /\ Stepped.n = pos + 1 /\ (Stepped.last <=> ended')
        /\ Stepped \in Results
    BY <2>1, <2>2, SqlStepOn, SqlStepType
  <2>4. /\ Len(sbuf') = Len(sbuf) + 1 /\ Len(sbuf) \in Nat
        /\ sbuf' # <<>> /\ sbuf'[Len(sbuf')] = Stepped
        /\ \A i \in 1..Len(sbuf) : sbuf'[i] = sbuf[i]
    BY <1>1, <2>2, <2>3, AppendProperties, LenProperties
  <2>5. \A i \in 1..Len(sbuf) : ~sbuf[i].last
    <3>1. sbuf # <<>> => ~sbuf[Len(sbuf)].last
      BY <2>2, Zenon DEF BufferInv
    <3>2. Len(sbuf) # 0 => sbuf # <<>>
      BY EmptySeq
    <3>3. \A i \in 1..Len(sbuf) : Len(sbuf) # 0
      BY <2>4
    <3>4. QED
      BY <3>1, <3>2, <3>3, Zenon DEF BufferInv
  <2>6. \A i \in 1..Len(sbuf) : sbuf[i].run = srun /\ sbuf[i].n + Len(sbuf) = pos + i
    BY Zenon DEF BufferInv
  <2>7. \A i \in 1..Len(sbuf) : sbuf[i].n \in Nat
    BY <1>1, ElementOfSeq, ResultFields, Zenon
  <2>8. ASSUME NEW i \in 1..Len(sbuf')
        PROVE  /\ sbuf'[i].run = srun'
               /\ sbuf'[i].n + Len(sbuf') = pos' + i
               /\ sbuf'[i].last => i = Len(sbuf')
    <3>1. CASE i = Len(sbuf')
      BY <1>1, <2>3, <2>4, <3>1
    <3>2. CASE i # Len(sbuf')
      <4>1. i \in 1..Len(sbuf) /\ i \in Nat
        BY <2>4, <3>2
      <4>2. sbuf'[i] = sbuf[i] /\ sbuf[i].run = srun /\ ~sbuf[i].last
        BY <2>4, <2>5, <2>6, <4>1, Zenon
      <4>3. sbuf[i].n + (Len(sbuf) + 1) = (pos + 1) + i
        <5>1. sbuf[i].n + Len(sbuf) = pos + i /\ sbuf[i].n \in Nat /\ Len(sbuf) \in Nat
          BY <2>4, <2>6, <2>7, <4>1, Zenon
        <5>2. QED
          BY <1>1, <4>1, <5>1
      <4>4. QED
        BY <2>3, <2>4, <4>2, <4>3, Zenon
    <3>3. QED
      BY <3>1, <3>2
  <2>9. pos' # 0
    BY <1>1, <2>3
  <2>10. QED
    BY <2>2, <2>3, <2>4, <2>8, <2>9, Zenon DEF BufferInv
<1>6. CASE OpRebind
  <2>1. pos' = 0 /\ ended' = FALSE /\ execs' = 0 /\ sbuf' = <<>> /\ sdone' = FALSE
    BY <1>6, Zenon DEF OpRebind
  <2>2. ~(pos' > MaxRows) /\ \A i \in 1..Len(sbuf') : FALSE
    BY <1>1, <2>1
  <2>3. QED
    BY <2>1, <2>2, Zenon DEF BufferInv
<1>7. QED
  BY <1>2, <1>3, <1>4, <1>5, <1>6, Zenon DEF Next, Server

-----------------------------------------------------------------------------
(* The pipe and the replies, with memory or without. *)

\* The numbers of what is where.
LEMMA Located ==
  ASSUME TypeOK
  PROVE  /\ Len(s2c) \in Nat /\ Ends \in Nat /\ Ends >= 1 /\ Len(sbuf) \in Nat
         /\ curset \in Nat /\ Len(cset) \in Nat /\ curset <= Len(cset)
         /\ srun \in Nat /\ pos \in Nat /\ run \in Nat
         /\ \A k \in 1..Len(s2c) : s2c[k] \in Seq(Results) /\ Len(s2c[k]) \in Nat
         /\ \A k \in 0..Ends : \A i \in Places(k) :
              /\ k \in Nat /\ i \in Nat
              /\ At(k, i).run \in Nat /\ At(k, i).n \in Nat
<1>1. /\ out \in Results /\ cset \in Seq(Results) /\ sbuf \in Seq(Results)
      /\ s2c \in Seq(Seq(Results)) /\ curset \in 0..Len(cset)
      /\ run \in 1..MaxRuns /\ srun \in 1..MaxRuns /\ pos \in 0..(MaxRows + 1)
  BY TypeParts, Zenon DEF DataOK
<1>2. Len(s2c) \in Nat /\ Len(sbuf) \in Nat /\ Len(cset) \in Nat
  BY <1>1, LenProperties
<1>3. Ends \in Nat /\ Ends >= 1 /\ curset \in Nat /\ curset <= Len(cset)
  BY <1>1, <1>2 DEF Ends
<1>4. srun \in Nat /\ pos \in Nat /\ run \in Nat
  BY <1>1, BoundsAssumption
<1>5. ASSUME NEW k \in 1..Len(s2c)
      PROVE  s2c[k] \in Seq(Results) /\ Len(s2c[k]) \in Nat
  <2>1. s2c[k] \in Seq(Results)
    BY <1>1, ElementOfSeq
  <2>2. QED
    BY <2>1, LenProperties
<1>6. ASSUME NEW k \in 0..Ends, NEW i \in Places(k)
      PROVE  k \in Nat /\ i \in Nat /\ At(k, i) \in Results
  <2>1. k \in Nat
    BY <1>3
  <2>2. CASE k = 0
    <3>1. i \in curset..Len(cset) /\ At(k, i) = (IF i = curset THEN out ELSE cset[i])
      BY <2>2 DEF Places, At
    <3>2. i \in Nat /\ (i # curset => i \in 1..Len(cset))
      BY <1>2, <1>3, <3>1
    <3>3. QED
      BY <1>1, <2>1, <3>1, <3>2, ElementOfSeq
  <2>3. CASE k = Ends
    <3>1. i \in 1..Len(sbuf) /\ At(k, i) = sbuf[i]
      BY <1>3, <2>3 DEF Places, At
    <3>2. i \in Nat
      BY <1>2, <3>1
    <3>3. QED
      BY <1>1, <2>1, <3>1, <3>2, ElementOfSeq
  <2>4. CASE k # 0 /\ k # Ends
    <3>1. i \in 1..Len(s2c[k]) /\ At(k, i) = s2c[k][i]
      BY <2>4 DEF Places, At
    <3>2. k \in 1..Len(s2c)
      BY <1>2, <2>4 DEF Ends
    <3>3. i \in Nat
      BY <1>5, <3>1, <3>2
    <3>4. QED
      BY <1>5, <2>1, <3>1, <3>2, <3>3, ElementOfSeq
  <2>5. QED
    BY <2>2, <2>3, <2>4
<1>7. QED
  BY <1>2, <1>3, <1>4, <1>5, <1>6, ResultFields

\* What waits in the pipe, after a request has been added or taken.
LEMMA PipeDue ==
  ASSUME TypeOK, DueInv, Next
  PROVE  /\ \A i \in 1..Len(c2s') : c2s'[i].op = "rebind" => srun' < c2s'[i].run /\ c2s'[i].run <= run'
         /\ \A i, j \in 1..Len(c2s') :
              i < j /\ c2s'[i].op = "rebind" /\ c2s'[j].op = "rebind" => c2s'[i].run < c2s'[j].run
         /\ srun' <= run'
<1>1. /\ c2s \in Seq(Requests) /\ Len(c2s) \in Nat /\ srun \in Nat /\ run \in Nat
      /\ srun <= run
  BY Located, TypeParts, LenProperties DEF DataOK, DueInv
<1>2. ASSUME NEW i \in 1..Len(c2s)
      PROVE  c2s[i].run \in Nat
  <2>1. c2s[i] \in Requests
    BY <1>1, ElementOfSeq
  <2>2. QED
    BY <2>1, BoundsAssumption DEF Requests
<1>3. CASE UNCHANGED <<c2s, run, srun>>
  BY <1>3 DEF DueInv
<1>4. CASE c2s' = Append(c2s, StepRequest) /\ UNCHANGED <<run, srun>>
  <2>1. StepRequest \in Requests /\ StepRequest.op = "step"
    BY BoundsAssumption DEF StepRequest, Requests
  <2>2. /\ Len(c2s') = Len(c2s) + 1 /\ c2s'[Len(c2s) + 1].op = "step"
        /\ \A i \in 1..Len(c2s) : c2s'[i] = c2s[i]
    BY <1>1, <1>4, <2>1, AppendProperties
  <2>3. \A i \in 1..Len(c2s') : c2s'[i].op = "rebind" => i \in 1..Len(c2s)
    BY <1>1, <2>2
  <2>4. QED
    BY <1>4, <2>2, <2>3 DEF DueInv
<1>5. CASE Rebind
  <2>1. run' = run + 1 /\ srun' = srun /\ c2s' = Append(c2s, RebindRequest(run + 1)) /\ run < MaxRuns
    BY <1>5, Zenon DEF Rebind, sqlvars
  <2>2. RebindRequest(run + 1) \in Requests /\ RebindRequest(run + 1).run = run + 1
    <3>1. run + 1 \in 0..MaxRuns
      BY <1>1, <2>1, BoundsAssumption
    <3>2. QED
      BY <3>1 DEF RebindRequest, Requests
  <2>3. /\ Len(c2s') = Len(c2s) + 1 /\ c2s'[Len(c2s) + 1].run = run + 1
        /\ \A i \in 1..Len(c2s) : c2s'[i] = c2s[i]
    BY <1>1, <2>1, <2>2, AppendProperties
  <2>4. ASSUME NEW i \in 1..Len(c2s), c2s'[i].op = "rebind"
        PROVE  srun < c2s'[i].run /\ c2s'[i].run < run + 1
    <3>1. c2s'[i] = c2s[i] /\ c2s[i].run \in Nat
      BY <1>2, <2>3
    <3>2. srun < c2s[i].run /\ c2s[i].run <= run
      BY <2>4, <3>1 DEF DueInv
    <3>3. QED
      BY <1>1, <3>1, <3>2
  <2>5. \A i \in 1..Len(c2s') : i \in 1..Len(c2s) \/ i = Len(c2s) + 1
    BY <1>1, <2>3
  <2>6. ASSUME NEW i \in 1..Len(c2s'), c2s'[i].op = "rebind"
        PROVE  srun' < c2s'[i].run /\ c2s'[i].run <= run'
    <3>1. CASE i \in 1..Len(c2s)
      <4>1. srun < c2s'[i].run /\ c2s'[i].run < run + 1 /\ c2s'[i].run \in Nat
        BY <1>2, <2>3, <2>4, <2>6, <3>1
      <4>2. QED
        BY <1>1, <2>1, <4>1
    <3>2. CASE i = Len(c2s) + 1
      BY <1>1, <2>1, <2>3, <3>2
    <3>3. QED
      BY <2>5, <3>1, <3>2
  <2>7. ASSUME NEW i \in 1..Len(c2s'), NEW j \in 1..Len(c2s'), i < j,
               c2s'[i].op = "rebind", c2s'[j].op = "rebind"
        PROVE  c2s'[i].run < c2s'[j].run
    <3>1. i \in 1..Len(c2s)
      BY <1>1, <2>3, <2>7
    <3>2. CASE j \in 1..Len(c2s)
      BY <2>3, <2>7, <3>1, <3>2 DEF DueInv
    <3>3. CASE j = Len(c2s) + 1
      BY <2>3, <2>4, <2>7, <3>1, <3>3
    <3>4. QED
      BY <2>5, <3>2, <3>3
  <2>8. QED
    BY <1>1, <2>1, <2>6, <2>7
<1>6. CASE c2s # <<>> /\ c2s' = Tail(c2s) /\ UNCHANGED <<run, srun>>
  <2>1. \A i \in 1..Len(c2s') : i + 1 \in 1..Len(c2s) /\ c2s'[i] = c2s[i + 1] /\ i \in Nat
    BY <1>1, <1>6, TailIs
  <2>2. QED
    BY <1>1, <1>6, <2>1 DEF DueInv
<1>7. CASE OpRebind
  <2>1. c2s # <<>> /\ c2s' = Tail(c2s) /\ srun' = Head(c2s).run /\ run' = run /\ Head(c2s).op = "rebind"
    BY <1>7, Zenon DEF OpRebind, Requested, Receive, clientvars
  <2>2. Head(c2s) = c2s[1] /\ 1 \in 1..Len(c2s)
    BY <1>1, <2>1, TailIs
  <2>3. \A i \in 1..Len(c2s') : i + 1 \in 1..Len(c2s) /\ c2s'[i] = c2s[i + 1] /\ i \in Nat /\ i >= 1
    BY <1>1, <2>1, TailIs
  <2>4. srun' <= run'
    BY <1>7, <2>1, RebindLater DEF OpRebind
  <2>5. ASSUME NEW i \in 1..Len(c2s'), c2s'[i].op = "rebind"
        PROVE  srun' < c2s'[i].run /\ c2s'[i].run <= run'
    <3>1. i + 1 \in 1..Len(c2s) /\ c2s'[i] = c2s[i + 1] /\ 1 < i + 1
      BY <2>3
    <3>2. QED
      BY <2>1, <2>2, <2>5, <3>1 DEF DueInv
  <2>6. ASSUME NEW i \in 1..Len(c2s'), NEW j \in 1..Len(c2s'), i < j,
               c2s'[i].op = "rebind", c2s'[j].op = "rebind"
        PROVE  c2s'[i].run < c2s'[j].run
    <3>1. /\ i + 1 \in 1..Len(c2s) /\ c2s'[i] = c2s[i + 1]
          /\ j + 1 \in 1..Len(c2s) /\ c2s'[j] = c2s[j + 1] /\ i + 1 < j + 1
      BY <2>3, <2>6
    <3>2. QED
      BY <2>6, <3>1 DEF DueInv
  <2>7. QED
    BY <2>4, <2>5, <2>6
<1>8. CASE c2s' = <<>> /\ UNCHANGED <<run, srun>>
  BY <1>1, <1>8
<1>9. \/ UNCHANGED <<c2s, run, srun>>
      \/ c2s' = Append(c2s, StepRequest) /\ UNCHANGED <<run, srun>>
      \/ Rebind \/ OpRebind
      \/ c2s # <<>> /\ c2s' = Tail(c2s) /\ UNCHANGED <<run, srun>>
      \/ c2s' = <<>> /\ UNCHANGED <<run, srun>>
  <2>1. CASE Client
    BY <2>1, NoMemory, Zenon DEF Client, StepCached, StepSend, StepRead, StepHangup, sqlvars
  <2>2. CASE OpStepBuffered \/ OpStepSingle
    BY <2>2, Zenon DEF OpStepBuffered, OpStepSingle, Requested, Receive, SqlStep, clientvars, sqlvars
  <2>3. CASE Fetch
    BY <2>3, Zenon DEF Fetch, SqlStep, clientvars
  <2>4. CASE OpStepPastEnd \/ Die
    BY <2>4, Zenon DEF OpStepPastEnd, Die, Shutdown, clientvars, sqlvars
  <2>5. QED
    BY <2>1, <2>2, <2>3, <2>4, Zenon DEF Next, Server
<1>10. QED
  BY <1>3, <1>4, <1>5, <1>6, <1>7, <1>8, <1>9
\* The replies under way.
LEMMA RepliesDue ==
  ASSUME TypeOK, DueInv, Next
  PROVE  /\ \A k \in 1..Len(s2c') : Len(s2c'[k]) >= 1
         /\ call' = "reading" => cset' = <<>>
<1>1. /\ s2c \in Seq(Seq(Results)) /\ Len(s2c) \in Nat /\ sbuf \in Seq(Results)
      /\ call \in {"idle", "reading"}
  BY Located, TypeParts DEF DataOK
<1>2. ASSUME UNCHANGED s2c
      PROVE  \A k \in 1..Len(s2c') : Len(s2c'[k]) >= 1
  BY <1>2 DEF DueInv
<1>3. ASSUME s2c # <<>>, s2c' = Tail(s2c)
      PROVE  \A k \in 1..Len(s2c') : Len(s2c'[k]) >= 1
  BY <1>1, <1>3, TailIs DEF DueInv
<1>4. ASSUME NEW f \in Seq(Results), Len(f) >= 1, s2c' = Append(s2c, f)
      PROVE  \A k \in 1..Len(s2c') : Len(s2c'[k]) >= 1
  <2>1. /\ Len(s2c') = Len(s2c) + 1 /\ s2c'[Len(s2c) + 1] = f
        /\ \A k \in 1..Len(s2c) : s2c'[k] = s2c[k]
    BY <1>1, <1>4, AppendProperties
  <2>2. \A k \in 1..Len(s2c') : k \in 1..Len(s2c) \/ k = Len(s2c) + 1
    BY <1>1, <2>1
  <2>3. QED
    BY <1>4, <2>1, <2>2 DEF DueInv
<1>5. CASE StepCached \/ StepSend \/ StepHangup \/ Rebind
  <2>1. UNCHANGED s2c /\ (call' = "reading" => cset' = <<>>)
    BY <1>5, Zenon DEF StepCached, StepSend, StepHangup, Rebind, DueInv
  <2>2. QED
    BY <1>2, <2>1
<1>6. CASE StepRead \/ StepNoMemory
  <2>1. call' = "idle" /\ (UNCHANGED s2c \/ (s2c # <<>> /\ s2c' = Tail(s2c)))
    <3>1. CASE StepRead
      BY <3>1, Zenon DEF StepRead
    <3>2. CASE StepNoBuffer \/ StepTear
      <4>1. call' = "idle" /\ UNCHANGED s2c
        BY <3>2 DEF StepNoBuffer, StepTear, Fails
      <4>2. QED
        BY <4>1
    <3>3. CASE StepNoResults
      BY <3>3, Zenon DEF StepNoResults, Fails
    <3>4. QED
      BY <1>6, <3>1, <3>2, <3>3, Zenon DEF StepNoMemory
  <2>2. QED
    BY <1>2, <1>3, <2>1
<1>11. CASE StepGarbled
  <2>1. call = "reading" /\ (call' = "idle" \/ UNCHANGED cset)
    BY <1>11, Zenon DEF StepGarbled
  <2>2. PICK m \in 0..Len(s2c) : s2c' = SubSeq(s2c, m + 1, Len(s2c))
    BY <1>11 DEF StepGarbled
  <2>3. \A k \in 1..Len(s2c') : m + k \in 1..Len(s2c) /\ s2c'[k] = s2c[m + k]
    BY <1>1, <2>2
  <2>4. QED
    BY <2>1, <2>3 DEF DueInv
<1>7. CASE OpStepBuffered
  <2>1. sbuf # <<>> /\ s2c' = Append(s2c, sbuf) /\ UNCHANGED <<call, cset>>
    BY <1>7, Zenon DEF OpStepBuffered, clientvars
  <2>2. Len(sbuf) >= 1
    BY <1>1, <2>1, LenProperties, EmptySeq
  <2>3. QED
    BY <1>1, <1>4, <2>1, <2>2 DEF DueInv
<1>8. CASE OpStepSingle
  <2>1. s2c' = Append(s2c, <<Stepped>>) /\ UNCHANGED <<call, cset>>
    BY <1>8, Zenon DEF OpStepSingle, clientvars
  <2>2. /\ Len(s2c') = Len(s2c) + 1 /\ s2c'[Len(s2c) + 1] = <<Stepped>>
        /\ \A k \in 1..Len(s2c) : s2c'[k] = s2c[k]
    BY <1>1, <2>1
  <2>3. \A k \in 1..Len(s2c') : k \in 1..Len(s2c) \/ k = Len(s2c) + 1
    BY <1>1, <2>2
  <2>4. Len(<<Stepped>>) >= 1
    OBVIOUS
  <2>5. QED
    BY <2>1, <2>2, <2>3, <2>4 DEF DueInv
<1>9. CASE Fetch \/ OpRebind \/ OpStepPastEnd \/ Die
  <2>1. UNCHANGED <<s2c, call, cset>>
    BY <1>9, Zenon DEF Fetch, OpRebind, OpStepPastEnd, Die, Shutdown, clientvars
  <2>2. QED
    BY <1>2, <2>1 DEF DueInv
<1>10. QED
  BY <1>5, <1>6, <1>7, <1>8, <1>9, <1>11, Zenon DEF Next, Client, Server

LEMMA DueStep ==
  ASSUME TypeOK, DueInv, Next
  PROVE  DueInv'
BY PipeDue, RepliesDue DEF DueInv

-----------------------------------------------------------------------------
(* What a step may do to the order. *)

\* Some go, and SQLite moves on.
LEMMA Fewer ==
  ASSUME TypeOK, InOrder, Past,
         \A k \in 0..Ends' : \A i \in Places(k)' :
           k \in 0..Ends /\ i \in Places(k) /\ At(k, i)' = At(k, i),
         srun < srun' \/ UNCHANGED <<srun, pos>>, srun' \in Nat
  PROVE  InOrder' /\ Past'
<1>1. InOrder'
  BY DEF InOrder
<1>2. ASSUME NEW k \in 0..Ends', NEW i \in Places(k)'
      PROVE  At(k, i)'.run < srun' \/ (At(k, i)'.run = srun' /\ At(k, i)'.n <= pos')
  <2>1. k \in 0..Ends /\ i \in Places(k) /\ At(k, i)' = At(k, i)
    OBVIOUS
  <2>2. /\ At(k, i).run < srun \/ (At(k, i).run = srun /\ At(k, i).n <= pos)
        /\ At(k, i).run \in Nat /\ srun \in Nat
    BY <2>1, Located DEF Past
  <2>3. CASE srun < srun'
    BY <2>1, <2>2, <2>3
  <2>4. CASE UNCHANGED <<srun, pos>>
    BY <2>1, <2>2, <2>4
  <2>5. QED
    BY <2>3, <2>4
<1>3. QED
  BY <1>1, <1>2 DEF Past

\* The client forgets what it holds.
LEMMA Cleared ==
  ASSUME TypeOK, InOrder, Past,
         cset' = <<>>, curset' = 0, UNCHANGED <<out, s2c, sbuf, srun, pos>>
  PROVE  InOrder' /\ Past'
<1> DEFINE J(k, i) == IF k = 0 THEN curset ELSE i
<1>1. Ends' = Ends /\ Ends \in Nat /\ Ends >= 1 /\ curset \in Places(0) /\ 0 \in 0..Ends
  <2>1. Ends' = Ends
    BY DEF Ends
  <2>2. QED
    BY <2>1, Located DEF Places
<1>2. ASSUME NEW k \in 0..Ends, NEW i \in Places(k)'
      PROVE  J(k, i) \in Places(k) /\ At(k, i)' = At(k, J(k, i)) /\ (k = 0 => i = 0)
  <2>1. CASE k = 0
    <3>1. i = 0
      BY <2>1 DEF Places
    <3>2. At(k, i)' = out /\ At(k, curset) = out
      BY <2>1, <3>1 DEF At
    <3>3. QED
      BY <1>1, <2>1, <3>1, <3>2
  <2>2. CASE k # 0
    BY <1>1, <2>2 DEF Places, At
  <2>3. QED
    BY <2>1, <2>2
<1>3. ASSUME NEW k \in 0..Ends, NEW l \in 0..Ends, NEW i \in Places(k)', NEW j \in Places(l)',
             Ahead(k, i, l, j)
      PROVE  At(k, i)' = Broken \/ At(l, j)' = Broken \/ Before(At(k, i)', At(l, j)')
  <2>1. Ahead(k, J(k, i), l, J(l, j))
    BY <1>1, <1>2, <1>3 DEF Ahead
  <2>2. QED
    BY <1>2, <2>1 DEF InOrder
<1>4. InOrder'
  BY <1>1, <1>3 DEF InOrder, Ahead, Before
<1>5. Past'
  BY <1>1, <1>2 DEF Past
<1>6. QED
  BY <1>4, <1>5

\* The client takes the first reply over, or what it can of it.
LEMMA Shifted ==
  ASSUME TypeOK, InOrder, Past, s2c # <<>>, s2c' = Tail(s2c), UNCHANGED <<sbuf, srun, pos>>,
         \A i \in Places(0)' :
           \/ i = 0 /\ At(0, i)' = out
           \/ At(0, i)' = Broken
           \/ i \in 1..Len(s2c[1]) /\ At(0, i)' = s2c[1][i]
  PROVE  InOrder' /\ Past'
<1> DEFINE K(k, i) == IF k = 0 /\ i = 0 THEN 0 ELSE k + 1
           J(k, i) == IF k = 0 /\ i = 0 THEN curset ELSE i
<1>1. /\ Len(s2c) \in Nat /\ Len(s2c) >= 1 /\ Len(s2c') = Len(s2c) - 1
      /\ \A k \in 1..Len(s2c') : s2c'[k] = s2c[k + 1]
  <2>1. s2c \in Seq(Seq(Results))
    BY TypeParts DEF DataOK
  <2>2. Len(s2c) \in Nat /\ Len(s2c) >= 1
    BY <2>1, LenProperties, EmptySeq
  <2>3. QED
    BY <2>1, <2>2, HeadTailProperties
<1>2. Ends = Len(s2c) + 1 /\ Ends' = Len(s2c) /\ curset \in Places(0) /\ 1 \in 0..Ends /\ 0 \in 0..Ends
  <2>1. Ends = Len(s2c) + 1 /\ Ends' = Len(s2c)
    BY <1>1 DEF Ends
  <2>2. QED
    BY <1>1, <2>1, Located DEF Places
<1>3. Places(1) = 1..Len(s2c[1]) /\ \A i : At(1, i) = s2c[1][i]
  BY <1>1, <1>2 DEF Places, At
<1>4. ASSUME NEW k \in 0..Ends', NEW i \in Places(k)', At(k, i)' # Broken
      PROVE  /\ K(k, i) \in 0..Ends /\ J(k, i) \in Places(K(k, i)) /\ At(k, i)' = At(K(k, i), J(k, i))
  <2>1. CASE k = 0 /\ i = 0
    <3>1. At(0, curset) = out
      BY DEF At
    <3>2. At(0, 0)' = out
      BY <1>4, <2>1
    <3>3. QED
      BY <1>2, <2>1, <3>1, <3>2
  <2>2. CASE k = 0 /\ i # 0
    <3>1. i \in 1..Len(s2c[1]) /\ At(k, i)' = s2c[1][i]
      BY <1>4, <2>2
    <3>2. K(k, i) = 1 /\ J(k, i) = i
      BY <2>2
    <3>3. QED
      BY <1>2, <1>3, <3>1, <3>2
  <2>3. CASE k # 0 /\ k = Ends'
    <3>1. K(k, i) = Ends /\ J(k, i) = i /\ Ends # 0 /\ Ends \in 0..Ends
      BY <1>1, <1>2, <2>3
    <3>2. i \in 1..Len(sbuf) /\ At(k, i)' = sbuf[i]
      BY <2>3 DEF Places, At
    <3>3. Places(Ends) = 1..Len(sbuf) /\ At(Ends, i) = sbuf[i]
      BY <3>1 DEF Places, At
    <3>4. QED
      BY <3>1, <3>2, <3>3
  <2>4. CASE k # 0 /\ k # Ends'
    <3>1. K(k, i) = k + 1 /\ J(k, i) = i
      BY <2>4
    <3>2. k \in 1..Len(s2c') /\ k + 1 # 0 /\ k + 1 # Ends /\ k + 1 \in 0..Ends
      <4>1. k \in 0..Len(s2c) /\ k # 0 /\ k # Len(s2c) /\ Len(s2c) \in Nat
        BY <1>1, <1>2, <2>4
      <4>2. k \in 1..Len(s2c) - 1 /\ k + 1 # 0 /\ k + 1 # Len(s2c) + 1 /\ k + 1 \in 0..Len(s2c) + 1
        BY ONLY <4>1
      <4>3. QED
        BY <1>1, <1>2, <4>2
    <3>3. i \in 1..Len(s2c'[k]) /\ At(k, i)' = s2c'[k][i]
      BY <2>4 DEF Places, At
    <3>4. Places(k + 1) = 1..Len(s2c[k + 1]) /\ At(k + 1, i) = s2c[k + 1][i]
      BY <3>2 DEF Places, At
    <3>5. s2c'[k] = s2c[k + 1]
      BY <1>1, <3>2
    <3>6. QED
      BY <3>1, <3>2, <3>3, <3>4, <3>5
  <2>5. QED
    BY <2>1, <2>2, <2>3, <2>4
<1>5. ASSUME NEW k \in 0..Ends', NEW l \in 0..Ends', NEW i \in Places(k)', NEW j \in Places(l)',
             Ahead(k, i, l, j), At(k, i)' # Broken, At(l, j)' # Broken
      PROVE  Before(At(k, i)', At(l, j)')
  <2>1. /\ K(k, i) \in 0..Ends /\ J(k, i) \in Places(K(k, i)) /\ At(k, i)' = At(K(k, i), J(k, i))
        /\ K(l, j) \in 0..Ends /\ J(l, j) \in Places(K(l, j)) /\ At(l, j)' = At(K(l, j), J(l, j))
    BY <1>4, <1>5
  <2>2. l \in Nat /\ k \in Nat /\ ~(l = 0 /\ j = 0)
    <3>1. k = 0 => i = 0 \/ i \in 1..Len(s2c[1])
      BY <1>5
    <3>2. k \in Nat /\ l \in Nat
      BY <1>1, <1>2
    <3>3. k < l \/ (k = l /\ i < j)
      BY <1>5 DEF Ahead
    <3>4. QED
      BY <3>1, <3>2, <3>3
  <2>3. Ahead(K(k, i), J(k, i), K(l, j), J(l, j))
    BY <1>5, <2>2 DEF Ahead
  <2>4. QED
    BY <2>1, <2>3, <1>5 DEF InOrder
<1>6. InOrder'
  BY <1>5 DEF InOrder, Ahead, Before
<1>7. ASSUME NEW k \in 0..Ends', NEW i \in Places(k)'
      PROVE  At(k, i)'.run < srun' \/ (At(k, i)'.run = srun' /\ At(k, i)'.n <= pos')
  <2>1. CASE At(k, i)' = Broken
    <3>1. srun' >= 1 /\ srun' \in Nat
      BY TypeParts, BoundsAssumption DEF DataOK
    <3>2. At(k, i)'.run = 0
      BY <2>1 DEF Broken
    <3>3. QED
      BY <3>1, <3>2
  <2>2. CASE At(k, i)' # Broken
    BY <1>4, <2>2 DEF Past
  <2>3. QED
    BY <2>1, <2>2
<1>8. QED
  BY <1>6, <1>7 DEF Past

\* SQLite makes another result, behind all others.
LEMMA Grown ==
  ASSUME TypeOK, InOrder, Past, NEW e \in Nat, NEW n \in Nat,
         srun' = srun, pos' = pos + 1,
         At(e, n)'.run = srun, At(e, n)'.n = pos + 1,
         \A k \in 0..Ends' : \A i \in Places(k)' :
           \/ k = e /\ i = n
           \/ /\ k \in 0..Ends /\ i \in Places(k) /\ At(k, i)' = At(k, i)
              /\ ~Ahead(e, n, k, i)
  PROVE  InOrder' /\ Past'
<1>1. srun \in Nat /\ pos \in Nat
  BY Located
<1>2. ASSUME NEW k \in 0..Ends, NEW i \in Places(k)
      PROVE  Before(At(k, i), At(e, n)')
  <2>1. /\ At(k, i).run < srun \/ (At(k, i).run = srun /\ At(k, i).n <= pos)
        /\ At(k, i).run \in Nat /\ At(k, i).n \in Nat
    BY Located DEF Past
  <2>2. At(k, i).run < srun \/ (At(k, i).run = srun /\ At(k, i).n < pos + 1)
    BY <1>1, <2>1
  <2>3. QED
    BY <2>2 DEF Before
<1>3. ~Ahead(e, n, e, n)
  BY DEF Ahead
<1>4. ASSUME NEW k \in 0..Ends', NEW l \in 0..Ends', NEW i \in Places(k)', NEW j \in Places(l)',
             Ahead(k, i, l, j), At(k, i)' # Broken, At(l, j)' # Broken
      PROVE  Before(At(k, i)', At(l, j)')
  <2>1. CASE k = e /\ i = n
    BY <1>3, <1>4, <2>1
  <2>2. CASE ~(k = e /\ i = n) /\ l = e /\ j = n
    BY <1>2, <2>2
  <2>3. CASE ~(k = e /\ i = n) /\ ~(l = e /\ j = n)
    BY <1>4, <2>3 DEF InOrder
  <2>4. QED
    BY <2>1, <2>2, <2>3
<1>5. InOrder'
  BY <1>4 DEF InOrder, Ahead, Before
<1>6. ASSUME NEW k \in 0..Ends', NEW i \in Places(k)'
      PROVE  At(k, i)'.run < srun' \/ (At(k, i)'.run = srun' /\ At(k, i)'.n <= pos')
  <2>1. CASE k = e /\ i = n
    BY <1>1, <2>1
  <2>2. CASE ~(k = e /\ i = n)
    <3>1. k \in 0..Ends /\ i \in Places(k) /\ At(k, i)' = At(k, i)
      BY <2>2
    <3>2. At(k, i).run < srun \/ (At(k, i).run = srun /\ At(k, i).n <= pos)
      BY <3>1 DEF Past
    <3>3. At(k, i).n \in Nat
      BY <3>1, Located
    <3>4. QED
      BY <1>1, <3>1, <3>2, <3>3
  <2>3. QED
    BY <2>1, <2>2
<1>7. QED
  BY <1>5, <1>6 DEF Past

-----------------------------------------------------------------------------
(* The order of what is on its way, step by step. *)

\* The server's end of the order.
LEMMA ServerOrder ==
  ASSUME KeptInv, ~torn, Server \/ Die
  PROVE  InOrder' /\ Past'
<1>1. TypeOK /\ BufferInv /\ DueInv /\ InOrder /\ Past
  BY DEF KeptInv
<1>2. /\ s2c \in Seq(Seq(Results)) /\ Len(s2c) \in Nat /\ sbuf \in Seq(Results) /\ Len(sbuf) \in Nat
      /\ srun \in Nat /\ pos \in Nat
  BY <1>1, Located, TypeParts DEF DataOK
<1>3. Ends = Len(s2c) + 1
  BY DEF Ends
<1>4. CASE OpStepPastEnd \/ Die
  <2>1. UNCHANGED <<out, cset, curset, s2c, sbuf, srun, pos>>
    BY <1>4, Zenon DEF OpStepPastEnd, Die, Shutdown, clientvars, sqlvars
  <2>2. QED
    BY <1>1, <1>2, <2>1, Fewer DEF Ends, Places, At
<1>5. CASE OpRebind
  <2>1. sbuf' = <<>> /\ UNCHANGED <<out, cset, curset, s2c>> /\ srun' = Head(c2s).run
    BY <1>5, Zenon DEF OpRebind, clientvars
  <2>2. srun < srun' /\ srun' \in Nat
    <3>1. srun < srun' /\ srun' \in 1..MaxRuns
      BY <1>1, <1>5, <2>1, RebindLater DEF OpRebind
    <3>2. QED
      BY <3>1, BoundsAssumption
  <2>3. Ends' = Ends
    BY <2>1 DEF Ends
  <2>4. ASSUME NEW k \in 0..Ends, NEW i \in Places(k)'
        PROVE  i \in Places(k) /\ At(k, i)' = At(k, i)
    <3>1. CASE k # Ends
      BY <1>2, <1>3, <2>1, <2>3, <3>1 DEF Places, At
    <3>2. CASE k = Ends
      <4>1. k # 0 /\ 1..0 = {}
        BY <1>2, <1>3, <3>2
      <4>2. Places(k)' = {}
        BY <2>1, <2>3, <3>2, <4>1 DEF Places
      <4>3. QED
        BY <4>2
    <3>3. QED
      BY <3>1, <3>2
  <2>5. QED
    BY <1>1, <2>2, <2>3, <2>4, Fewer
<1>6. CASE OpStepBuffered
  <2>1. sbuf' = <<>> /\ s2c' = Append(s2c, sbuf) /\ UNCHANGED <<out, cset, curset, srun, pos>>
    BY <1>6, Zenon DEF OpStepBuffered, clientvars, sqlvars
  <2>2. /\ Len(s2c') = Len(s2c) + 1 /\ s2c'[Len(s2c) + 1] = sbuf
        /\ \A k \in 1..Len(s2c) : s2c'[k] = s2c[k]
    BY <1>2, <2>1, AppendProperties
  <2>3. Ends' = Ends + 1
    BY <1>3, <2>2 DEF Ends
  <2>4. ASSUME NEW k \in 0..Ends', NEW i \in Places(k)'
        PROVE  k \in 0..Ends /\ i \in Places(k) /\ At(k, i)' = At(k, i)
    <3>1. CASE k = Ends'
      <4>1. k # 0 /\ 1..0 = {}
        BY <1>2, <1>3, <2>3, <3>1
      <4>2. Places(k)' = {}
        BY <2>1, <3>1, <4>1 DEF Places
      <4>3. QED
        BY <4>2
    <3>2. CASE k # Ends'
      <4>1. k \in 0..Ends /\ k \in Nat
        BY <1>2, <1>3, <2>3, <3>2
      <4>2. CASE k = 0
        BY <1>2, <1>3, <2>1, <2>3, <4>1, <4>2 DEF Places, At
      <4>3. CASE k = Ends
        <5>1. k # 0 /\ k = Len(s2c) + 1
          BY <1>2, <1>3, <4>3
        <5>2. Places(k)' = 1..Len(sbuf) /\ At(k, i)' = sbuf[i]
          BY <2>2, <3>2, <5>1 DEF Places, At
        <5>3. Places(k) = 1..Len(sbuf) /\ At(k, i) = sbuf[i]
          BY <4>3, <5>1 DEF Places, At
        <5>4. QED
          BY <4>1, <5>2, <5>3
      <4>4. CASE k # 0 /\ k # Ends
        <5>1. k \in 1..Len(s2c)
          BY <1>2, <1>3, <4>1, <4>4
        <5>2. Places(k)' = 1..Len(s2c[k]) /\ At(k, i)' = s2c[k][i]
          BY <2>2, <3>2, <4>4, <5>1 DEF Places, At
        <5>3. Places(k) = 1..Len(s2c[k]) /\ At(k, i) = s2c[k][i]
          BY <4>4 DEF Places, At
        <5>4. QED
          BY <4>1, <5>2, <5>3
      <4>5. QED
        BY <4>2, <4>3, <4>4
    <3>3. QED
      BY <3>1, <3>2
  <2>5. QED
    BY <1>1, <1>2, <2>1, <2>4, Fewer
<1>7. CASE OpStepSingle
  <2>1. PICK last \in BOOLEAN : SqlStep(last)
    BY <1>7, Zenon DEF OpStepSingle
  <2>2. /\ ~ended /\ sbuf = <<>> /\ sbuf' = <<>> /\ s2c' = Append(s2c, <<Stepped>>)
        /\ UNCHANGED <<out, cset, curset>>
    BY <1>1, <1>7, Zenon DEF OpStepSingle, BufferInv, clientvars
  <2>3. /\ pos' = pos + 1 /\ srun' = srun /\ Stepped.run = srun /\ Stepped.n = pos + 1
        /\ Stepped \in Results
    BY <1>1, <2>1, <2>2, SqlStepOn, SqlStepType
  <2>4. /\ Len(s2c') = Len(s2c) + 1 /\ s2c'[Len(s2c) + 1] = <<Stepped>>
        /\ \A k \in 1..Len(s2c) : s2c'[k] = s2c[k]
    <3>1. <<Stepped>> \in Seq(Results)
      BY <2>3
    <3>2. QED
      BY <1>2, <2>2, <3>1, AppendProperties
  <2>5. Ends' = Ends + 1 /\ Ends \in Nat /\ Ends # 0
    BY <1>2, <1>3, <2>4 DEF Ends
  <2>6. PICK e \in Nat : e = Ends
    BY <2>5
  <2>7. Places(e)' = {1} /\ At(e, 1)' = Stepped
    <3>1. e # Ends' /\ e # 0
      BY <2>5, <2>6
    <3>2. s2c'[e] = <<Stepped>> /\ Len(<<Stepped>>) = 1 /\ 1..1 = {1} /\ <<Stepped>>[1] = Stepped
      BY <1>3, <2>4, <2>6
    <3>3. Places(e)' = 1..Len(s2c'[e]) /\ At(e, 1)' = s2c'[e][1]
      BY <3>1 DEF Places, At
    <3>4. QED
      BY <3>2, <3>3
  <2>8. ASSUME NEW k \in 0..Ends', NEW i \in Places(k)'
        PROVE  \/ k = e /\ i = 1
               \/ k \in 0..Ends /\ i \in Places(k) /\ At(k, i)' = At(k, i) /\ ~Ahead(e, 1, k, i)
    <3>1. CASE k = Ends'
      <4>1. k # 0 /\ 1..0 = {}
        BY <1>2, <1>3, <2>5, <3>1
      <4>2. Places(k)' = {}
        BY <2>2, <3>1, <4>1 DEF Places
      <4>3. QED
        BY <4>2
    <3>2. CASE k = e
      BY <2>7, <3>2
    <3>3. CASE k # e /\ k # Ends'
      <4>1. k \in 0..Ends /\ k \in Nat /\ k < e
        BY <2>5, <2>6, <3>3
      <4>2. ~Ahead(e, 1, k, i)
        BY <2>6, <4>1 DEF Ahead
      <4>3. k # 0 => k \in 1..Len(s2c)
        BY <1>2, <1>3, <2>6, <4>1
      <4>4. i \in Places(k) /\ At(k, i)' = At(k, i)
        BY <2>2, <2>4, <2>6, <3>3, <4>3 DEF Places, At
      <4>5. QED
        BY <4>1, <4>2, <4>4
    <3>4. QED
      BY <3>1, <3>2, <3>3
  <2>9. At(e, 1)'.run = srun /\ At(e, 1)'.n = pos + 1
    BY <2>3, <2>7
  <2>10. QED
    BY <1>1, <2>3, <2>8, <2>9, Grown
<1>8. CASE Fetch
  <2>1. PICK last \in BOOLEAN : SqlStep(last)
    BY <1>8, Zenon DEF Fetch
  <2>2. ~ended /\ sbuf' = Append(sbuf, Stepped) /\ UNCHANGED <<out, cset, curset, s2c>>
    BY <1>1, <1>8, Zenon DEF Fetch, BufferInv, TypeOK, clientvars
  <2>3. /\ pos' = pos + 1 /\ srun' = srun /\ Stepped.run = srun /\ Stepped.n = pos + 1
        /\ Stepped \in Results
    BY <1>1, <2>1, <2>2, SqlStepOn, SqlStepType
  <2>4. /\ Len(sbuf') = Len(sbuf) + 1 /\ sbuf'[Len(sbuf) + 1] = Stepped
        /\ \A i \in 1..Len(sbuf) : sbuf'[i] = sbuf[i]
    BY <1>2, <2>2, <2>3, AppendProperties
  <2>5. PICK e \in Nat : e = Ends
    BY <1>2, <1>3
  <2>6. PICK n \in Nat : n = Len(sbuf) + 1
    BY <1>2
  <2>7. Ends' = Ends /\ Ends # 0
    BY <1>2, <1>3, <2>2 DEF Ends
  <2>8. At(e, n)' = Stepped
    BY <2>4, <2>5, <2>6, <2>7 DEF At
  <2>9. ASSUME NEW k \in 0..Ends', NEW i \in Places(k)'
        PROVE  \/ k = e /\ i = n
               \/ k \in 0..Ends /\ i \in Places(k) /\ At(k, i)' = At(k, i) /\ ~Ahead(e, n, k, i)
    <3>1. CASE k = e
      <4>1. i \in 1..Len(sbuf') /\ At(k, i)' = sbuf'[i]
        BY <2>5, <2>7, <3>1 DEF Places, At
      <4>2. i = n \/ (i \in 1..Len(sbuf) /\ ~(n < i))
        BY <1>2, <2>4, <2>6, <4>1
      <4>3. Places(k) = 1..Len(sbuf) /\ At(k, i) = sbuf[i]
        BY <2>5, <2>7, <3>1 DEF Places, At
      <4>4. ~(e < k)
        BY <3>1
      <4>5. QED
        BY <2>4, <2>7, <3>1, <4>1, <4>2, <4>3, <4>4 DEF Ahead
    <3>2. CASE k # e
      <4>1. k \in 0..Ends /\ ~(e < k)
        BY <2>5, <2>7
      <4>2. i \in Places(k) /\ At(k, i)' = At(k, i)
        BY <2>2, <2>5, <2>7, <3>2 DEF Places, At
      <4>3. QED
        BY <3>2, <4>1, <4>2 DEF Ahead
    <3>3. QED
      BY <3>1, <3>2
  <2>10. At(e, n)'.run = srun /\ At(e, n)'.n = pos + 1
    BY <2>3, <2>8
  <2>11. QED
    BY <1>1, <2>3, <2>9, <2>10, Grown
<1>9. QED
  BY <1>4, <1>5, <1>6, <1>7, <1>8, Zenon DEF Server

\* The client's.
LEMMA ClientOrder ==
  ASSUME KeptInv, ~torn, Client
  PROVE  InOrder' /\ Past'
<1>1. TypeOK /\ DueInv /\ InOrder /\ Past
  BY DEF KeptInv
<1>2. /\ s2c \in Seq(Seq(Results)) /\ curset \in Nat /\ Len(cset) \in Nat /\ srun \in Nat
      /\ Ends \in Nat /\ Ends >= 1
  BY <1>1, Located, TypeParts DEF DataOK
<1>3. UNCHANGED <<sbuf, srun, pos>>
  BY NoMemory, Zenon DEF Client, StepCached, StepSend, StepRead, StepHangup, Rebind,
                         servervars, sqlvars
<1>4. CASE StepCached
  <2>1. /\ curset < Len(cset) /\ curset' = curset + 1 /\ out' = cset[curset + 1]
        /\ UNCHANGED <<cset, s2c>>
    BY <1>4, Zenon DEF StepCached
  <2>2. Ends' = Ends
    BY <2>1 DEF Ends
  <2>3. ASSUME NEW k \in 0..Ends', NEW i \in Places(k)'
        PROVE  k \in 0..Ends /\ i \in Places(k) /\ At(k, i)' = At(k, i)
    <3>1. CASE k = 0
      <4>1. i \in curset + 1..Len(cset)
        BY <2>1, <3>1 DEF Places
      <4>2. i \in curset..Len(cset) /\ i # curset
        BY <1>2, <4>1
      <4>3. At(k, i)' = cset[i] /\ At(k, i) = cset[i]
        BY <2>1, <3>1, <4>2 DEF At
      <4>4. QED
        BY <2>2, <3>1, <4>2, <4>3 DEF Places
    <3>2. CASE k # 0
      BY <1>3, <2>1, <2>2, <3>2 DEF Places, At
    <3>3. QED
      BY <3>1, <3>2
  <2>4. QED
    BY <1>1, <1>2, <1>3, <2>3, Fewer
<1>5. CASE StepHangup
  <2>1. UNCHANGED <<out, cset, curset, s2c>>
    BY <1>5, Zenon DEF StepHangup
  <2>2. QED
    BY <1>1, <1>2, <1>3, <2>1, Fewer DEF Ends, Places, At
<1>6. CASE StepSend \/ Rebind
  <2>1. cset' = <<>> /\ curset' = 0 /\ UNCHANGED <<out, s2c>>
    BY <1>6, Zenon DEF StepSend, Rebind
  <2>2. QED
    BY <1>1, <1>3, <2>1, Cleared
<1>7. CASE StepRead
  <2>1. /\ s2c # <<>> /\ s2c' = Tail(s2c) /\ cset' = Head(s2c) /\ curset' = 1
        /\ out' = Head(Head(s2c))
    BY <1>7, Zenon DEF StepRead
  <2>2. Head(s2c) = s2c[1] /\ s2c[1] \in Seq(Results) /\ Len(s2c[1]) >= 1
    <3>1. 1 \in 1..Len(s2c)
      BY <1>2, <2>1, TailIs
    <3>2. QED
      BY <1>1, <1>2, <2>1, <3>1, ElementOfSeq DEF DueInv
  <2>3. out' = s2c[1][1]
    BY <2>1, <2>2
  <2>4. ASSUME NEW i \in Places(0)'
        PROVE  i \in 1..Len(s2c[1]) /\ At(0, i)' = s2c[1][i]
    BY <2>1, <2>2, <2>3 DEF Places, At
  <2>5. QED
    BY <1>1, <1>3, <2>1, <2>4, Shifted
<1>8. CASE StepNoMemory
  <2>1. CASE StepNoBuffer \/ StepTear
    <3>1. UNCHANGED <<out, cset, curset, s2c>>
      BY <2>1, Zenon DEF StepNoBuffer, StepTear, Fails
    <3>2. QED
      BY <1>1, <1>2, <1>3, <3>1, Fewer DEF Ends, Places, At
  <2>2. ASSUME StepNoResults
        PROVE  s2c # <<>> /\ curset' = 0 /\ out' = out /\ s2c' = Tail(s2c)
    BY <2>2, Zenon DEF StepNoResults, Fails
  <2>3. ASSUME StepNoResults, NEW k \in 0..(Len(Head(s2c)) - 1),
               LET kept == SubSeq(Head(s2c), 1, k)
               IN cset' = kept \/ cset' = Append(kept, Broken)
        PROVE  InOrder' /\ Past'
    <3>1. PICK f : f = s2c[1]
      OBVIOUS
    <3>2. Head(s2c) = f /\ f \in Seq(Results) /\ Len(f) \in Nat /\ k \in Nat /\ k < Len(f)
      <4>1. 1 \in 1..Len(s2c) /\ Head(s2c) = s2c[1]
        BY <1>2, <2>2, <2>3, TailIs
      <4>2. f \in Seq(Results)
        BY <1>2, <3>1, <4>1, ElementOfSeq
      <4>3. Len(f) \in Nat
        BY <4>2, LenProperties
      <4>4. QED
        BY <2>3, <3>1, <4>1, <4>2, <4>3
    <3>3. PICK kept : kept = SubSeq(f, 1, k)
      OBVIOUS
    <3>4. kept \in Seq(Results) /\ Len(kept) = k /\ \A i \in 1..k : kept[i] = f[i] /\ i \in 1..Len(f)
      BY <3>2, <3>3
    <3>5. Broken \in Results
      BY BrokenIs
    <3>6. \/ cset' = kept
          \/ /\ Len(cset') = k + 1 /\ cset'[k + 1] = Broken
             /\ \A i \in 1..k : cset'[i] = kept[i]
      BY <2>3, <3>2, <3>3, <3>4, <3>5, AppendProperties
    <3>7. ASSUME NEW i \in Places(0)'
          PROVE  \/ i = 0 /\ At(0, i)' = out
                 \/ At(0, i)' = Broken
                 \/ i \in 1..Len(s2c[1]) /\ At(0, i)' = s2c[1][i]
      <4>1. i \in 0..Len(cset') /\ At(0, i)' = IF i = 0 THEN out ELSE cset'[i]
        BY <2>2, <2>3 DEF Places, At
      <4>2. i = 0 \/ i \in 1..k \/ (i = k + 1 /\ cset'[i] = Broken)
        BY <3>2, <3>4, <3>6, <4>1
      <4>3. i \in 1..k => cset'[i] = f[i] /\ i # 0 /\ i \in 1..Len(f)
        BY <3>2, <3>4, <3>6
      <4>4. k + 1 # 0
        BY <3>2
      <4>5. QED
        BY <3>1, <4>1, <4>2, <4>3, <4>4
    <3>8. QED
      BY <1>1, <1>3, <2>2, <2>3, <2>3, <3>7, Shifted
  <2>4. QED
    BY <1>8, <2>1, <2>3 DEF StepNoMemory, StepNoResults
<1>10. CASE StepGarbled
  BY <1>10, NoMemory
<1>9. QED
  BY <1>4, <1>5, <1>6, <1>7, <1>8, <1>10, Zenon DEF Client

\* What the client is given comes after what it had.
LEMMA GivenInOrder ==
  ASSUME KeptInv, ~torn, [Next]_vars, out' # out, out # Broken, out' # Broken
  PROVE  Before(out, out')
<1>1. TypeOK /\ DueInv /\ InOrder
  BY DEF KeptInv
<1>2. /\ curset \in Nat /\ Len(cset) \in Nat /\ curset <= Len(cset) /\ Ends \in Nat /\ Ends >= 1
      /\ s2c \in Seq(Seq(Results)) /\ Len(s2c) \in Nat
  BY <1>1, Located, TypeParts DEF DataOK
<1>3. curset \in Places(0) /\ At(0, curset) = out /\ 0 \in 0..Ends /\ 1 \in 0..Ends
  BY <1>2 DEF Places, At
<1>4. CASE StepCached
  <2>1. curset < Len(cset) /\ out' = cset[curset + 1]
    BY <1>4, Zenon DEF StepCached
  <2>2. curset + 1 \in Places(0) /\ At(0, curset + 1) = out' /\ Ahead(0, curset, 0, curset + 1)
    <3>1. curset + 1 \in curset..Len(cset) /\ curset < curset + 1 /\ curset + 1 # curset
      BY <1>2, <2>1
    <3>2. QED
      BY <2>1, <3>1 DEF Places, At, Ahead
  <2>3. QED
    BY <1>1, <1>3, <2>2 DEF InOrder
<1>5. CASE StepRead
  <2>1. s2c # <<>> /\ out' = Head(Head(s2c))
    BY <1>5, Zenon DEF StepRead
  <2>2. 1 \in 1..Len(s2c) /\ Head(s2c) = s2c[1]
    BY <1>2, <2>1, TailIs
  <2>3. s2c[1] \in Seq(Results) /\ Len(s2c[1]) >= 1
    BY <1>1, <1>2, <2>2, ElementOfSeq DEF DueInv
  <2>4. out' = s2c[1][1] /\ 1 \in 1..Len(s2c[1])
    <3>1. Len(s2c[1]) \in Nat
      BY <2>3, LenProperties
    <3>2. QED
      BY <2>1, <2>2, <2>3, <3>1
  <2>5. 1 \in Places(1) /\ At(1, 1) = out' /\ Ahead(0, curset, 1, 1)
    <3>1. 1 # 0 /\ 1 # Ends
      BY <1>2, <2>2 DEF Ends
    <3>2. QED
      BY <2>4, <3>1 DEF Places, At, Ahead
  <2>6. QED
    BY <1>1, <1>3, <2>5 DEF InOrder
<1>6. CASE StepSend \/ StepHangup \/ StepNoMemory \/ StepGarbled \/ Rebind
  BY <1>6, NoMemory, Zenon DEF StepSend, StepHangup, Rebind
<1>7. CASE Server \/ Die \/ UNCHANGED vars
  <2>1. UNCHANGED clientvars
    BY <1>7, Zenon DEF Server, OpStepBuffered, OpStepSingle, Fetch, OpRebind, OpStepPastEnd,
                       Die, Shutdown, vars
  <2>2. QED
    BY <2>1, Zenon DEF clientvars
<1>8. QED
  BY <1>4, <1>5, <1>6, <1>7, Zenon DEF Next, Client
-----------------------------------------------------------------------------
(* What follows with memory or without. *)

LEMMA InitKept == Init => KeptInv
<1> SUFFICES ASSUME Init PROVE KeptInv
  OBVIOUS
<1>1. TypeOK /\ BufferInv
  BY InitIInv DEF IInv
<1>2. /\ cset = <<>> /\ curset = 0 /\ c2s = <<>> /\ s2c = <<>> /\ sbuf = <<>>
      /\ run = 1 /\ srun = 1 /\ pos = 0 /\ out = RS!NoResult /\ call = "idle"
  BY Zenon DEF Init, RS!Init
<1>3. DueInv
  BY <1>2 DEF DueInv
<1>4. /\ \A k \in 0..Ends : \A i \in Places(k) : k = 0 /\ i = 0
      /\ At(0, 0) = RS!NoResult
  BY <1>2 DEF Ends, Places, At
<1>5. InOrder
  BY <1>4 DEF InOrder, Ahead
<1>6. Past
  BY <1>2, <1>4 DEF Past, RS!NoResult, RS!Result
<1>7. QED
  BY <1>1, <1>3, <1>5, <1>6 DEF KeptInv

LEMMA NextKept ==
  ASSUME KeptInv, [Next]_vars
  PROVE  KeptInv'
<1>1. TypeOK /\ BufferInv /\ DueInv /\ (~torn => InOrder /\ Past)
  BY DEF KeptInv
<1>2. CASE Next
  <2>1. TypeOK'
    <3>1. FlagsOK' /\ DataOK'
      BY <1>1, <1>2, FlagsStep, DataStep, Zenon
    <3>2. QED
      BY <3>1, Zenon DEF TypeOK, FlagsOK, DataOK
  <2>2. BufferInv' /\ DueInv'
    BY <1>1, <1>2, BufferStep, DueStep, Zenon
  <2>3. ~torn' => InOrder' /\ Past'
    BY <1>2, StaysTorn, ServerOrder, ClientOrder, Zenon DEF Next
  <2>4. QED
    BY <2>1, <2>2, <2>3, Zenon DEF KeptInv
<1>3. CASE UNCHANGED vars
  <2>1. UNCHANGED <<run, out, failed, call, cset, curset, torn, c2s, s2c, up, pc, sbuf, sdone,
                    multi, srun, pos, ended, execs>>
    BY <1>3, Zenon DEF vars, clientvars, servervars, sqlvars
  <2>2. TypeOK' /\ BufferInv' /\ DueInv'
    BY <1>1, <2>1, Zenon DEF TypeOK, BufferInv, DueInv
  <2>3. ~torn' => InOrder' /\ Past'
    <3>1. ASSUME ~torn PROVE InOrder' /\ Past'
      BY <1>1, <2>1, <3>1 DEF InOrder, Past, Ends, Places, At
    <3>2. QED
      BY <2>1, <3>1
  <2>4. QED
    BY <2>2, <2>3, Zenon DEF KeptInv
<1>4. QED
  BY <1>2, <1>3

LEMMA Kept == Spec => []KeptInv
<1>1. Init => KeptInv
  BY InitKept
<1>2. KeptInv /\ [Next]_vars => KeptInv'
  BY NextKept
<1>3. QED
  BY <1>1, <1>2, PTL DEF Spec

\* Every variable keeps its type, and the handler its assertions, whatever the
\* client's allocations do.
THEOREM TypeCorrect == Spec => []TypeOK
<1>1. KeptInv => TypeOK
  BY Zenon DEF KeptInv
<1>2. QED
  BY <1>1, Kept, PTL

\* A statement is executed at most once for each binding, however often the
\* client asks for results, whatever is fetched ahead (sqlbox_op_step), and
\* whatever the client has lost.
THEOREM StartedOnce == Spec => []RunsOnce
<1>1. KeptInv => RunsOnce
  <2>1. KeptInv => execs = 0 \/ execs = 1
    BY Zenon DEF KeptInv, BufferInv
  <2>2. QED
    BY <2>1 DEF RunsOnce
<1>2. QED
  BY <1>1, Kept, PTL

\* However many calls of sqlbox_step have failed for want of memory, leaving
\* whole replies in the socket or part of one in the result set, no result is
\* returned twice and none after a later one (step.c, sqlbox_step).  It ends with
\* the first frame given up when its basis had been read (io.c, realloc).
THEOREM NoneTwice == Spec => NeverTwice
<1>1. KeptInv /\ [Next]_vars =>
        [out' # out /\ out # Broken /\ out' # Broken =>
           torn \/ out'.run > out.run \/ (out'.run = out.run /\ out'.n > out.n)]_vars
  <2>1. ASSUME KeptInv, ~torn, [Next]_vars, out' # out, out # Broken, out' # Broken
        PROVE  out'.run > out.run \/ (out'.run = out.run /\ out'.n > out.n)
    <3>1. Before(out, out')
      BY <2>1, GivenInOrder
    <3>2. out.run \in Nat /\ out.n \in Nat /\ out'.run \in Nat /\ out'.n \in Nat
      <4>1. TypeOK /\ TypeOK'
        BY <2>1, NextKept DEF KeptInv
      <4>2. out \in Results /\ out' \in Results
        BY <4>1 DEF TypeOK
      <4>3. QED
        BY <4>2, ResultFields
    <3>3. QED
      BY <3>1, <3>2 DEF Before
  <2>2. QED
    BY <2>1
<1>2. QED
  BY <1>1, Kept, PTL DEF Spec, NeverTwice

-----------------------------------------------------------------------------
(* What the client holds. *)

\* The numbers the following lemmas calculate with.
LEMMA Numbers ==
  ASSUME TypeOK
  PROVE  /\ run \in Nat /\ srun \in Nat /\ pos \in Nat /\ curset \in Nat
         /\ out.run \in Nat /\ out.n \in Nat /\ RS!Given \in Nat
         /\ Len(cset) \in Nat /\ Len(sbuf) \in Nat /\ curset <= Len(cset)
         /\ \A i \in 1..Len(cset) : cset[i].n \in Nat
         /\ \A i \in 1..Len(sbuf) : sbuf[i].n \in Nat
<1>1. out.run \in Nat /\ out.n \in Nat
  BY ResultFields, TypeParts DEF DataOK
<1>2. RS!Given \in Nat
  BY <1>1 DEF RS!Given
<1>3. /\ \A i \in 1..Len(cset) : cset[i].n \in Nat
      /\ \A i \in 1..Len(sbuf) : sbuf[i].n \in Nat
  BY ElementOfSeq, ResultFields, TypeParts, Zenon DEF DataOK
<1>4. Len(cset) \in Nat /\ Len(sbuf) \in Nat
  BY LenProperties, TypeParts, Zenon DEF DataOK
<1>5. /\ run \in Nat /\ srun \in Nat /\ pos \in Nat
      /\ curset \in Nat /\ curset <= Len(cset)
  BY <1>4, BoundsAssumption, TypeParts DEF DataOK
<1>6. QED
  BY <1>1, <1>2, <1>3, <1>4, <1>5

\* The reply that arrives.
LEMMA ReplyArrives ==
  ASSUME TypeOK, CallInv, ReplyInv, NEW f, s2c # <<>>, f = Head(s2c)
  PROVE  /\ f \in Seq(Results) /\ f # <<>> /\ Len(f) \in Nat \ {0} /\ srun = run
         /\ Head(f) = f[1]
         /\ \A i \in 1..Len(f) : /\ f[i].run = run
                                 /\ f[i].n = RS!Given + i
                                 /\ f[i].last => i = Len(f)
         /\ RS!Given + Len(f) + Len(sbuf) = pos
         /\ ~RS!Ended
         /\ f[Len(f)].last <=> ended /\ sbuf = <<>>
<1>1. s2c \in Seq(Seq(Results))
  BY TypeParts, Zenon DEF DataOK
<1>2. f = s2c[1] /\ f \in Seq(Results)
  BY <1>1, HeadTailProperties
<1>3. f # <<>> /\ srun = run
  BY <1>2, Zenon DEF ReplyInv, CallInv
<1>4. Len(f) \in Nat \ {0} /\ Head(f) = f[1]
  BY <1>2, <1>3, EmptySeq
<1>5. QED
  BY <1>2, <1>3, <1>4, Zenon DEF ReplyInv

LEMMA HeldStep ==
  ASSUME TypeOK, PipeInv, CallInv, HeldInv, ReplyInv, Next, ClientMemory, ~torn
  PROVE  HeldInv'
<1> USE Numbers
<1>1. CASE StepCached
  <2>1. /\ curset < Len(cset) /\ out' = cset[curset + 1] /\ curset' = curset + 1
        /\ UNCHANGED <<cset, run, srun>>
    BY <1>1, Zenon DEF StepCached, sqlvars
  <2>2. curset + 1 \in 1..Len(cset) /\ cset # <<>>
    BY <2>1
  <2>3. srun = run /\ out'.run = run /\ out'.n + curset = out.n + (curset + 1)
    BY <2>1, <2>2, Zenon DEF HeldInv
  <2>4. out'.n = out.n + 1
    <3> DEFINE n == cset[curset + 1].n   m == out.n
    <3>1. /\ n \in Nat /\ m \in Nat /\ curset \in Nat /\ n + curset = m + (curset + 1)
      BY <2>1, <2>2, <2>3, Numbers, Zenon
    <3> HIDE DEF n, m
    <3>2. n = m + 1
      BY ONLY <3>1
    <3>3. QED
      BY <2>1, <3>2, Zenon DEF n, m
  <2>5. \A i \in 1..Len(cset) : cset[i].n + (curset + 1) = (out.n + 1) + i
    <3>1. \A i \in 1..Len(cset) : cset[i].n + curset = out.n + i
      BY Zenon DEF HeldInv
    <3>2. ASSUME NEW i \in 1..Len(cset) PROVE cset[i].n + (curset + 1) = (out.n + 1) + i
      <4>1. i \in Nat
        BY <3>2
      <4>2. /\ cset[i].n + curset = out.n + i /\ cset[i].n \in Nat
            /\ curset \in Nat /\ out.n \in Nat
        BY <3>1, <3>2, Numbers, Zenon
      <4> DEFINE n == cset[i].n   m == out.n
      <4>3. n \in Nat /\ m \in Nat /\ curset \in Nat /\ n + curset = m + i
        BY <4>2, Zenon
      <4> HIDE DEF n, m
      <4>4. n + (curset + 1) = (m + 1) + i
        BY ONLY <4>1, <4>3
      <4>5. QED
        BY <4>4 DEF n, m
    <3>3. QED
      BY <3>2
  <2>6. out'.run <= run' /\ ~(srun' < run') /\ curset' >= 1
    BY <2>1, <2>3
  <2>7. QED
    BY <2>1, <2>3, <2>4, <2>5, <2>6, Zenon DEF HeldInv
<1>2. CASE StepSend
  <2>1. cset' = <<>> /\ UNCHANGED <<out, run, srun>>
    BY <1>2, Zenon DEF StepSend, sqlvars
  <2>2. \A i \in 1..Len(cset') : FALSE
    BY <2>1
  <2>3. QED
    BY <2>1, <2>2, Zenon DEF HeldInv
<1>3. CASE StepRead
  <2> DEFINE f == Head(s2c)
  <2>1. /\ s2c # <<>> /\ cset' = f /\ curset' = 1 /\ out' = Head(f)
        /\ UNCHANGED <<run, srun>>
    BY <1>3, Zenon DEF StepRead, sqlvars
  <2> HIDE DEF f
  <2>2. /\ Len(f) \in Nat \ {0} /\ srun = run /\ Head(f) = f[1]
        /\ \A i \in 1..Len(f) : f[i].run = run /\ f[i].n = RS!Given + i
    BY <2>1, ReplyArrives, Zenon DEF f
  <2>3. \A i \in 1..Len(f) : f[i].last => i = Len(f)
    BY <2>1, ReplyArrives, Zenon DEF f
  <2>4. 1 \in 1..Len(f)
    BY <2>2
  <2>5. out'.run = run' /\ out'.n = RS!Given + 1
    BY <2>1, <2>2, <2>4
  <2>6. \A i \in 1..Len(f) : f[i].n + 1 = out'.n + i
    BY <2>2, <2>5
  <2>7. out'.run <= run' /\ ~(srun' < run') /\ curset' >= 1 /\ cset'[curset'] = out'
    BY <2>1, <2>2, <2>5
  <2>8. QED
    BY <2>1, <2>2, <2>3, <2>6, <2>7, Zenon DEF HeldInv
<1>4. CASE StepNoMemory \/ StepGarbled
  BY <1>4, NoMemory, Zenon
<1>5. CASE Rebind
  <2>1. cset' = <<>> /\ run' = run + 1 /\ UNCHANGED <<out, srun>>
    BY <1>5, Zenon DEF Rebind, sqlvars
  <2>2. out.run <= run
    BY Zenon DEF HeldInv
  <2>3. out'.run < run' /\ out'.run <= run' /\ \A i \in 1..Len(cset') : FALSE
    BY <2>1, <2>2
  <2>4. QED
    BY <2>1, <2>3, Zenon DEF HeldInv
<1>6. CASE OpRebind
  <2>1. Requested("rebind") /\ srun' = Head(c2s).run /\ UNCHANGED <<cset, curset, out, run>>
    BY <1>6, Zenon DEF OpRebind, clientvars
  <2>2. srun' = srun + 1 /\ srun < run
    BY <2>1, RebindNext
  <2>3. cset = <<>> /\ out.run < run
    BY <2>2 DEF HeldInv
  <2>4. \A i \in 1..Len(cset') : FALSE
    BY <2>1, <2>3
  <2>5. QED
    BY <2>1, <2>3, <2>4, Zenon DEF HeldInv
<1>7. CASE StepHangup \/ OpStepBuffered \/ OpStepSingle \/ Fetch \/ OpStepPastEnd \/ Die
  <2>1. UNCHANGED <<cset, curset, out, run, srun>>
    BY <1>7, Zenon DEF StepHangup, OpStepBuffered, OpStepSingle, Fetch, OpStepPastEnd, Die,
                       Shutdown, SqlStep, clientvars, sqlvars
  <2>2. QED
    BY <2>1, Zenon DEF HeldInv
<1>8. QED
  BY <1>1, <1>2, <1>3, <1>4, <1>5, <1>6, <1>7, Zenon DEF Next, Client, Server

-----------------------------------------------------------------------------
(* The reply in the socket. *)

\* When a step is waiting the client holds nothing and no reply is under way,
\* so that the server's buffer follows on what was returned.
LEMMA StepAwaited ==
  ASSUME TypeOK, PipeInv, CallInv, FrontInv, Requested("step")
  PROVE  /\ s2c = <<>> /\ cset = <<>> /\ srun = run
         /\ RS!Given + Len(sbuf) = pos
         /\ RS!Ended <=> ended /\ sbuf = <<>>
<1>1. StepSent /\ srun = run
  BY StepAlone, Zenon
<1>2. call = "reading" /\ s2c = <<>>
  <2>1. call \in {"idle", "reading"}
    BY TypeParts, Zenon DEF DataOK
  <2>2. QED
    BY <1>1, <2>1, Zenon DEF CallInv, StepSent
<1>3. cset = <<>>
  BY <1>2, Zenon DEF CallInv
<1>4. QED
  BY <1>1, <1>2, <1>3, Zenon DEF FrontInv, FrontN, FrontLast

LEMMA ReplyWas ==
  ASSUME NEW f, s2c'[1] = f, f # <<>>, ~RS!Ended', RS!Given' = RS!Given, run' = run,
         \A i \in 1..Len(f) : /\ f[i].run = run
                              /\ f[i].n = RS!Given + i
                              /\ f[i].last => i = Len(f),
         RS!Given + Len(f) + Len(sbuf') = pos',
         f[Len(f)].last <=> ended' /\ sbuf' = <<>>
  PROVE  ReplyInv'
BY Zenon DEF ReplyInv

LEMMA ReplyStep ==
  ASSUME TypeOK, PipeInv, CallInv, BufferInv, ReplyInv, FrontInv, Next, ClientMemory, ~torn
  PROVE  ReplyInv'
<1> USE Numbers
<1>1. ASSUME s2c' = <<>> PROVE ReplyInv'
  BY <1>1, Zenon DEF ReplyInv
<1>2. CASE StepCached \/ StepSend \/ StepHangup \/ Rebind
  <2>1. s2c' = <<>>
    BY <1>2, Zenon DEF StepCached, StepSend, StepHangup, Rebind, CallInv
  <2>2. QED
    BY <1>1, <2>1
<1>3. CASE StepRead
  <2>1. s2c # <<>> /\ s2c' = Tail(s2c) /\ Len(s2c) <= 1 /\ s2c \in Seq(Seq(Results))
    BY <1>3, TypeParts, Zenon DEF StepRead, CallInv, DataOK
  <2>2. s2c' = <<>>
    BY <2>1, EmptySeq, HeadTailProperties
  <2>3. QED
    BY <1>1, <2>2
<1>4. CASE StepNoMemory \/ StepGarbled
  BY <1>4, NoMemory, Zenon
<1>5. CASE OpStepBuffered
  <2>1. /\ Requested("step") /\ sbuf # <<>> /\ s2c' = Append(s2c, sbuf) /\ sbuf' = <<>>
        /\ UNCHANGED <<run, out, pos, ended>>
    BY <1>5, Zenon DEF OpStepBuffered, clientvars, sqlvars
  <2>2. s2c = <<>> /\ srun = run /\ RS!Given + Len(sbuf) = pos
    BY <2>1, StepAwaited, Zenon
  <2>3. ~RS!Ended
    BY <2>1, StepAwaited, Zenon
  <2>4. s2c'[1] = sbuf /\ Len(sbuf') = 0
    BY <2>1, <2>2
  <2>5. RS!Given' = RS!Given /\ (RS!Ended' <=> RS!Ended)
    BY <2>1, Zenon DEF RS!Given, RS!Ended
  <2>6. \A i \in 1..Len(sbuf) : sbuf[i].run = run /\ sbuf[i].n = RS!Given + i
    <3>1. ASSUME NEW i \in 1..Len(sbuf) PROVE sbuf[i].n = RS!Given + i
      <4>1. sbuf[i].n + Len(sbuf) = pos + i
        BY Zenon DEF BufferInv
      <4>2. /\ sbuf[i].n \in Nat /\ RS!Given \in Nat /\ Len(sbuf) \in Nat
            /\ pos = RS!Given + Len(sbuf)
        BY <2>2, Numbers, Zenon
      <4>3. i \in Nat
        OBVIOUS
      <4>4. sbuf[i].n + Len(sbuf) = (RS!Given + Len(sbuf)) + i
        BY <4>1, <4>2, Zenon
      <4> DEFINE n == sbuf[i].n   l == Len(sbuf)   g == RS!Given
      <4>5. n \in Nat /\ l \in Nat /\ g \in Nat /\ n + l = (g + l) + i
        BY <4>2, <4>4, Zenon
      <4> HIDE DEF n, l, g
      <4>6. n = g + i
        BY ONLY <4>3, <4>5
      <4>7. QED
        BY <4>6 DEF n, g
    <3>2. QED
      BY <2>2, <3>1, Zenon DEF BufferInv
  <2>7. \A i \in 1..Len(sbuf) : sbuf[i].last => i = Len(sbuf)
    BY Zenon DEF BufferInv
  <2>8. sbuf[Len(sbuf)].last <=> ended' /\ sbuf' = <<>>
    BY <2>1, Zenon DEF BufferInv
  <2>9. RS!Given + Len(sbuf) + Len(sbuf') = pos'
    BY <2>1, <2>2, <2>4
  <2>10. ~RS!Ended' /\ run' = run
    BY <2>1, <2>3, <2>5, Zenon
  <2>11. QED
    BY <2>1, <2>4, <2>5, <2>6, <2>7, <2>8, <2>9, <2>10, ReplyWas, Zenon
<1>6. CASE OpStepSingle
  <2>1. /\ Requested("step") /\ sbuf = <<>> /\ sbuf' = sbuf /\ ~sdone
        /\ s2c' = Append(s2c, <<Stepped>>) /\ UNCHANGED <<run, out>>
    BY <1>6, Zenon DEF OpStepSingle, clientvars
  <2>2. PICK last \in BOOLEAN : SqlStep(last)
    BY <1>6, Zenon DEF OpStepSingle
  <2>3. ~ended
    BY <2>1, Zenon DEF BufferInv
  <2>4. /\ pos' = pos + 1 /\ Stepped.run = srun /\ Stepped.n = pos + 1
        /\ Stepped.last <=> ended'
    BY <2>2, <2>3, SqlStepOn
  <2>5. s2c = <<>> /\ srun = run /\ RS!Given + Len(sbuf) = pos
    BY <2>1, StepAwaited, Zenon
  <2>6. ~RS!Ended
    BY <2>1, <2>3, StepAwaited, Zenon
  <2> DEFINE f == <<Stepped>>
  <2>7. s2c'[1] = f /\ Len(f) = 1 /\ f[1] = Stepped /\ f # <<>> /\ Len(sbuf) = 0
    BY <2>1, <2>5
  <2> HIDE DEF f
  <2>8. RS!Given' = RS!Given /\ (RS!Ended' <=> RS!Ended)
    BY <2>1, Zenon DEF RS!Given, RS!Ended
  <2>9. \A i \in 1..Len(f) : f[i].run = run /\ f[i].n = RS!Given + i /\ i = Len(f)
    BY <2>1, <2>4, <2>5, <2>7
  <2>10. RS!Given + Len(f) + Len(sbuf') = pos'
    BY <2>1, <2>4, <2>5, <2>7
  <2>11. f[Len(f)].last <=> ended' /\ sbuf' = <<>>
    BY <2>1, <2>4, <2>7, Zenon
  <2>12. ~RS!Ended' /\ run' = run
    BY <2>1, <2>6, <2>8, Zenon
  <2>13. QED
    BY <2>7, <2>8, <2>9, <2>10, <2>11, <2>12, ReplyWas, Zenon
<1>7. CASE Fetch
  <2>1. ~ended /\ sbuf' = Append(sbuf, Stepped) /\ UNCHANGED <<s2c, run, out>>
    BY <1>7, Zenon DEF Fetch, BufferInv, TypeOK, clientvars
  <2>2. PICK last \in BOOLEAN : SqlStep(last)
    BY <1>7, Zenon DEF Fetch
  <2>3. pos' = pos + 1 /\ Stepped \in Results
    BY <2>1, <2>2, SqlStepOn, SqlStepType
  <2>4. Len(sbuf') = Len(sbuf) + 1 /\ sbuf' # <<>>
    <3>1. sbuf \in Seq(Results) /\ sbuf' = Append(sbuf, Stepped)
      BY <2>1, TypeParts, Zenon DEF DataOK
    <3>2. QED
      BY ONLY <2>3, <3>1, AppendProperties
  <2>5. RS!Given' = RS!Given /\ (RS!Ended' <=> RS!Ended)
    BY <2>1, Zenon DEF RS!Given, RS!Ended
  <2>6. CASE s2c # <<>>
    <3> DEFINE f == Head(s2c)
    <3>1. /\ f # <<>> /\ RS!Given + Len(f) + Len(sbuf) = pos /\ Len(f) \in Nat \ {0}
      BY <2>6, ReplyArrives, Zenon
    <3>2. RS!Given + Len(f) + Len(sbuf') = pos'
      <4>1. RS!Given \in Nat /\ Len(sbuf) \in Nat
        BY Numbers, Zenon
      <4> HIDE DEF f
      <4>2. QED
        BY <2>3, <2>4, <3>1, <4>1
    <3>3. s2c'[1] = f
      BY <2>1, <2>6, TypeParts DEF DataOK
    <3>4. /\ \A i \in 1..Len(f) : /\ f[i].run = run
                                  /\ f[i].n = RS!Given + i
                                  /\ f[i].last => i = Len(f)
          /\ ~RS!Ended
          /\ ~f[Len(f)].last
      BY <2>1, <2>6, ReplyArrives, Zenon
    <3> HIDE DEF f
    <3>5. ~RS!Ended' /\ run' = run
      BY <2>1, <2>5, <3>4, Zenon
    <3>6. QED
      BY <2>4, <2>5, <3>1, <3>2, <3>3, <3>4, <3>5, ReplyWas, Zenon
  <2>7. QED
    BY <1>1, <2>1, <2>6
<1>8. CASE OpRebind
  <2>1. s2c' = <<>>
    BY <1>8, Zenon DEF OpRebind, Requested, CallInv, clientvars
  <2>2. QED
    BY <1>1, <2>1
<1>9. CASE OpStepPastEnd \/ Die
  <2>1. UNCHANGED <<s2c, run, out, sbuf, pos, ended>>
    BY <1>9, Zenon DEF OpStepPastEnd, Die, Shutdown, clientvars, sqlvars
  <2>2. QED
    BY <2>1, Zenon DEF ReplyInv, RS!Given, RS!Ended
<1>10. QED
  BY <1>2, <1>3, <1>4, <1>5, <1>6, <1>7, <1>8, <1>9, Zenon DEF Next, Client, Server

-----------------------------------------------------------------------------
(* The server's buffer follows on the client's. *)

LEMMA FrontStep ==
  ASSUME TypeOK, PipeInv, CallInv, HeldInv, BufferInv, ReplyInv, FrontInv, Next, ClientMemory, ~torn
  PROVE  FrontInv'
<1>1. CASE StepCached
  <2>1. curset < Len(cset) /\ UNCHANGED <<cset, s2c, run, srun, sbuf, pos, ended>>
    BY <1>1, Zenon DEF StepCached, servervars, sqlvars
  <2>2. cset # <<>>
    BY <2>1, Numbers
  <2>3. UNCHANGED <<FrontN, FrontLast>>
    BY <2>1, <2>2, Zenon DEF FrontN, FrontLast
  <2>4. QED
    BY <2>1, <2>3, Zenon DEF FrontInv
<1>2. CASE StepSend
  <2>1. /\ cset' = <<>> /\ curset = Len(cset)
        /\ UNCHANGED <<out, s2c, run, srun, sbuf, pos, ended>>
    BY <1>2, Zenon DEF StepSend, servervars, sqlvars
  <2>2. FrontN' = RS!Given /\ (FrontLast' <=> RS!Ended)
    BY <2>1, Zenon DEF FrontN, FrontLast, RS!Given, RS!Ended
  <2>3. CASE cset = <<>>
    BY <2>1, <2>2, <2>3, Zenon DEF FrontInv, FrontN, FrontLast
  <2>4. CASE cset # <<>>
    <3>1. curset >= 1 /\ cset[curset] = out
      BY <2>4, Zenon DEF HeldInv
    <3>2. curset \in 1..Len(cset)
      BY <2>1, <3>1, Numbers
    <3>3. out.run = run
      BY <3>1, <3>2, Zenon DEF HeldInv
    <3>4. FrontN = RS!Given /\ (FrontLast <=> RS!Ended)
      BY <2>1, <2>4, <3>1, <3>3, Zenon DEF FrontN, FrontLast, RS!Given, RS!Ended
    <3>5. QED
      BY <2>1, <2>2, <3>4, Zenon DEF FrontInv
  <2>5. QED
    BY <2>3, <2>4
<1>3. CASE StepRead
  <2> DEFINE f == Head(s2c)
  <2>1. s2c # <<>> /\ cset' = f /\ UNCHANGED <<run, sbuf, pos, ended>>
    BY <1>3, Zenon DEF StepRead, servervars, sqlvars
  <2> HIDE DEF f
  <2>2. /\ f # <<>> /\ Len(f) \in Nat \ {0}
        /\ \A i \in 1..Len(f) : f[i].n = RS!Given + i
        /\ RS!Given + Len(f) + Len(sbuf) = pos
    BY <2>1, ReplyArrives, Zenon DEF f
  <2>3. f[Len(f)].last <=> ended /\ sbuf = <<>>
    BY <2>1, ReplyArrives, Zenon DEF f
  <2>4. Len(f) \in 1..Len(f)
    BY <2>2
  <2>5. FrontN' = RS!Given + Len(f) /\ (FrontLast' <=> f[Len(f)].last)
    BY <2>1, <2>2, <2>4, Zenon DEF FrontN, FrontLast
  <2>6. QED
    BY <2>1, <2>2, <2>3, <2>5, Zenon DEF FrontInv
<1>4. CASE StepNoMemory \/ StepGarbled
  BY <1>4, NoMemory, Zenon
<1>5. CASE Rebind
  <2>1. run' = run + 1 /\ srun' = srun /\ srun <= run
    BY <1>5, Zenon DEF Rebind, PipeInv, sqlvars
  <2>2. srun' # run'
    BY <2>1, Numbers
  <2>3. QED
    BY <2>2, Zenon DEF FrontInv
<1>6. CASE OpStepBuffered \/ OpStepSingle
  <2>1. \E f : s2c' = Append(s2c, f)
    BY <1>6, Zenon DEF OpStepBuffered, OpStepSingle
  <2>2. s2c' # <<>>
    BY <2>1, TypeParts DEF DataOK
  <2>3. QED
    BY <2>2, Zenon DEF FrontInv
<1>7. CASE Fetch
  <2>1. /\ ~ended /\ sbuf' = Append(sbuf, Stepped)
        /\ UNCHANGED <<cset, out, s2c, run>>
    BY <1>7, Zenon DEF Fetch, BufferInv, TypeOK, clientvars
  <2>2. PICK last \in BOOLEAN : SqlStep(last)
    BY <1>7, Zenon DEF Fetch
  <2>3. pos' = pos + 1 /\ srun' = srun /\ Stepped \in Results
    BY <2>1, <2>2, SqlStepOn, SqlStepType
  <2>4. Len(sbuf') = Len(sbuf) + 1 /\ sbuf' # <<>>
    <3>1. sbuf \in Seq(Results) /\ sbuf' = Append(sbuf, Stepped)
      BY <2>1, TypeParts, Zenon DEF DataOK
    <3>2. QED
      BY ONLY <2>3, <3>1, AppendProperties
  <2>5. FrontN' = FrontN /\ (FrontLast' <=> FrontLast)
    BY <2>1, Zenon DEF FrontN, FrontLast, RS!Given, RS!Ended
  <2>6. ASSUME s2c' = <<>>, srun' = run'
        PROVE  FrontN' + Len(sbuf') = pos' /\ (FrontLast' <=> ended' /\ sbuf' = <<>>)
    <3>1. FrontN + Len(sbuf) = pos
      BY <2>1, <2>3, <2>6, Zenon DEF FrontInv
    <3>2. ~FrontLast
      BY <2>1, <2>3, <2>6, Zenon DEF FrontInv
    <3>3. FrontN \in Nat /\ Len(sbuf) \in Nat
      <4>1. CASE cset = <<>>
        BY <4>1, Numbers, Zenon DEF FrontN
      <4>2. CASE cset # <<>>
        <5>1. cset \in Seq(Results)
          BY TypeParts, Zenon DEF DataOK
        <5>2. Len(cset) \in 1..Len(cset)
          <6>1. Len(cset) \in Nat \ {0}
            BY <4>2, <5>1, EmptySeq, Zenon
          <6>2. QED
            BY ONLY <6>1
        <5>3. QED
          BY <4>2, <5>2, Numbers, Zenon DEF FrontN
      <4>3. QED
        BY <4>1, <4>2
    <3> DEFINE n == FrontN   l == Len(sbuf)
    <3>4. n \in Nat /\ l \in Nat /\ n + l = pos
      BY <3>1, <3>3, Zenon
    <3> HIDE DEF n, l
    <3>5. n + (l + 1) = pos + 1
      BY ONLY <3>4
    <3>6. FrontN' + Len(sbuf') = pos'
      BY <2>3, <2>4, <2>5, <3>5, Zenon DEF n, l
    <3>7. QED
      BY <2>4, <2>5, <3>2, <3>6, Zenon
  <2>7. QED
    BY <2>6, Zenon DEF FrontInv
<1>8. CASE OpRebind
  <2>1. /\ Requested("rebind") /\ pos' = 0 /\ ended' = FALSE /\ sbuf' = <<>>
        /\ UNCHANGED <<cset, out, run>>
    BY <1>8, Zenon DEF OpRebind, clientvars
  <2>2. srun < run /\ srun # run
    BY <2>1, RebindNext, Numbers
  <2>3. cset = <<>> /\ out.run < run
    BY <2>2, Numbers, Zenon DEF HeldInv
  <2>4. out.run # run
    BY <2>3, Numbers
  <2>5. FrontN' = 0 /\ ~FrontLast'
    BY <2>1, <2>3, <2>4, Zenon DEF FrontN, FrontLast, RS!Given, RS!Ended
  <2>6. 0 + Len(sbuf') = 0
    BY <2>1
  <2>7. QED
    BY <2>1, <2>5, <2>6, Zenon DEF FrontInv
<1>9. CASE StepHangup \/ OpStepPastEnd \/ Die
  <2>1. UNCHANGED <<cset, out, s2c, run, srun, sbuf, pos, ended>>
    BY <1>9, Zenon DEF StepHangup, OpStepPastEnd, Die, Shutdown, clientvars, servervars, sqlvars
  <2>2. QED
    BY <2>1, Zenon DEF FrontInv, FrontN, FrontLast, RS!Given, RS!Ended
<1>10. QED
  BY <1>1, <1>2, <1>3, <1>4, <1>5, <1>6, <1>7, <1>8, <1>9, Zenon DEF Next, Client, Server

-----------------------------------------------------------------------------
(* The invariant and what follows from it. *)

LEMMA NextIInv ==
  ASSUME IInv, KeptInv', [Next]_vars, ClientMemory
  PROVE  IInv'
<1>1. TypeOK' /\ BufferInv' /\ ~torn'
  BY NeverTorn, Zenon DEF KeptInv, IInv
<1>2. CASE Next
  <2>1. PipeInv' /\ CallInv' /\ HeldInv'
    BY <1>2, PipeStep, CallStep, HeldStep, Zenon DEF IInv
  <2>2. ReplyInv' /\ FrontInv'
    BY <1>2, ReplyStep, FrontStep, Zenon DEF IInv
  <2>3. QED
    BY <1>1, <2>1, <2>2, Zenon DEF IInv
<1>3. CASE UNCHANGED vars
  <2>1. UNCHANGED <<run, out, failed, call, cset, curset, torn, c2s, s2c, up, pc, sbuf, sdone,
                    multi, srun, pos, ended, execs>>
    BY <1>3, Zenon DEF vars, clientvars, servervars, sqlvars
  <2>2. PipeInv' /\ CallInv' /\ HeldInv'
    BY <2>1, Zenon DEF IInv, PipeInv, CallInv, HeldInv, StepSent
  <2>3. ReplyInv' /\ FrontInv'
    BY <2>1, Zenon DEF IInv, ReplyInv, FrontInv, FrontN, FrontLast, RS!Given, RS!Ended
  <2>4. QED
    BY <1>1, <2>2, <2>3, Zenon DEF IInv
<1>4. QED
  BY <1>2, <1>3

\* The inductive invariant holds as long as the client finds memory.
THEOREM Inductive == ASSUME ClientMemory PROVE Spec => []IInv
<1>1. Init => IInv
  BY InitIInv
<1>2. IInv /\ KeptInv' /\ [Next]_vars => IInv'
  BY NextIInv
<1>3. QED
  BY <1>1, <1>2, Kept, PTL DEF Spec

\* The reply in the socket is the one the client waits for (sqlbox_step).
THEOREM RepliesMatch == ASSUME ClientMemory PROVE Spec => []NoStrayReply
<1>1. IInv => NoStrayReply
  <2> SUFFICES ASSUME IInv PROVE NoStrayReply
    OBVIOUS
  <2>1. call \in {"idle", "reading"} /\ c2s \in Seq(Requests)
    BY TypeParts, Zenon DEF IInv, DataOK
  <2>2. (call = "idle" => s2c = <<>>) /\ Len(s2c) <= 1
    BY Zenon DEF IInv, CallInv
  <2>3. ASSUME NEW i \in DOMAIN c2s, c2s[i].op = "step"
        PROVE  i = Len(c2s) /\ call = "reading" /\ s2c = <<>>
    <3>1. i \in 1..Len(c2s)
      BY <2>1, <2>3, LenProperties, Zenon
    <3>2. i = Len(c2s)
      BY <2>3, <3>1, Zenon DEF IInv, PipeInv
    <3>3. c2s # <<>>
      BY <2>1, <3>1
    <3>4. StepSent
      BY <2>3, <3>2, <3>3, Zenon DEF StepSent
    <3>5. QED
      BY <2>1, <3>2, <3>3, <3>4, Zenon DEF IInv, CallInv
  <2>4. QED
    BY <2>2, <2>3, Zenon DEF NoStrayReply
<1>2. QED
  BY <1>1, Inductive, PTL

-----------------------------------------------------------------------------
(* BoxStep implements RowStream. *)

\* What the client returns from its result set is the next result.
LEMMA CachedIsNext ==
  ASSUME IInv, StepCached
  PROVE  RS!Next
<1>1. /\ call = "idle" /\ curset < Len(cset) /\ out' = cset[curset + 1]
      /\ UNCHANGED <<run, failed, cset>>
  BY Zenon DEF StepCached
<1>2. TypeOK /\ HeldInv
  BY Zenon DEF IInv
<1>3. /\ curset \in Nat /\ Len(cset) \in Nat /\ curset + 1 \in 1..Len(cset)
      /\ out.n \in Nat /\ curset # Len(cset)
  BY <1>1, <1>2, Numbers
<1>4. cset # <<>> /\ cset \in Seq(Results)
  BY <1>1, <1>2, TypeParts, EmptySeq DEF DataOK
<1>5. curset >= 1 /\ cset[curset] = out
  BY <1>2, <1>4, Zenon DEF HeldInv
<1>6. curset \in 1..Len(cset)
  BY <1>3, <1>5
<1>7. out.run = run /\ ~out.last /\ ~RS!Ended /\ RS!Given = out.n
  BY <1>2, <1>3, <1>5, <1>6, Zenon DEF HeldInv, RS!Ended, RS!Given
<1>8. ~failed
  BY <1>4, Zenon DEF IInv, CallInv
<1>9. out' \in Results /\ out'.run = run /\ out'.n = out.n + 1
  <2> DEFINE n == cset[curset + 1].n   m == out.n
  <2>1. n \in Nat /\ m \in Nat /\ n + curset = m + (curset + 1) /\ curset \in Nat
    BY <1>2, <1>3, Numbers, Zenon DEF HeldInv
  <2> HIDE DEF n, m
  <2>2. n = m + 1
    BY ONLY <2>1
  <2>3. cset[curset + 1].run = run
    BY <1>2, <1>3, Zenon DEF HeldInv
  <2>4. QED
    BY <1>1, <1>3, <1>4, <2>2, <2>3, ElementOfSeq, Zenon DEF n, m
<1>10. QED
  BY <1>1, <1>7, <1>8, <1>9, ResultIs, Zenon DEF RS!Next, RS!Step

\* The first result of a reply is the next result.
LEMMA ReadIsNext ==
  ASSUME IInv, StepRead
  PROVE  RS!Next
<1> DEFINE f == Head(s2c)
<1>1. call = "reading" /\ s2c # <<>> /\ out' = Head(f) /\ UNCHANGED <<run, failed>>
  BY Zenon DEF StepRead
<1>2. TypeOK /\ CallInv /\ ReplyInv
  BY Zenon DEF IInv
<1> HIDE DEF f
<1>3. /\ f \in Seq(Results) /\ Len(f) \in Nat \ {0} /\ Head(f) = f[1]
      /\ \A i \in 1..Len(f) : f[i].run = run /\ f[i].n = RS!Given + i
  BY <1>1, <1>2, ReplyArrives, Zenon DEF f
<1>4. ~RS!Ended
  BY <1>1, <1>2, ReplyArrives, Zenon DEF f
<1>5. 1 \in 1..Len(f)
  BY ONLY <1>3
<1>6. out' \in Results /\ out'.run = run /\ out'.n = RS!Given + 1
  BY <1>1, <1>3, <1>5, ElementOfSeq, Zenon
<1>7. ~failed
  <2>1. "reading" # "idle"
    OBVIOUS
  <2>2. QED
    BY <1>1, <1>2, <2>1, Zenon DEF CallInv
<1>8. QED
  BY <1>1, <1>4, <1>6, <1>7, ResultIs, Zenon DEF RS!Next, RS!Step

LEMMA StepImplements ==
  ASSUME IInv, [Next]_vars, ClientMemory
  PROVE  [RS!Next]_<<run, out, failed>>
<1>1. CASE StepCached
  BY <1>1, CachedIsNext
<1>2. CASE StepRead
  BY <1>2, ReadIsNext
<1>3. CASE StepSend \/ StepHangup
  <2>1. UNCHANGED <<run, out>> /\ (failed' = TRUE \/ failed' = failed)
    BY <1>3, Zenon DEF StepSend, StepHangup
  <2>2. QED
    BY <2>1, Zenon DEF RS!Next, RS!Fail
<1>4. CASE StepNoMemory \/ StepGarbled
  BY <1>4, NoMemory, Zenon DEF IInv
<1>5. CASE Rebind
  <2>1. run' = run + 1 /\ UNCHANGED <<out, failed>> /\ ~failed
    BY <1>5, Zenon DEF Rebind, IInv, CallInv
  <2>2. QED
    BY <2>1, Zenon DEF RS!Next, RS!Rebind
<1>6. CASE Server \/ Die \/ UNCHANGED vars
  <2>1. UNCHANGED clientvars
    BY <1>6, Zenon DEF Server, OpStepBuffered, OpStepSingle, Fetch, OpRebind, OpStepPastEnd,
                       Die, Shutdown, vars
  <2>2. QED
    BY <2>1, Zenon DEF clientvars
<1>7. QED
  BY <1>1, <1>2, <1>3, <1>4, <1>5, <1>6, Zenon DEF Next, Client

\* While the client finds memory, client, socket and server together are the
\* plain stream of results: sqlbox_step returns each result of the present
\* binding once and in order, whatever is fetched ahead, buffered on either
\* side or still under way when the statement is bound anew.
THEOREM StreamImplemented == ASSUME ClientMemory PROVE Spec => ImplementsRowStream
<1>1. Init => RS!Init
  BY Zenon DEF Init
<1>2. IInv /\ [Next]_vars => [RS!Next]_<<run, out, failed>>
  BY StepImplements
<1>3. IInv /\ [Next]_vars => [RS!Next]_RS!vars
  BY <1>2, Zenon DEF RS!vars
<1>4. QED
  BY <1>1, <1>3, Inductive, PTL DEF Spec, ImplementsRowStream, RS!Spec

-----------------------------------------------------------------------------
(* What brings every call to its end.                                      *)

\* A client in sqlbox_step and a server that receives never wait for each other:
\* a reply is there, or the request is the last in the pipe; and as no frame was
\* torn, that reply is all the client wants.
ReplyIsDue == call = "reading" /\ up /\ s2c = <<>> /\ ~torn => StepSent

LEMMA ReplyIsDueStep ==
  ASSUME TypeOK, ReplyIsDue, [Next]_vars
  PROVE  ReplyIsDue'
<1>1. /\ c2s \in Seq(Requests) /\ s2c \in Seq(Seq(Results))
      /\ call \in {"idle", "reading"} /\ "idle" # "reading"
  BY TypeParts DEF DataOK
<1>2. CASE StepCached \/ Rebind
  <2>1. call' # "reading"
    BY <1>1, <1>2 DEF StepCached, Rebind
  <2>2. QED
    BY <2>1 DEF ReplyIsDue
<1>3. CASE StepRead \/ StepHangup \/ StepNoMemory
  <2>1. call' = "idle"
    BY <1>3, NoMemory, Zenon DEF StepRead, StepHangup
  <2>2. QED
    BY <1>1, <2>1, Zenon DEF ReplyIsDue
<1>10. CASE StepGarbled
  BY <1>10, NoMemory, Zenon DEF ReplyIsDue
<1>4. CASE StepSend
  <2>1. CASE ~up
    <3>1. ~up'
      BY <1>4, <2>1 DEF StepSend, servervars
    <3>2. QED
      BY <3>1 DEF ReplyIsDue
  <2>2. CASE up
    <3>1. c2s' = Append(c2s, StepRequest)
      BY <1>4, <2>2, Zenon DEF StepSend
    <3>2. c2s' # <<>> /\ c2s'[Len(c2s')].op = "step"
      BY <1>1, <3>1 DEF StepRequest
    <3>3. QED
      BY <3>2 DEF ReplyIsDue, StepSent
  <2>3. QED
    BY <2>1, <2>2
<1>5. CASE OpStepBuffered \/ OpStepSingle
  <2>1. PICK reply : s2c' = Append(s2c, reply)
    BY <1>5 DEF OpStepBuffered, OpStepSingle
  <2>2. s2c' # <<>>
    BY <1>1, <2>1
  <2>3. QED
    BY <2>2 DEF ReplyIsDue
<1>6. CASE OpRebind
  <2>1. Requested("rebind") /\ c2s' = Tail(c2s) /\ UNCHANGED <<call, s2c, up>>
    BY <1>6, Zenon DEF OpRebind, Receive, clientvars
  <2>2. (StepSent' <=> StepSent) /\ (torn => torn')
    BY <2>1, RebindKeepsStep, StaysTorn
  <2>3. QED
    BY <2>1, <2>2, Zenon DEF ReplyIsDue
<1>7. CASE Fetch \/ UNCHANGED vars
  <2>1. UNCHANGED <<call, torn, s2c, up, c2s>>
    BY <1>7, Zenon DEF Fetch, vars, clientvars, servervars
  <2>2. QED
    BY <2>1, Zenon DEF ReplyIsDue, StepSent
<1>8. CASE OpStepPastEnd \/ Die
  <2>1. ~up'
    BY <1>8 DEF OpStepPastEnd, Die, Shutdown
  <2>2. QED
    BY <2>1 DEF ReplyIsDue
<1>9. QED
  BY <1>2, <1>3, <1>4, <1>5, <1>6, <1>7, <1>8, <1>10 DEF Next, Client, Server

\* Until a frame is torn nobody waits for a reply that is not to come, whatever
\* calls have failed for want of memory and however many replies they have left
\* in the socket (sqlbox_step).
THEOREM NobodyWaitsForNothing == Spec => []ReplyIsDue
<1>1. Init => ReplyIsDue
  BY DEF Init, ReplyIsDue
<1>2. KeptInv => TypeOK
  BY Zenon DEF KeptInv
<1>3. TypeOK /\ ReplyIsDue /\ [Next]_vars => ReplyIsDue'
  BY ReplyIsDueStep
<1>4. QED
  BY <1>1, <1>2, <1>3, Kept, PTL DEF Spec

\* A server that fetches ahead does not keep its client waiting for ever: each of
\* its steps takes a request from the pipe or SQLite one row on, of which there
\* are no more than the binding has.
Nearer ==
  \/ ~up'
  \/ Len(c2s') < Len(c2s)
  \/ c2s' = c2s /\ pos < pos' /\ pos' <= MaxRows + 1

\* Whatever the server has under way comes to an end (step.c, sqlbox_op_step).
THEOREM ServerComesNearer == Spec => [][Server => Nearer]_vars
<1>1. ASSUME KeptInv, [Next]_vars, Server PROVE Nearer
  <2>1. TypeOK /\ BufferInv /\ TypeOK' /\ c2s \in Seq(Requests)
    <3>1. TypeOK /\ BufferInv /\ TypeOK'
      BY <1>1, NextKept, Zenon DEF KeptInv
    <3>2. QED
      BY <3>1, TypeParts DEF DataOK
  <2>2. CASE OpStepBuffered \/ OpStepSingle \/ OpRebind
    <3>1. c2s # <<>> /\ c2s' = Tail(c2s)
      BY <2>2, Zenon DEF OpStepBuffered, OpStepSingle, OpRebind, Requested, Receive
    <3>2. Len(c2s') = Len(c2s) - 1 /\ Len(c2s) \in Nat
      BY <2>1, <3>1
    <3>3. PICK n \in Nat, m \in Int : n = Len(c2s) /\ m = Len(c2s') /\ m = n - 1
      BY <3>2
    <3>4. m < n
      BY <3>3
    <3>5. QED
      BY <3>3, <3>4, Zenon DEF Nearer
  <2>3. CASE Fetch
    <3>1. pc = "fetch" /\ c2s' = c2s
      BY <2>3, Zenon DEF Fetch
    <3>2. PICK last \in BOOLEAN : SqlStep(last)
      BY <2>3, Zenon DEF Fetch
    <3>3. ~ended
      BY <2>1, <3>1, Zenon DEF TypeOK, BufferInv
    <3>4. pos \in Nat /\ pos' = pos + 1
      BY <2>1, <3>2, <3>3, SqlStepOn
    <3>5. pos' \in 0..(MaxRows + 1) /\ MaxRows \in Nat
      BY <2>1, BoundsAssumption DEF TypeOK
    <3>6. pos < pos' /\ pos' <= MaxRows + 1
      BY <3>4, <3>5
    <3>7. QED
      BY <3>1, <3>6, Zenon DEF Nearer
  <2>4. CASE OpStepPastEnd
    BY <2>4 DEF OpStepPastEnd, Shutdown, Nearer
  <2>5. QED
    BY <1>1, <2>2, <2>3, <2>4 DEF Server
<1>2. KeptInv /\ [Next]_vars => [Server => Nearer]_vars
  BY <1>1
<1>3. QED
  BY <1>2, Kept, PTL DEF Spec
=============================================================================
