------------------------------ MODULE RoleHier ------------------------------
(***************************************************************************)
(* The builder of hierarchical roles (hier.c): a caller names the parents  *)
(* of roles, which of them are starts and sinks, and what each may do, in  *)
(* any order; sqlbox_role_hier_gen then turns the trees into the flat list *)
(* of transitions and permissions that the server checks requests against. *)
(*                                                                         *)
(* A call of the builder is one step.  The generator is one step per       *)
(* assignment of its loops that climb from a role to its root, and one for *)
(* each of its loops without a climb: it counts, allocates by the counts   *)
(* and then fills, and the climbs end only if there is a root to reach.    *)
(* Any allocation may fail.  Numbers of statements and sources are never   *)
(* checked by the builder and are names here.                              *)
(***************************************************************************)
EXTENDS Integers, Sequences, FiniteSets

CONSTANTS N,      \* how many roles the hierarchy was allocated with
          Perms   \* for each kind of permission, what there is to permit

Kinds == {"stmts", "srcs"}

ASSUME RolesAssumption == N \in Nat \ {0}
ASSUME PermsAssumption == DOMAIN Perms = Kinds

Permission == UNION {Perms[kind] : kind \in Kinds}

Role  == 0 .. N - 1
Index == 0 .. N      \* what a caller may pass: N stands for any invalid role

VARIABLES
  \* the hierarchy
  parent,    \* the parent of each role, itself if it has none
  sinks,     \* roles that every other may enter and none leaves
  starts,    \* roles that enter every other and none enters
  perms,     \* what each role was permitted, by kind
  \* sqlbox_role_hier_gen and the roles it generates
  pc,        \* the loop it is in, "idle" before and "done" after
  i, idx,    \* its loop variables: a role, and how far its climb has got
  room,      \* the length counted, then allocated, for the transitions of a role
  roles,     \* the transitions written
  granted    \* the permissions written, by kind

hier == <<parent, sinks, starts, perms>>
gen  == <<pc, i, idx, room, roles, granted>>
vars == <<parent, sinks, starts, perms, pc, i, idx, room, roles, granted>>

In(x, seq) == \E k \in DOMAIN seq : seq[k] = x

Nothing == [r \in Role |-> <<>>]

Init ==
  /\ parent = [r \in Role |-> r]
  /\ sinks = <<>> /\ starts = <<>>
  /\ perms = [kind \in Kinds |-> Nothing]
  /\ pc = "idle" /\ i = 0 /\ idx = 0
  /\ room = [r \in Role |-> 0]
  /\ roles = Nothing
  /\ granted = [kind \in Kinds |-> Nothing]

-----------------------------------------------------------------------------
(* Building the hierarchy.  A call that is refused, or that runs out of    *)
(* memory, changes nothing and is not a step.                              *)

IsParent(r) == \E c \in Role \ {r} : parent[c] = r

\* What a climb along the parents of r comes by, r included: the least set
\* that has r and, with a role, its parent.
Lineage(r) ==
  {a \in Role : \A S \in SUBSET Role :
                  r \in S /\ (\A x \in S : parent[x] \in S) => a \in S}

\* sqlbox_role_hier_stmt and sqlbox_role_hier_src
Permit(kind, r, x) ==
  /\ pc = "idle"
  /\ r < N
  /\ ~In(x, perms[kind][r])
  /\ perms' = [perms EXCEPT ![kind][r] = Append(@, x)]
  /\ UNCHANGED <<parent, sinks, starts, gen>>

\* Mistake: a role that has children may become a start.
SlipSetStart(r) ==
  /\ pc = "idle"
  /\ r < N
  /\ parent[r] = r
  /\ ~In(r, sinks) /\ ~In(r, starts)
  /\ starts' = Append(starts, r)
  /\ UNCHANGED <<parent, sinks, perms, gen>>

\* sqlbox_role_hier_start
SetStart(r) ==
  /\ pc = "idle"
  /\ r < N
  /\ parent[r] = r /\ ~IsParent(r)
  /\ ~In(r, sinks) /\ ~In(r, starts)
  /\ starts' = Append(starts, r)
  /\ UNCHANGED <<parent, sinks, perms, gen>>

\* Mistake: a start may become a sink as well.
SlipSetSink(r) ==
  /\ pc = "idle"
  /\ r < N
  /\ parent[r] = r /\ ~IsParent(r)
  /\ ~In(r, sinks)
  /\ sinks' = Append(sinks, r)
  /\ UNCHANGED <<parent, starts, perms, gen>>

\* sqlbox_role_hier_sink
SetSink(r) ==
  /\ pc = "idle"
  /\ r < N
  /\ parent[r] = r /\ ~IsParent(r)
  /\ ~In(r, starts) /\ ~In(r, sinks)
  /\ sinks' = Append(sinks, r)
  /\ UNCHANGED <<parent, starts, perms, gen>>

\* Mistake: the new parent's own ancestors are not looked at.
SlipSetChild(p, c) ==
  /\ pc = "idle"
  /\ p < N /\ c < N
  /\ parent[c] = c
  /\ \A r \in {p, c} : ~In(r, sinks) /\ ~In(r, starts)
  /\ c # p
  /\ parent' = [parent EXCEPT ![c] = p]
  /\ UNCHANGED <<sinks, starts, perms, gen>>

\* sqlbox_role_hier_child: the child must be a root, not above its parent
SetChild(p, c) ==
  /\ pc = "idle"
  /\ p < N /\ c < N
  /\ parent[c] = c
  /\ \A r \in {p, c} : ~In(r, sinks) /\ ~In(r, starts)
  /\ c # p
  /\ c \notin Lineage(p)
  /\ parent' = [parent EXCEPT ![c] = p]
  /\ UNCHANGED <<sinks, starts, perms, gen>>

-----------------------------------------------------------------------------
(* Generating the roles.                                                   *)

\* The result zeroed, as at the start and by sqlbox_role_hier_gen_free.
Zeroed ==
  /\ i' = 0 /\ idx' = 0
  /\ room' = [r \in Role |-> 0]
  /\ roles' = Nothing
  /\ granted' = [kind \in Kinds |-> Nothing]

Gen(defrole) ==
  /\ pc = "idle"
  /\ defrole < N
  /\ pc' = "count"
  /\ Zeroed
  /\ UNCHANGED hier

AtRoot == parent[idx] = idx

\* A loop goes on with the next role, or the generator with the next loop.
NextRole(loop) ==
  IF i + 1 < N THEN i' = i + 1 /\ idx' = i + 1 /\ UNCHANGED pc
               ELSE i' = 0 /\ idx' = 0 /\ pc' = loop

\* Count every role once for each of its ancestors.
Count ==
  /\ pc = "count"
  /\ IF AtRoot
     THEN NextRole("reserve") /\ UNCHANGED room
     ELSE /\ room' = [room EXCEPT ![parent[idx]] = @ + 1]
          /\ idx' = parent[idx]
          /\ UNCHANGED <<pc, i>>
  /\ UNCHANGED <<hier, roles, granted>>

\* Mistake: no room for the sinks in the transitions of a start.
SlipSize(r) ==
  IF In(r, sinks) THEN room[r]
  ELSE IF In(r, starts) THEN N - Len(starts) - Len(sinks) ELSE room[r] + Len(sinks)

\* What is allocated for each role; starts were counted nothing so far.
Size(r) ==
  IF In(r, sinks) THEN room[r]
  ELSE (IF In(r, starts) THEN N - Len(starts) - Len(sinks) ELSE room[r]) + Len(sinks)

Reserve ==
  /\ pc = "reserve"
  /\ room' = [r \in Role |-> Size(r)]
  /\ pc' = "children"
  /\ UNCHANGED <<hier, i, idx, roles, granted>>

\* Every ancestor may change into role i.
Children ==
  /\ pc = "children"
  /\ IF AtRoot
     THEN NextRole("sinks") /\ UNCHANGED roles
     ELSE /\ roles' = [roles EXCEPT ![parent[idx]] = Append(@, i)]
          /\ idx' = parent[idx]
          /\ UNCHANGED <<pc, i>>
  /\ UNCHANGED <<hier, room, granted>>

\* Mistake: sinks lead into sinks.
SlipIntoSinks ==
  /\ pc = "sinks"
  /\ roles' = [r \in Role |-> roles[r] \o sinks]
  /\ pc' = "starts"
  /\ UNCHANGED <<hier, i, idx, room, granted>>

IntoSinks ==
  /\ pc = "sinks"
  /\ roles' = [r \in Role |-> IF In(r, sinks) THEN roles[r] ELSE roles[r] \o sinks]
  /\ pc' = "starts"
  /\ UNCHANGED <<hier, i, idx, room, granted>>

Inner(r) == ~In(r, starts) /\ ~In(r, sinks)

\* Here i counts the starts and idx the roles.
OutOfStarts ==
  /\ pc = "starts"
  /\ IF i = Len(starts)
     THEN /\ pc' = "inherit" /\ i' = 0 /\ idx' = 0
          /\ UNCHANGED roles
     ELSE /\ roles' = IF Inner(idx) THEN [roles EXCEPT ![starts[i + 1]] = Append(@, idx)]
                                   ELSE roles
          /\ IF idx + 1 < N THEN idx' = idx + 1 /\ UNCHANGED i
                            ELSE idx' = 0 /\ i' = i + 1
          /\ UNCHANGED pc
  /\ UNCHANGED <<hier, room, granted>>

\* Which permissions of the role reached by the climb role i does not have yet.
Missing(kind) ==
  {k \in DOMAIN perms[kind][idx] : ~In(perms[kind][idx][k], granted[kind][i])}

\* Statements come before sources.
InheritOne(kind) ==
  /\ pc = "inherit"
  /\ kind = "srcs" => Missing("stmts") = {}
  /\ \E k \in Missing(kind) :
       /\ \A l \in Missing(kind) : k <= l
       /\ granted' = [granted EXCEPT ![kind][i] = Append(@, perms[kind][idx][k])]
  /\ UNCHANGED <<hier, pc, i, idx, room, roles>>

\* Mistake: a role takes over from its parent and no further.
SlipInheritUp ==
  /\ pc = "inherit"
  /\ \A kind \in Kinds : Missing(kind) = {}
  /\ IF AtRoot \/ idx # i THEN NextRole("done")
                        ELSE idx' = parent[idx] /\ UNCHANGED <<pc, i>>
  /\ UNCHANGED <<hier, room, roles, granted>>

\* Mistake: looks for the root at the role, not at the ancestor reached.
SlipInheritRoot ==
  /\ pc = "inherit"
  /\ \A kind \in Kinds : Missing(kind) = {}
  /\ IF parent[i] = i THEN NextRole("done") ELSE idx' = parent[idx] /\ UNCHANGED <<pc, i>>
  /\ UNCHANGED <<hier, room, roles, granted>>

InheritUp ==
  /\ pc = "inherit"
  /\ \A kind \in Kinds : Missing(kind) = {}
  /\ IF AtRoot THEN NextRole("done") ELSE idx' = parent[idx] /\ UNCHANGED <<pc, i>>
  /\ UNCHANGED <<hier, room, roles, granted>>

\* Memory runs out where the generator allocates: all of it is freed.
GenFails ==
  /\ \/ pc = "reserve" /\ \E r \in Role : Size(r) > 0
     \/ pc = "inherit" /\ \E kind \in Kinds : Missing(kind) # {}
  /\ pc' = "idle"
  /\ Zeroed
  /\ UNCHANGED hier

\* sqlbox_role_hier_gen_free, or the caller has passed the roles on
GenFree ==
  /\ pc = "done"
  /\ pc' = "idle"
  /\ Zeroed
  /\ UNCHANGED hier

-----------------------------------------------------------------------------
Build ==
  \/ \E kind \in Kinds, r \in Index : \E x \in Perms[kind] : Permit(kind, r, x)
  \/ \E r \in Index : SetStart(r) \/ SetSink(r)
  \/ \E p, c \in Index : SetChild(p, c)

Generate ==
  \/ Count \/ Reserve \/ Children \/ IntoSinks \/ OutOfStarts
  \/ (\E kind \in Kinds : InheritOne(kind)) \/ InheritUp
  \/ GenFails

Next == Build \/ (\E d \in Index : Gen(d)) \/ Generate \/ GenFree

Spec == Init /\ [][Next]_vars

\* The generator runs to its end once called; nobody has to build or call it.
FairSpec == Spec /\ WF_vars(Generate)

-----------------------------------------------------------------------------
Elements(seq) == {seq[k] : k \in DOMAIN seq}
NoRepeats(seq) == \A j, k \in DOMAIN seq : seq[j] = seq[k] => j = k

TypeOK ==
  /\ parent \in [Role -> Role]
  /\ sinks \in Seq(Role) /\ starts \in Seq(Role)
  /\ perms \in [Kinds -> [Role -> Seq(Permission)]]
  /\ pc \in {"idle", "count", "reserve", "children", "sinks", "starts", "inherit", "done"}
  /\ IF pc = "starts" THEN i \in 0 .. Len(starts) ELSE i \in Role
  /\ idx \in Role
  /\ room \in [Role -> Int]
  /\ roles \in [Role -> Seq(Role)]
  /\ granted \in [Kinds -> [Role -> Seq(Permission)]]

\* In whatever order the edges came, no roles are one another's ancestors all
\* the way round: any group of roles has a member that is a root or whose parent
\* is outside.  "We're guaranteed that we have a set of DAGs" (hier.c:285).
Forest ==
  \A S \in SUBSET Role :
    S # {} => \E r \in S : parent[r] = r \/ parent[r] \notin S

\* Starts and sinks stay apart from one another and from the trees, whatever is
\* called after they were set, and none is listed twice.
EndsStandAlone ==
  /\ NoRepeats(starts) /\ NoRepeats(sinks)
  /\ Elements(starts) \cap Elements(sinks) = {}
  /\ \A r \in Elements(starts) \cup Elements(sinks) : parent[r] = r /\ ~IsParent(r)

\* The assertions of the generator (hier.c:345 and 355): the climbs have counted
\* no transition out of a start or a sink.
NothingCountedForEnds ==
  pc = "reserve" => \A r \in Role : In(r, starts) \/ In(r, sinks) => room[r] = 0

\* The loops that fill a role's transitions never write past what the first pass
\* made room for, and in the end fill all of it.
RoomSuffices ==
  /\ pc \notin {"count", "reserve"} => \A r \in Role : Len(roles[r]) <= room[r]
  /\ pc = "done" => \A r \in Role : Len(roles[r]) = room[r]

\* What the manual promises (sqlbox_role_hier_alloc.3): a role may change down
\* the tree and into sinks, a start into all but starts, a sink into nothing; it
\* is permitted what it or an ancestor was.
MayEnter(r) ==
  IF In(r, sinks) THEN {}
  ELSE IF In(r, starts) THEN Role \ Elements(starts)
  ELSE {d \in Role \ {r} : r \in Lineage(d)} \cup Elements(sinks)

MayUse(kind, r) == UNION {Elements(perms[kind][a]) : a \in Lineage(r)}

\* At no point does the generator write a transition or a permission that the
\* manual does not promise.
NothingExtra ==
  /\ \A r \in Role : Elements(roles[r]) \subseteq MayEnter(r)
  /\ \A kind \in Kinds, r \in Role : Elements(granted[kind][r]) \subseteq MayUse(kind, r)

\* In the end all those transitions and permissions are there, each once.
NothingMissing ==
  pc = "done" =>
    \A r \in Role :
      /\ MayEnter(r) \subseteq Elements(roles[r]) /\ NoRepeats(roles[r])
      /\ \A kind \in Kinds :
           MayUse(kind, r) \subseteq Elements(granted[kind][r]) /\ NoRepeats(granted[kind][r])

\* The generator returns: every climb along the parents comes to an end.
GenReturns == pc \notin {"idle", "done"} ~> pc \in {"idle", "done"}

=============================================================================
