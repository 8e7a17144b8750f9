--------------------------- MODULE RoleHierProofs ---------------------------
(***************************************************************************)
(* What RoleHier's run shows for four roles, for any number of roles and   *)
(* any permissions: the trees stay trees, starts and sinks stay apart, and *)
(* the generator writes every transition and permission that the manual    *)
(* promises, no other, and fills exactly the room that it allocated.  Each *)
(* of its steps takes it further, to the next loop, role or ancestor; that *)
(* it therefore comes to an end stays with TLC.                            *)
(***************************************************************************)
EXTENDS RoleHier, SequenceTheorems, FiniteSetTheorems, TLAPS

-----------------------------------------------------------------------------
(* Climbing from a role to its ancestors.                                  *)

\* A set of roles that has the parent of each of its roles.
Closed(S) == \A x \in S : parent[x] \in S

LEMMA LineageDef ==
  ASSUME NEW r \in Role, NEW a \in Role
  PROVE  a \in Lineage(r) <=> \A S \in SUBSET Role : r \in S /\ Closed(S) => a \in S
  BY DEF Lineage, Closed

LEMMA LineageSelf ==
  ASSUME NEW r \in Role
  PROVE  r \in Lineage(r)
  BY DEF Lineage

LEMMA LineageUp ==
  ASSUME parent \in [Role -> Role], NEW r \in Role, NEW a \in Lineage(r)
  PROVE  a \in Role /\ parent[a] \in Lineage(r)
  <1>1. a \in Role
    BY DEF Lineage
  <1>2. parent[a] \in Role
    BY <1>1
  <1>3. ASSUME NEW S \in SUBSET Role, r \in S, Closed(S)
        PROVE  parent[a] \in S
    <2>1. a \in S
      BY <1>1, <1>3, LineageDef
    <2> QED BY <2>1, <1>3 DEF Closed
  <1> QED BY <1>1, <1>2, <1>3, LineageDef

LEMMA LineageLeast ==
  ASSUME NEW r \in Role, NEW S \in SUBSET Role, r \in S, Closed(S)
  PROVE  Lineage(r) \subseteq S
  BY DEF Lineage, Closed

\* The lineage of a role is the role and the lineage of its parent.
LEMMA LineageStep ==
  ASSUME parent \in [Role -> Role], NEW r \in Role, NEW a \in Lineage(r), a # r
  PROVE  a \in Lineage(parent[r])
  <1> DEFINE S == {r} \cup Lineage(parent[r])
  <1>1. parent[r] \in Role
    OBVIOUS
  <1>2. S \in SUBSET Role
    BY DEF Lineage
  <1>3. Closed(S)
    <2>1. parent[r] \in S
      BY <1>1, LineageSelf
    <2>2. ASSUME NEW x \in Lineage(parent[r])
          PROVE  parent[x] \in S
      BY <1>1, LineageUp
    <2> QED BY <2>1, <2>2 DEF Closed
  <1>4. a \in S
    BY <1>2, <1>3, LineageLeast
  <1> QED BY <1>4

LEMMA LineageOfRoot ==
  ASSUME NEW r \in Role, parent[r] = r
  PROVE  Lineage(r) = {r}
  <1>1. Closed({r})
    BY DEF Closed
  <1>2. Lineage(r) \subseteq {r}
    BY <1>1, LineageLeast
  <1> QED BY <1>2, LineageSelf

\* In a forest no climb comes back to where it started.
LEMMA NoReturn ==
  ASSUME parent \in [Role -> Role], Forest,
         NEW r \in Role, NEW a \in Lineage(r), parent[a] # a
  PROVE  parent[a] # r
  <1> SUFFICES ASSUME parent[a] = r PROVE FALSE
    OBVIOUS
  <1> DEFINE S == {x \in Lineage(r) : r \in Lineage(x)}
  <1>1. S \in SUBSET Role /\ r \in S
    BY LineageSelf DEF Lineage
  <1>2. ASSUME NEW x \in S
        PROVE  parent[x] # x /\ parent[x] \in S
    <2>1. x \in Role /\ parent[x] \in Lineage(r)
      BY LineageUp
    <2>2. CASE x = r
      <3>1. a # r
        BY <2>2
      <3>2. a \in Lineage(parent[r])
        BY <3>1, LineageStep
      <3>3. parent[r] # r
        BY <3>1, LineageOfRoot
      <3>4. r \in Lineage(parent[r])
        BY <3>2, LineageUp
      <3> QED BY <2>1, <2>2, <3>3, <3>4
    <2>3. CASE x # r
      <3>1. parent[x] # x
        BY <2>1, <2>3, LineageOfRoot
      <3>2. r \in Lineage(parent[x])
        BY <2>1, <2>3, LineageStep
      <3> QED BY <2>1, <3>1, <3>2
    <2> QED BY <2>2, <2>3
  <1> QED BY <1>1, <1>2 DEF Forest

-----------------------------------------------------------------------------
(* The inductive invariant.                                                *)

\* A climb has come to an ancestor of the role it began with, and every loop
\* begins with the first role.
Climbing ==
  /\ pc \in {"count", "children", "inherit"} => idx \in Lineage(i)
  /\ pc \in {"reserve", "sinks"} => i = 0 /\ idx = 0

\* Only parents are counted transitions.
Counted == pc \in {"count", "reserve"} => \A r \in Role : room[r] # 0 => IsParent(r)

\* Nothing is generated while the hierarchy is being built.
Fresh == pc = "idle" => roles = Nothing /\ granted = [kind \in Kinds |-> Nothing]

IInv ==
  /\ TypeOK
  /\ Forest
  /\ EndsStandAlone
  /\ Climbing
  /\ Counted
  /\ Fresh
  /\ NothingExtra

LEMMA ZeroRole == 0 \in Role
  BY RolesAssumption DEF Role

LEMMA InitIInv == Init => IInv
  <1> SUFFICES ASSUME Init PROVE IInv
    OBVIOUS
  <1>1. TypeOK
    BY ZeroRole DEF Init, TypeOK, Nothing
  <1>2. Forest /\ EndsStandAlone
    BY DEF Init, Forest, EndsStandAlone, NoRepeats, Elements
  <1>3. Climbing /\ Counted /\ Fresh
    BY DEF Init, Climbing, Counted, Fresh
  <1>4. NothingExtra
    BY DEF Init, NothingExtra, Nothing, Elements
  <1> QED BY <1>1, <1>2, <1>3, <1>4 DEF IInv

-----------------------------------------------------------------------------
(* Types.                                                                  *)

LEMMA NextRoleType ==
  ASSUME NEW loop, i \in Role, NextRole(loop)
  PROVE  idx' = i' /\ i' \in Role /\ (pc' = pc \/ (pc' = loop /\ i' = 0))
  <1>1. CASE i + 1 < N
    <2>1. i + 1 \in Role
      BY ONLY <1>1, i \in Role, RolesAssumption DEF Role
    <2>2. i' = i + 1 /\ idx' = i + 1 /\ pc' = pc
      BY <1>1 DEF NextRole
    <2> QED BY ONLY <2>1, <2>2
  <1>2. CASE ~(i + 1 < N)
    BY ONLY <1>2, ZeroRole, NextRole(loop) DEF NextRole
  <1> QED BY <1>1, <1>2

LEMMA ClimbType ==
  ASSUME parent \in [Role -> Role], idx \in Role
  PROVE  parent[idx] \in Role
  OBVIOUS

LEMMA IndexRole ==
  ASSUME NEW r \in Index, r < N
  PROVE  r \in Role
  BY RolesAssumption DEF Role, Index

LEMMA AppendAt ==
  ASSUME NEW D, NEW T, NEW f \in [D -> Seq(T)], NEW d \in D, NEW x \in T
  PROVE  [f EXCEPT ![d] = Append(@, x)] \in [D -> Seq(T)]
  <1>1. Append(f[d], x) \in Seq(T)
    BY AppendProperties
  <1> QED BY <1>1

LEMMA TypeInductive == TypeOK /\ Climbing /\ [Next]_vars => TypeOK'
  <1> SUFFICES ASSUME TypeOK, Climbing, [Next]_vars PROVE TypeOK'
    OBVIOUS
  <1> USE DEF TypeOK
  <1>1. ASSUME NEW kind \in Kinds, NEW r \in Index, NEW x \in Perms[kind], Permit(kind, r, x)
        PROVE  TypeOK'
    <2>1. r \in Role /\ x \in Permission
      BY <1>1, IndexRole DEF Permit, Permission
    <2>2. [perms[kind] EXCEPT ![r] = Append(@, x)] \in [Role -> Seq(Permission)]
      BY <2>1, AppendAt
    <2>3. perms' \in [Kinds -> [Role -> Seq(Permission)]]
      BY <1>1, <2>2 DEF Permit
    <2> QED BY <1>1, <2>3 DEF Permit, gen
  <1>2. ASSUME NEW r \in Index, SetStart(r) \/ SetSink(r)
        PROVE  TypeOK'
    <2>1. r \in Role
      BY <1>2, IndexRole DEF SetStart, SetSink
    <2>2. pc = "idle" /\ UNCHANGED <<parent, perms, gen>>
      BY <1>2 DEF SetStart, SetSink
    <2>3. Append(starts, r) \in Seq(Role) /\ Append(sinks, r) \in Seq(Role)
      BY <2>1, AppendProperties
    <2>4. starts' \in Seq(Role) /\ sinks' \in Seq(Role)
      BY <1>2, <2>3 DEF SetStart, SetSink
    <2> QED BY <2>2, <2>4 DEF gen
  <1>3. ASSUME NEW p \in Index, NEW c \in Index, SetChild(p, c)
        PROVE  TypeOK'
    <2>1. p \in Role /\ c \in Role
      BY <1>3, IndexRole DEF SetChild
    <2> QED BY <1>3, <2>1 DEF SetChild, gen
  <1>4. ASSUME Zeroed, UNCHANGED hier, pc' \in {"idle", "count"}
        PROVE  TypeOK'
    BY <1>4, ZeroRole DEF Zeroed, hier, Nothing
  <1>5. CASE Count
    <2>1. CASE AtRoot
      BY <1>5, <2>1, NextRoleType DEF Count, hier
    <2>2. CASE ~AtRoot
      BY <1>5, <2>2, ClimbType DEF Count, hier
    <2> QED BY <2>1, <2>2
  <1>6. CASE Reserve
    <2>1. \A r \in Role : Size(r) \in Int
      BY RolesAssumption DEF Size
    <2> QED BY <1>6, <2>1 DEF Reserve, hier
  <1>7. CASE Children
    <2>1. CASE AtRoot
      BY <1>7, <2>1, NextRoleType DEF Children, hier
    <2>2. CASE ~AtRoot
      <3>1. parent[idx] \in Role /\ i \in Role
        BY <1>7, ClimbType DEF Children
      <3>2. [roles EXCEPT ![parent[idx]] = Append(@, i)] \in [Role -> Seq(Role)]
        BY <3>1, AppendAt
      <3>3. roles' \in [Role -> Seq(Role)]
        BY <1>7, <2>2, <3>2 DEF Children
      <3> QED BY <1>7, <2>2, <3>1, <3>3 DEF Children, hier
    <2> QED BY <2>1, <2>2
  <1>8. CASE IntoSinks
    <2>1. \A r \in Role : roles[r] \o sinks \in Seq(Role)
      BY ConcatProperties
    <2>2. roles' \in [Role -> Seq(Role)]
      BY <1>8, <2>1 DEF IntoSinks
    <2>3. pc' = "starts" /\ i' = i /\ idx' = idx /\ UNCHANGED <<hier, room, granted>>
      BY <1>8 DEF IntoSinks
    <2>4. i \in 0 .. Len(starts)
      BY <1>8 DEF IntoSinks, Climbing
    <2> QED BY <2>2, <2>3, <2>4 DEF hier
  <1>9. CASE OutOfStarts
    <2>1. CASE i = Len(starts)
      BY <1>9, <2>1, ZeroRole DEF OutOfStarts, hier
    <2>2. CASE i # Len(starts)
      <3>1. i' \in 0 .. Len(starts) /\ idx' \in Role
        <4>1. i \in 0 .. Len(starts) /\ Len(starts) \in Nat
          BY <1>9, LenProperties DEF OutOfStarts
        <4>2. CASE idx + 1 < N
          <5>1. idx + 1 \in Role
            BY ONLY <4>2, idx \in Role, RolesAssumption DEF Role
          <5> QED BY <1>9, <2>2, <4>1, <4>2, <5>1 DEF OutOfStarts
        <4>3. CASE ~(idx + 1 < N)
          <5>1. i' = i + 1 /\ idx' = 0
            BY <1>9, <2>2, <4>3 DEF OutOfStarts
          <5>2. i + 1 \in 0 .. Len(starts)
            BY ONLY <4>1, <2>2
          <5> QED BY <5>1, <5>2, ZeroRole
        <4> QED BY <4>2, <4>3
      <3>2. starts[i + 1] \in Role
        BY <1>9, <2>2, LenProperties DEF OutOfStarts
      <3>3. [roles EXCEPT ![starts[i + 1]] = Append(@, idx)] \in [Role -> Seq(Role)]
        BY <3>2, AppendAt
      <3>4. roles' \in [Role -> Seq(Role)]
        BY <1>9, <2>2, <3>3 DEF OutOfStarts
      <3> QED BY <1>9, <2>2, <3>1, <3>4 DEF OutOfStarts, hier
    <2> QED BY <2>1, <2>2
  <1>10. ASSUME NEW kind \in Kinds, InheritOne(kind)
         PROVE  TypeOK'
    <2>1. PICK k \in Missing(kind) :
            granted' = [granted EXCEPT ![kind][i] = Append(@, perms[kind][idx][k])]
      BY <1>10 DEF InheritOne
    <2>2. perms[kind][idx][k] \in Permission
      BY <1>10 DEF InheritOne, Missing
    <2> QED BY <1>10, <2>1, <2>2 DEF InheritOne, hier
  <1>11. CASE InheritUp
    <2>1. CASE AtRoot
      BY <1>11, <2>1, NextRoleType DEF InheritUp, hier
    <2>2. CASE ~AtRoot
      BY <1>11, <2>2, ClimbType DEF InheritUp, hier
    <2> QED BY <2>1, <2>2
  <1>12. CASE UNCHANGED vars
    BY <1>12 DEF vars
  <1> QED BY <1>1, <1>2, <1>3, <1>4, <1>5, <1>6, <1>7, <1>8, <1>9, <1>10, <1>11, <1>12
          DEF Next, Build, Generate, Gen, GenFails, GenFree

-----------------------------------------------------------------------------
(* The hierarchy.                                                          *)

\* Only the calls that build change the hierarchy, and they find nothing generated.
LEMMA HierSteps ==
  ASSUME [Next]_vars
  PROVE  \/ UNCHANGED hier
         \/ Build
  BY DEF Next, Generate, Gen, Count, Reserve, Children, IntoSinks, OutOfStarts,
         InheritOne, InheritUp, GenFails, GenFree, vars, hier

LEMMA BuildIdle == Build => pc = "idle" /\ UNCHANGED gen
  BY DEF Build, Permit, SetStart, SetSink, SetChild

\* A child that its parent does not descend from closes no cycle: what its parent
\* descends from is on one side, the child and its descendants on the other.
LEMMA ForestInductive == TypeOK /\ Forest /\ [Next]_vars => Forest'
  <1> SUFFICES ASSUME TypeOK, Forest, [Next]_vars PROVE Forest'
    OBVIOUS
  <1>1. ASSUME NEW p \in Index, NEW c \in Index, SetChild(p, c)
        PROVE  Forest'
    <2>1. /\ p \in Role /\ c \in Role /\ c # p
          /\ c \notin Lineage(p)
          /\ parent' = [parent EXCEPT ![c] = p]
      BY <1>1, IndexRole DEF SetChild
    <2>2. PICK A \in SUBSET Role : p \in A /\ Closed(A) /\ c \notin A
      BY <2>1, LineageDef
    <2>3. /\ parent \in [Role -> Role]
          /\ parent'[c] = p
          /\ \A r \in Role \ {c} : parent'[r] = parent[r]
      BY <2>1 DEF TypeOK
    <2>4. ASSUME NEW S \in SUBSET Role, S # {}
          PROVE  \E r \in S : parent'[r] = r \/ parent'[r] \notin S
      <3>1. CASE S \cap A # {}
        <4>1. PICK r \in S \cap A : parent[r] = r \/ parent[r] \notin S \cap A
          BY <3>1 DEF Forest
        <4>2. parent[r] \in A /\ parent'[r] = parent[r]
          BY <2>2, <2>3 DEF Closed
        <4> QED BY <4>1, <4>2
      <3>2. CASE S \cap A = {} /\ c \in S
        BY <3>2, <2>2, <2>3
      <3>3. CASE c \notin S
        <4>1. PICK r \in S : parent[r] = r \/ parent[r] \notin S
          BY <2>4 DEF Forest
        <4> QED BY <4>1, <2>3, <3>3
      <3> QED BY <3>1, <3>2, <3>3
    <2> QED BY <2>4 DEF Forest
  <1>2. CASE UNCHANGED parent
    BY <1>2 DEF Forest
  <1>3. Build => UNCHANGED parent \/ \E p, c \in Index : SetChild(p, c)
    BY DEF Build, Permit, SetStart, SetSink
  <1> QED BY <1>1, <1>2, <1>3, HierSteps DEF hier

LEMMA ElementsIn ==
  ASSUME NEW seq, NEW x
  PROVE  In(x, seq) <=> x \in Elements(seq)
  BY DEF In, Elements

LEMMA ElementsAppend ==
  ASSUME NEW T, NEW seq \in Seq(T), NEW x \in T
  PROVE  /\ Elements(Append(seq, x)) = Elements(seq) \cup {x}
         /\ x \notin Elements(seq) /\ NoRepeats(seq) => NoRepeats(Append(seq, x))
  <1> DEFINE new == Append(seq, x)
  <1>1. /\ new \in Seq(T) /\ Len(new) = Len(seq) + 1 /\ Len(seq) \in Nat
        /\ \A k \in 1 .. Len(seq) : new[k] = seq[k]
        /\ new[Len(seq) + 1] = x
    BY AppendProperties, LenProperties
  <1>2. DOMAIN seq = 1 .. Len(seq) /\ DOMAIN new = 1 .. Len(seq) + 1
    BY <1>1, LenProperties
  <1>3. DOMAIN new = DOMAIN seq \cup {Len(seq) + 1}
    BY <1>1, <1>2
  <1>4. /\ \A k \in DOMAIN seq : new[k] = seq[k]
        /\ new[Len(seq) + 1] = x
    BY <1>1, <1>2
  <1> HIDE DEF new
  <1>5. Elements(new) = Elements(seq) \cup {x}
    BY <1>3, <1>4 DEF Elements
  <1>6. ASSUME x \notin Elements(seq), NoRepeats(seq)
        PROVE  NoRepeats(new)
    BY <1>3, <1>4, <1>6 DEF NoRepeats, Elements
  <1> QED BY <1>5, <1>6 DEF new

LEMMA EndsInductive == TypeOK /\ EndsStandAlone /\ [Next]_vars => EndsStandAlone'
  <1> SUFFICES ASSUME TypeOK, EndsStandAlone, [Next]_vars PROVE EndsStandAlone'
    OBVIOUS
  <1>1. sinks \in Seq(Role) /\ starts \in Seq(Role) /\ parent \in [Role -> Role]
    BY DEF TypeOK
  <1>2. ASSUME NEW r \in Index, SetStart(r)
        PROVE  EndsStandAlone'
    <2>1. r \in Role
      BY <1>2, IndexRole DEF SetStart
    <2>2. /\ parent[r] = r /\ ~IsParent(r)
          /\ r \notin Elements(sinks) /\ r \notin Elements(starts)
          /\ starts' = Append(starts, r) /\ sinks' = sinks /\ parent' = parent
      BY <1>2, ElementsIn DEF SetStart
    <2>3. Elements(starts') = Elements(starts) \cup {r} /\ NoRepeats(starts')
      BY <1>1, <2>1, <2>2, ElementsAppend DEF EndsStandAlone
    <2> QED BY <2>2, <2>3 DEF EndsStandAlone, IsParent
  <1>3. ASSUME NEW r \in Index, SetSink(r)
        PROVE  EndsStandAlone'
    <2>1. r \in Role
      BY <1>3, IndexRole DEF SetSink
    <2>2. /\ parent[r] = r /\ ~IsParent(r)
          /\ r \notin Elements(sinks) /\ r \notin Elements(starts)
          /\ sinks' = Append(sinks, r) /\ starts' = starts /\ parent' = parent
      BY <1>3, ElementsIn DEF SetSink
    <2>3. Elements(sinks') = Elements(sinks) \cup {r} /\ NoRepeats(sinks')
      BY <1>1, <2>1, <2>2, ElementsAppend DEF EndsStandAlone
    <2> QED BY <2>2, <2>3 DEF EndsStandAlone, IsParent
  <1>4. ASSUME NEW p \in Index, NEW c \in Index, SetChild(p, c)
        PROVE  EndsStandAlone'
    <2>1. p \in Role /\ c \in Role
      BY <1>4, IndexRole DEF SetChild
    <2>2. /\ \A r \in {p, c} : r \notin Elements(sinks) /\ r \notin Elements(starts)
          /\ parent' = [parent EXCEPT ![c] = p] /\ sinks' = sinks /\ starts' = starts
      BY <1>4, ElementsIn DEF SetChild
    <2>3. ASSUME NEW r \in Elements(starts) \cup Elements(sinks)
          PROVE  parent'[r] = r /\ ~\E d \in Role \ {r} : parent'[d] = r
      <3>1. r # p /\ r # c /\ parent[r] = r /\ ~\E d \in Role \ {r} : parent[d] = r
        BY <2>2 DEF EndsStandAlone, IsParent
      <3>2. r \in Role
        BY <1>1 DEF Elements
      <3> QED BY <1>1, <2>1, <2>2, <3>1, <3>2
    <2> QED BY <2>2, <2>3 DEF EndsStandAlone, IsParent
  <1>5. CASE UNCHANGED <<parent, sinks, starts>>
    BY <1>5 DEF EndsStandAlone, IsParent
  <1>6. \/ UNCHANGED <<parent, sinks, starts>>
        \/ \E r \in Index : SetStart(r) \/ SetSink(r)
        \/ \E p, c \in Index : SetChild(p, c)
    BY HierSteps DEF Build, Permit, hier
  <1> QED BY <1>2, <1>3, <1>4, <1>5, <1>6

-----------------------------------------------------------------------------
(* The generator.                                                          *)

LEMMA ClimbingInductive == TypeOK /\ Climbing /\ [Next]_vars => Climbing'
  <1> SUFFICES ASSUME TypeOK, Climbing, [Next]_vars PROVE Climbing'
    OBVIOUS
  <1>1. parent \in [Role -> Role] /\ idx \in Role /\ (pc # "starts" => i \in Role)
    BY DEF TypeOK
  <1>2. CASE Build
    BY <1>2, BuildIdle DEF gen, Climbing
  <1>3. ASSUME pc' \in {"idle", "done", "starts"}
        PROVE  Climbing'
    BY <1>3 DEF Climbing
  <1>4. ASSUME idx' = i', i' \in Role, pc' \in {"reserve", "sinks"} => i' = 0
        PROVE  Climbing'
    <2>1. parent' = parent \/ Build
      BY HierSteps DEF hier
    <2>2. CASE parent' = parent
      BY <1>4, <2>2, LineageSelf DEF Climbing, Lineage
    <2> QED BY <1>2, <2>1, <2>2
  <1>5. ASSUME pc \in {"count", "children", "inherit"}, pc' = pc, i' = i,
               idx' \in Lineage(i), parent' = parent
        PROVE  Climbing'
    BY <1>5 DEF Climbing, Lineage
  <1>6. ASSUME pc \in {"count", "children", "inherit"}
        PROVE  parent[idx] \in Lineage(i) /\ idx \in Lineage(i) /\ i \in Role
    BY <1>1, <1>6, LineageUp DEF Climbing
  <1>7. \A d \in Index : Gen(d) => Climbing'
    BY <1>4, ZeroRole DEF Gen, Zeroed
  <1>8. CASE Count
    <2>1. CASE AtRoot
      BY <1>1, <1>4, <1>8, <2>1, NextRoleType DEF Count
    <2>2. CASE ~AtRoot
      BY <1>5, <1>6, <1>8, <2>2 DEF Count, hier
    <2> QED BY <2>1, <2>2
  <1>9. CASE Reserve
    BY <1>1, <1>4, <1>9 DEF Reserve, Climbing
  <1>10. CASE Children
    <2>1. CASE AtRoot
      BY <1>1, <1>4, <1>10, <2>1, NextRoleType DEF Children
    <2>2. CASE ~AtRoot
      BY <1>5, <1>6, <1>10, <2>2 DEF Children, hier
    <2> QED BY <2>1, <2>2
  <1>11. CASE IntoSinks
    BY <1>3, <1>11 DEF IntoSinks
  <1>12. CASE OutOfStarts
    <2>1. CASE i = Len(starts)
      BY <1>4, <1>12, <2>1, ZeroRole DEF OutOfStarts
    <2>2. CASE i # Len(starts)
      BY <1>3, <1>12, <2>2 DEF OutOfStarts
    <2> QED BY <2>1, <2>2
  <1>13. ASSUME NEW kind \in Kinds, InheritOne(kind)
         PROVE  Climbing'
    BY <1>5, <1>6, <1>13 DEF InheritOne, hier
  <1>14. CASE InheritUp
    <2>1. CASE AtRoot
      BY <1>1, <1>4, <1>14, <2>1, NextRoleType DEF InheritUp
    <2>2. CASE ~AtRoot
      BY <1>5, <1>6, <1>14, <2>2 DEF InheritUp, hier
    <2> QED BY <2>1, <2>2
  <1>15. GenFails \/ GenFree => Climbing'
    BY <1>3 DEF GenFails, GenFree
  <1>16. CASE UNCHANGED vars
    BY <1>16 DEF vars, Climbing, Lineage
  <1> QED BY <1>2, <1>7, <1>8, <1>9, <1>10, <1>11, <1>12, <1>13, <1>14, <1>15, <1>16
          DEF Next, Generate

LEMMA CountedInductive == TypeOK /\ Counted /\ [Next]_vars => Counted'
  <1> SUFFICES ASSUME TypeOK, Counted, [Next]_vars PROVE Counted'
    OBVIOUS
  <1>1. CASE pc' \notin {"count", "reserve"}
    BY <1>1 DEF Counted
  <1>2. \A d \in Index : Gen(d) => Counted'
    BY DEF Gen, Zeroed, Counted
  <1>3. CASE Count
    <2>1. CASE AtRoot
      BY <1>3, <2>1 DEF Count, Counted, IsParent, hier
    <2>2. CASE ~AtRoot
      <3>1. idx \in Role /\ parent[idx] \in Role /\ parent[idx] # idx
        BY <2>2 DEF TypeOK, AtRoot
      <3>2. IsParent(parent[idx])
        BY <3>1 DEF IsParent
      <3>3. /\ room' = [room EXCEPT ![parent[idx]] = @ + 1] /\ parent' = parent
            /\ pc = "count" /\ room \in [Role -> Int]
        BY <1>3, <2>2 DEF Count, hier, TypeOK
      <3>4. ASSUME NEW r \in Role, room'[r] # 0
            PROVE  IsParent(r)
        BY <3>2, <3>3, <3>4 DEF Counted
      <3> QED BY <3>3, <3>4 DEF Counted, IsParent
    <2> QED BY <2>1, <2>2
  <1>4. CASE UNCHANGED vars
    BY <1>4 DEF vars, Counted, IsParent
  <1>5. pc' \notin {"count", "reserve"} \/ Count \/ (\E d \in Index : Gen(d)) \/ UNCHANGED vars
    BY BuildIdle DEF Next, Generate, gen, Reserve, Children, IntoSinks, OutOfStarts,
       InheritOne, InheritUp, NextRole, GenFails, GenFree
  <1> QED BY <1>1, <1>2, <1>3, <1>4, <1>5

LEMMA FreshInductive == Fresh /\ [Next]_vars => Fresh'
  <1> SUFFICES ASSUME Fresh, [Next]_vars PROVE Fresh'
    OBVIOUS
  <1>1. CASE pc' # "idle"
    BY <1>1 DEF Fresh
  <1>2. CASE Zeroed
    BY <1>2 DEF Fresh, Zeroed, Nothing
  <1>3. CASE pc' = pc /\ roles' = roles /\ granted' = granted
    BY <1>3 DEF Fresh, Nothing
  <1>4. pc' # "idle" \/ Zeroed \/ (pc' = pc /\ roles' = roles /\ granted' = granted)
    <2>1. Build => pc' = pc /\ roles' = roles /\ granted' = granted
      BY BuildIdle DEF gen
    <2>2. \/ Count \/ Reserve \/ Children \/ IntoSinks \/ OutOfStarts
          \/ (\E kind \in Kinds : InheritOne(kind)) \/ InheritUp
          => pc' # "idle"
      BY DEF Count, Reserve, Children, IntoSinks, OutOfStarts, InheritOne, InheritUp, NextRole
    <2>3. GenFails \/ GenFree \/ (\E d \in Index : Gen(d)) => Zeroed
      BY DEF GenFails, GenFree, Gen
    <2>4. UNCHANGED vars => pc' = pc /\ roles' = roles /\ granted' = granted
      BY DEF vars
    <2> QED BY <2>1, <2>2, <2>3, <2>4 DEF Next, Generate
  <1> QED BY <1>1, <1>2, <1>3, <1>4

\* What is promised depends on the hierarchy alone.
LEMMA PromisesKept ==
  ASSUME UNCHANGED hier
  PROVE  /\ \A r \in Role : MayEnter(r)' = MayEnter(r)
         /\ \A kind \in Kinds, r \in Role : MayUse(kind, r)' = MayUse(kind, r)
  BY DEF hier, MayEnter, MayUse, Lineage, In, Elements

LEMMA ElementsConcat ==
  ASSUME NEW T, NEW s \in Seq(T), NEW t \in Seq(T)
  PROVE  /\ Elements(s \o t) = Elements(s) \cup Elements(t)
         /\ NoRepeats(s) /\ NoRepeats(t) /\ Elements(s) \cap Elements(t) = {}
              => NoRepeats(s \o t)
  <1> DEFINE new == s \o t
  <1>1. /\ new \in Seq(T) /\ Len(new) = Len(s) + Len(t)
        /\ \A k \in 1 .. Len(s) + Len(t) :
             new[k] = IF k <= Len(s) THEN s[k] ELSE t[k - Len(s)]
    BY ConcatProperties
  <1>2. /\ Len(s) \in Nat /\ Len(t) \in Nat
        /\ DOMAIN s = 1 .. Len(s) /\ DOMAIN t = 1 .. Len(t)
        /\ DOMAIN new = 1 .. Len(s) + Len(t)
    BY <1>1, LenProperties
  <1> HIDE DEF new
  <1>3. ASSUME NEW k \in DOMAIN new
        PROVE  \/ k \in DOMAIN s /\ new[k] = s[k]
               \/ k - Len(s) \in DOMAIN t /\ new[k] = t[k - Len(s)]
    BY <1>1, <1>2
  <1>4. ASSUME NEW k \in DOMAIN s
        PROVE  k \in DOMAIN new /\ new[k] = s[k]
    BY <1>1, <1>2
  <1>5. ASSUME NEW k \in DOMAIN t
        PROVE  k + Len(s) \in DOMAIN new /\ new[k + Len(s)] = t[k]
    <2>1. k + Len(s) \in 1 .. Len(s) + Len(t) /\ ~(k + Len(s) <= Len(s)) /\ (k + Len(s)) - Len(s) = k
      BY <1>2
    <2> QED BY <1>1, <1>2, <2>1
  <1>6. Elements(new) = Elements(s) \cup Elements(t)
    <2>1. Elements(new) \subseteq Elements(s) \cup Elements(t)
      BY <1>3 DEF Elements
    <2>2. Elements(s) \subseteq Elements(new)
      BY <1>4 DEF Elements
    <2>3. Elements(t) \subseteq Elements(new)
      BY <1>5 DEF Elements
    <2> QED BY <2>1, <2>2, <2>3
  <1>7. ASSUME NoRepeats(s), NoRepeats(t), Elements(s) \cap Elements(t) = {},
               NEW j \in DOMAIN new, NEW k \in DOMAIN new, new[j] = new[k]
        PROVE  j = k
    <2>1. CASE j \in DOMAIN s /\ new[j] = s[j] /\ k \in DOMAIN s /\ new[k] = s[k]
      BY <2>1, <1>7 DEF NoRepeats
    <2>2. CASE /\ j - Len(s) \in DOMAIN t /\ new[j] = t[j - Len(s)]
               /\ k - Len(s) \in DOMAIN t /\ new[k] = t[k - Len(s)]
      <3>1. j - Len(s) = k - Len(s)
        BY <2>2, <1>7 DEF NoRepeats
      <3>2. j \in Int /\ k \in Int
        BY <1>2
      <3> QED BY <1>2, <3>1, <3>2
    <2>3. CASE new[j] \in Elements(s) /\ new[k] \in Elements(t)
      BY <1>7, <2>3
    <2>4. CASE new[j] \in Elements(t) /\ new[k] \in Elements(s)
      BY <1>7, <2>4
    <2> QED BY <1>3, <2>1, <2>2, <2>3, <2>4 DEF Elements
  <1> QED BY <1>6, <1>7 DEF NoRepeats, new

LEMMA NothingExtraInductive == IInv /\ [Next]_vars => NothingExtra'
  <1> SUFFICES ASSUME IInv, [Next]_vars PROVE NothingExtra'
    OBVIOUS
  <1>1. /\ parent \in [Role -> Role] /\ idx \in Role /\ (pc # "starts" => i \in Role)
        /\ sinks \in Seq(Role) /\ starts \in Seq(Role)
        /\ roles \in [Role -> Seq(Role)]
        /\ perms \in [Kinds -> [Role -> Seq(Permission)]]
        /\ granted \in [Kinds -> [Role -> Seq(Permission)]]
    BY DEF IInv, TypeOK
  <1>2. ASSUME roles' = Nothing, granted' = [kind \in Kinds |-> Nothing]
        PROVE  NothingExtra'
    BY <1>2 DEF NothingExtra, Nothing, Elements
  <1>3. CASE Build
    <2>1. roles = Nothing /\ granted = [kind \in Kinds |-> Nothing]
      BY <1>3, BuildIdle DEF IInv, Fresh
    <2> QED BY <1>2, <1>3, <2>1, BuildIdle DEF gen
  <1>4. ASSUME UNCHANGED hier, granted' = granted,
               NEW r \in Role, NEW d \in MayEnter(r), d \in Role,
               roles' = [roles EXCEPT ![r] = Append(@, d)]
        PROVE  NothingExtra'
    <2>1. ASSUME NEW q \in Role
          PROVE  Elements(roles'[q]) \subseteq MayEnter(q)
      <3>1. Elements(roles[q]) \subseteq MayEnter(q)
        BY DEF IInv, NothingExtra
      <3>2. CASE q = r
        <4>1. roles[r] \in Seq(Role) /\ roles'[q] = Append(roles[r], d)
          BY <1>1, <1>4, <3>2
        <4>2. d \in Role
          BY <1>4
        <4>3. Elements(roles'[q]) = Elements(roles[r]) \cup {d}
          BY <4>1, <4>2, ElementsAppend
        <4> QED BY <1>4, <3>1, <3>2, <4>3
      <3>3. CASE q # r
        BY <1>1, <1>4, <3>1, <3>3
      <3> QED BY <3>2, <3>3
    <2> QED BY <1>4, <2>1, PromisesKept DEF IInv, NothingExtra
  <1>5. CASE UNCHANGED <<parent, sinks, starts, perms, roles, granted>>
    BY <1>5, PromisesKept DEF IInv, NothingExtra, hier
  <1>6. CASE Children
    <2>1. CASE AtRoot
      BY <1>5, <1>6, <2>1 DEF Children, hier
    <2>2. CASE ~AtRoot
      <3> DEFINE a == parent[idx]
      <3>1. a \in Role /\ a # idx /\ i \in Role /\ idx \in Lineage(i)
        BY <1>1, <1>6, <2>2 DEF Children, AtRoot, IInv, Climbing
      <3>2. a \in Lineage(i) /\ a # i
        BY <1>1, <3>1, LineageUp, NoReturn DEF IInv
      <3>3. ~In(a, sinks) /\ ~In(a, starts)
        BY <1>1, <3>1, ElementsIn DEF IInv, EndsStandAlone, IsParent
      <3>4. i \in MayEnter(a)
        BY <3>1, <3>2, <3>3 DEF MayEnter
      <3> QED BY <1>4, <1>6, <2>2, <3>1, <3>4 DEF Children
    <2> QED BY <2>1, <2>2
  <1>7. CASE IntoSinks
    <2>1. ASSUME NEW r \in Role
          PROVE  Elements(roles'[r]) \subseteq MayEnter(r)
      <3>1. Elements(roles[r]) \subseteq MayEnter(r)
        BY DEF IInv, NothingExtra
      <3>2. CASE In(r, sinks)
        BY <1>7, <3>1, <3>2 DEF IntoSinks
      <3>3. CASE ~In(r, sinks)
        <4>1. roles'[r] = roles[r] \o sinks
          BY <1>7, <3>3 DEF IntoSinks
        <4>2. Elements(roles'[r]) \subseteq Elements(roles[r]) \cup Elements(sinks)
          BY <1>1, <4>1, ElementsConcat
        <4>3. Elements(sinks) \subseteq Role
          BY <1>1 DEF Elements
        <4>4. Elements(sinks) \subseteq MayEnter(r)
          BY <3>3, <4>3 DEF MayEnter, IInv, EndsStandAlone
        <4> QED BY <3>1, <4>2, <4>4
      <3> QED BY <3>2, <3>3
    <2> QED BY <1>7, <2>1, PromisesKept DEF IntoSinks, IInv, NothingExtra
  <1>8. CASE OutOfStarts
    <2>1. CASE i = Len(starts) \/ ~Inner(idx)
      BY <1>5, <1>8, <2>1 DEF OutOfStarts, hier
    <2>2. CASE i # Len(starts) /\ Inner(idx)
      <3> DEFINE r == starts[i + 1]
      <3>1. i \in 0 .. Len(starts) /\ Len(starts) \in Nat /\ DOMAIN starts = 1 .. Len(starts)
        BY <1>1, <1>8, LenProperties DEF OutOfStarts, IInv, TypeOK
      <3>2. i + 1 \in DOMAIN starts
        <4>1. i # Len(starts)
          BY <2>2
        <4>2. i \in 0 .. Len(starts) /\ Len(starts) \in Nat
          BY <3>1
        <4>3. i + 1 \in 1 .. Len(starts)
          BY ONLY <4>1, <4>2
        <4> QED BY <3>1, <4>3
      <3>3. r \in Role /\ r \in Elements(starts)
        BY <1>1, <3>2 DEF Elements
      <3>4. r \notin Elements(sinks)
        BY <3>3 DEF IInv, EndsStandAlone
      <3>5. idx \notin Elements(starts)
        BY <2>2, ElementsIn DEF Inner
      <3>6. idx \in MayEnter(r)
        BY <1>1, <3>3, <3>4, <3>5, ElementsIn DEF MayEnter
      <3>7. roles' = [roles EXCEPT ![r] = Append(@, idx)] /\ UNCHANGED hier /\ granted' = granted
        BY <1>8, <2>2 DEF OutOfStarts
      <3> QED BY <1>1, <1>4, <3>3, <3>6, <3>7
    <2> QED BY <2>1, <2>2
  <1>9. ASSUME NEW kind \in Kinds, InheritOne(kind)
        PROVE  NothingExtra'
    <2>1. PICK k \in DOMAIN perms[kind][idx] :
            granted' = [granted EXCEPT ![kind][i] = Append(@, perms[kind][idx][k])]
      BY <1>9 DEF InheritOne, Missing
    <2> DEFINE x == perms[kind][idx][k]
    <2>2. i \in Role /\ x \in Permission
      BY <1>1, <1>9 DEF InheritOne
    <2>3. idx \in Lineage(i)
      BY <1>9 DEF InheritOne, IInv, Climbing
    <2>4. x \in MayUse(kind, i)
      BY <2>3 DEF MayUse, Elements
    <2>5. ASSUME NEW l \in Kinds, NEW q \in Role
          PROVE  Elements(granted'[l][q]) \subseteq MayUse(l, q)
      <3>1. Elements(granted[l][q]) \subseteq MayUse(l, q)
        BY DEF IInv, NothingExtra
      <3>2. CASE l = kind
        <4>1. CASE q = i
          <5>1. /\ granted[l][i] \in Seq(Permission)
                /\ granted'[l][q] = Append(granted[l][i], x)
            BY <1>1, <2>1, <2>2, <3>2, <4>1
          <5>2. Elements(granted'[l][q]) = Elements(granted[l][i]) \cup {x}
            BY <2>2, <5>1, ElementsAppend
          <5> QED BY <2>4, <3>1, <3>2, <4>1, <5>2
        <4>2. CASE q # i
          BY <1>1, <2>1, <2>2, <3>1, <3>2, <4>2
        <4> QED BY <4>1, <4>2
      <3>3. CASE l # kind
        BY <1>1, <2>1, <3>1, <3>3
      <3> QED BY <3>2, <3>3
    <2> QED BY <1>9, <2>5, PromisesKept DEF InheritOne, IInv, NothingExtra
  <1>10. Count \/ Reserve \/ InheritUp \/ UNCHANGED vars => NothingExtra'
    BY <1>5 DEF Count, Reserve, InheritUp, vars, hier
  <1>11. GenFails \/ GenFree \/ (\E d \in Index : Gen(d)) => NothingExtra'
    BY <1>2 DEF GenFails, GenFree, Gen, Zeroed
  <1> QED BY <1>3, <1>6, <1>7, <1>8, <1>9, <1>10, <1>11 DEF Next, Generate

LEMMA InvInductive == IInv /\ [Next]_vars => IInv'
  BY TypeInductive, ForestInductive, EndsInductive, ClimbingInductive, CountedInductive,
     FreshInductive, NothingExtraInductive DEF IInv

-----------------------------------------------------------------------------
(* Who comes by whom.                                                      *)

\* The roles whose climb comes by r.
Below(r) == {d \in Role \ {r} : r \in Lineage(d)}

\* Those whose climb has come by it when that of role j has got to x.
CameBy(r, j, x) ==
  {d \in Below(r) : d < j \/ (d = j /\ (r = x \/ r \notin Lineage(x)))}

LEMMA RoleInt == Role \subseteq Int /\ N \in Int
  BY RolesAssumption DEF Role

\* Only parents are come by.
LEMMA BelowParents ==
  ASSUME parent \in [Role -> Role], NEW r \in Role, Below(r) # {}
  PROVE  IsParent(r)
  <1> SUFFICES ASSUME ~IsParent(r) PROVE FALSE
    OBVIOUS
  <1>1. PICK d \in Role \ {r} : r \in Lineage(d)
    BY DEF Below
  <1>2. Role \ {r} \in SUBSET Role /\ Closed(Role \ {r})
    BY DEF Closed, IsParent
  <1>3. Lineage(d) \subseteq Role \ {r}
    BY <1>1, <1>2, LineageLeast
  <1> QED BY <1>1, <1>3

\* Nothing has been come by before the first climb.
LEMMA CameByNone ==
  ASSUME NEW r \in Role
  PROVE  CameBy(r, 0, 0) = {}
  <1>1. ASSUME NEW d \in CameBy(r, 0, 0)
        PROVE  FALSE
    <2>1. /\ d \in Role /\ d # r /\ r \in Lineage(d)
          /\ d < 0 \/ (d = 0 /\ (r = 0 \/ r \notin Lineage(0)))
      BY DEF CameBy, Below
    <2>2. ~(d < 0)
      BY <2>1, RolesAssumption DEF Role
    <2> QED BY <2>1, <2>2
  <1> QED BY <1>1

\* A climb that begins has come by nothing, one at the root by everything.
LEMMA CameByNext ==
  ASSUME parent \in [Role -> Role], NEW r \in Role, NEW j \in Role,
         NEW x \in Lineage(j), parent[x] = x
  PROVE  CameBy(r, j + 1, j + 1) = CameBy(r, j, x)
  <1>1. x \in Role /\ Lineage(x) = {x}
    BY LineageUp, LineageOfRoot
  <1>2. ASSUME NEW d \in Below(r)
        PROVE  d \in CameBy(r, j, x) <=> d <= j
    <2>1. d = j => r = x \/ r \notin Lineage(x)
      BY <1>1
    <2>2. (d < j \/ d = j) <=> d <= j
      BY RoleInt DEF Below
    <2> QED BY <2>1, <2>2 DEF CameBy
  <1>3. ASSUME NEW d \in Below(r)
        PROVE  d \in CameBy(r, j + 1, j + 1) <=> d <= j
    <2>1. d \in Role /\ d # r /\ r \in Lineage(d)
      BY DEF Below
    <2>2. ~(d = j + 1 /\ (r = j + 1 \/ r \notin Lineage(j + 1)))
      BY <2>1
    <2>3. d < j + 1 <=> d <= j
      BY <2>1, RoleInt
    <2> QED BY <2>2, <2>3 DEF CameBy
  <1> QED BY <1>2, <1>3 DEF CameBy

LEMMA CameByAll ==
  ASSUME parent \in [Role -> Role], NEW r \in Role, NEW j \in Role, ~(j + 1 < N),
         NEW x \in Lineage(j), parent[x] = x
  PROVE  CameBy(r, j, x) = Below(r)
  <1>1. ASSUME NEW d \in Below(r)
        PROVE  d \in CameBy(r, j, x)
    <2>1. d \in Role
      BY DEF Below
    <2>2. d < j \/ d = j
      BY <2>1, RolesAssumption DEF Role
    <2>3. r = x \/ r \notin Lineage(x)
      BY LineageUp, LineageOfRoot
    <2> QED BY <2>2, <2>3 DEF CameBy
  <1> QED BY <1>1 DEF CameBy

\* A climb that goes up from x comes by the parent of x, for the first time.
LEMMA CameByParent ==
  ASSUME parent \in [Role -> Role], Forest, NEW j \in Role,
         NEW x \in Lineage(j), parent[x] # x
  PROVE  LET p == parent[x] IN
         /\ p \in Role /\ j \notin CameBy(p, j, x)
         /\ CameBy(p, j, p) = CameBy(p, j, x) \cup {j}
         /\ \A r \in Role \ {p} : CameBy(r, j, p) = CameBy(r, j, x)
  <1> DEFINE p == parent[x]
  <1>1. x \in Role /\ p \in Lineage(j) /\ p \in Role /\ p # x
    BY LineageUp
  <1>2. p \in Lineage(x) /\ Lineage(p) \subseteq Lineage(x)
    <2>1. p \in Lineage(x)
      BY <1>1, LineageSelf, LineageUp
    <2>2. Lineage(x) \in SUBSET Role /\ Closed(Lineage(x))
      BY <1>1, LineageUp DEF Closed
    <2> QED BY <1>1, <2>1, <2>2, LineageLeast
  <1>3. p # j
    BY <1>1, NoReturn
  <1>4. x \notin Lineage(p)
    <2> SUFFICES ASSUME x \in Lineage(p) PROVE FALSE
      OBVIOUS
    <2> QED BY <1>1, NoReturn
  <1>5. ASSUME NEW r \in Role \ {p}
        PROVE  (r = p \/ r \notin Lineage(p)) <=> (r = x \/ r \notin Lineage(x))
    BY <1>1, <1>2, <1>4, <1>5, LineageStep
  <1>6. j \in Below(p)
    BY <1>1, <1>3 DEF Below
  <1>7. ~(j < j)
    BY RoleInt
  <1>8. j \notin CameBy(p, j, x)
    BY <1>1, <1>2, <1>7 DEF CameBy
  <1>9. CameBy(p, j, p) = CameBy(p, j, x) \cup {j}
    BY <1>6 , <1>1, <1>2 DEF CameBy
  <1>10. \A r \in Role \ {p} : CameBy(r, j, p) = CameBy(r, j, x)
    BY <1>5 DEF CameBy
  <1> QED BY <1>1, <1>8, <1>9, <1>10

-----------------------------------------------------------------------------
(* Lists without repetitions.                                              *)

LEMMA LenOfElements ==
  ASSUME NEW T, NEW seq \in Seq(T), NoRepeats(seq)
  PROVE  /\ IsFiniteSet(Elements(seq))
         /\ Cardinality(Elements(seq)) = Len(seq)
  <1>1. seq \in [1 .. Len(seq) -> Elements(seq)] /\ DOMAIN seq = 1 .. Len(seq) /\ Len(seq) \in Nat
    BY LenProperties DEF Elements
  <1>2. seq \in Bijection(1 .. Len(seq), Elements(seq))
    BY <1>1 DEF NoRepeats, Elements, Bijection, Injection, Surjection, IsInjective
  <1>3. ExistsBijection(1 .. Len(seq), Elements(seq))
    BY <1>2 DEF ExistsBijection
  <1> QED BY <1>1, <1>3, FS_NatBijection, FS_CountingElements

-----------------------------------------------------------------------------
(* The two passes: what the first counts, the second writes.               *)

Filling == {"children", "sinks", "starts", "inherit", "done"}

\* The room of a role is what has been counted, then what is promised.
Sized ==
  /\ pc = "idle" => \A r \in Role : room[r] = 0
  /\ pc = "count" => \A r \in Role : room[r] = Cardinality(CameBy(r, i, idx))
  /\ pc = "reserve" => \A r \in Role : room[r] = Cardinality(Below(r))
  /\ pc \in Filling => \A r \in Role : room[r] = Cardinality(MayEnter(r))

LEMMA RolesFinite == IsFiniteSet(Role) /\ Cardinality(Role) = N
  <1>1. IsFiniteSet(0 .. N - 1) /\ Cardinality(0 .. N - 1) = IF 0 > N - 1 THEN 0 ELSE N - 1 - 0 + 1
    BY RolesAssumption, FS_Interval
  <1> QED BY <1>1, RolesAssumption DEF Role

LEMMA BelowFinite ==
  ASSUME NEW r \in Role, NEW j, NEW x
  PROVE  IsFiniteSet(Below(r)) /\ IsFiniteSet(CameBy(r, j, x))
  <1>1. Below(r) \in SUBSET Role /\ CameBy(r, j, x) \in SUBSET Role
    BY DEF Below, CameBy
  <1> QED BY <1>1, RolesFinite, FS_Subset

LEMMA BelowKept ==
  ASSUME UNCHANGED hier
  PROVE  \A r \in Role : Below(r)' = Below(r) /\ CameBy(r, i, idx)' = CameBy(r, i', idx')
  BY DEF hier, Below, CameBy, Lineage

\* Nothing is below a start or a sink, and neither is below another role.
LEMMA EndsAside ==
  ASSUME TypeOK, EndsStandAlone, NEW r \in Role
  PROVE  /\ In(r, starts) \/ In(r, sinks) => Below(r) = {}
         /\ \A d \in Below(r) : ~In(d, starts) /\ ~In(d, sinks)
  <1>1. parent \in [Role -> Role]
    BY DEF TypeOK
  <1>2. In(r, starts) \/ In(r, sinks) => Below(r) = {}
    BY <1>1, BelowParents, ElementsIn DEF EndsStandAlone
  <1>3. ASSUME NEW d \in Below(r), In(d, starts) \/ In(d, sinks)
        PROVE  FALSE
    <2>1. d \in Role /\ d # r /\ r \in Lineage(d) /\ parent[d] = d
      BY <1>3, ElementsIn DEF Below, EndsStandAlone
    <2> QED BY <2>1, LineageOfRoot
  <1> QED BY <1>2, <1>3

\* What is allocated is what is promised.
LEMMA SizePromised ==
  ASSUME TypeOK, EndsStandAlone, NEW r \in Role, room[r] = Cardinality(Below(r))
  PROVE  Size(r) = Cardinality(MayEnter(r))
  <1>1. parent \in [Role -> Role] /\ sinks \in Seq(Role) /\ starts \in Seq(Role)
    BY DEF TypeOK
  <1>2. /\ IsFiniteSet(Elements(sinks)) /\ Cardinality(Elements(sinks)) = Len(sinks)
        /\ IsFiniteSet(Elements(starts)) /\ Cardinality(Elements(starts)) = Len(starts)
        /\ Elements(starts) \subseteq Role /\ Elements(sinks) \subseteq Role
        /\ Len(sinks) \in Nat /\ Len(starts) \in Nat
    <2>1. Elements(starts) \subseteq Role /\ Elements(sinks) \subseteq Role
      BY <1>1 DEF Elements
    <2> QED BY <1>1, <2>1, LenOfElements, LenProperties DEF EndsStandAlone
  <1>3. In(r, starts) \/ In(r, sinks) => Below(r) = {}
    BY EndsAside
  <1>4. CASE In(r, sinks)
    <2>1. Size(r) = room[r] /\ MayEnter(r) = {}
      BY <1>4 DEF Size, MayEnter
    <2> QED BY <1>3, <1>4, <2>1
  <1>5. CASE ~In(r, sinks) /\ In(r, starts)
    <2>1. Size(r) = N - Len(starts) - Len(sinks) + Len(sinks) /\ MayEnter(r) = Role \ Elements(starts)
      BY <1>5 DEF Size, MayEnter
    <2>2. Role \cap Elements(starts) = Elements(starts)
      BY <1>2
    <2>3. Cardinality(Role \ Elements(starts))
            = Cardinality(Role) - Cardinality(Role \cap Elements(starts))
      BY RolesFinite, FS_Difference
    <2>4. Cardinality(Role \ Elements(starts)) = N - Len(starts)
      BY ONLY <1>2, <2>2, <2>3, RolesFinite
    <2> QED BY <1>2, <2>1, <2>4, RoleInt
  <1>6. CASE ~In(r, sinks) /\ ~In(r, starts)
    <2>1. Size(r) = Cardinality(Below(r)) + Len(sinks) /\ MayEnter(r) = Below(r) \cup Elements(sinks)
      BY <1>6 DEF Size, MayEnter, Below
    <2>2. Below(r) \cap Elements(sinks) = {}
      BY EndsAside, ElementsIn
    <2>3. Cardinality(Below(r) \cup Elements(sinks)) = Cardinality(Below(r)) + Len(sinks) - Cardinality({})
      BY <1>2, <2>2, BelowFinite, FS_Union
    <2>4. Cardinality(Below(r)) \in Nat
      BY BelowFinite, FS_CardinalityType
    <2> QED BY <1>2, <2>1, <2>3, <2>4, FS_EmptySet
  <1> QED BY <1>4, <1>5, <1>6

\* A loop that climbs either begins with the next role or has come by them all.
LEMMA NextClimb ==
  ASSUME NEW loop, TypeOK, Climbing, pc \in {"count", "children", "inherit"}, AtRoot,
         NextRole(loop), UNCHANGED hier
  PROVE  \/ /\ pc' = pc
            /\ \A r \in Role : CameBy(r, i, idx)' = CameBy(r, i, idx)
         \/ /\ pc' = loop
            /\ \A r \in Role : CameBy(r, i, idx) = Below(r)
  <1>1. parent \in [Role -> Role] /\ i \in Role /\ idx \in Lineage(i) /\ parent[idx] = idx
    BY DEF TypeOK, Climbing, AtRoot
  <1>2. CASE i + 1 < N
    <2>1. i' = i + 1 /\ idx' = i + 1 /\ pc' = pc
      BY <1>2 DEF NextRole
    <2>2. \A r \in Role : CameBy(r, i + 1, i + 1) = CameBy(r, i, idx)
      BY <1>1, CameByNext
    <2> QED BY <2>1, <2>2, BelowKept
  <1>3. CASE ~(i + 1 < N)
    <2>1. pc' = loop
      BY <1>3 DEF NextRole
    <2>2. \A r \in Role : CameBy(r, i, idx) = Below(r)
      BY <1>1, <1>3, CameByAll
    <2> QED BY <2>1, <2>2
  <1> QED BY <1>2, <1>3

LEMMA SizedInductive == IInv /\ Sized /\ [Next]_vars => Sized'
  <1> SUFFICES ASSUME IInv, Sized, [Next]_vars PROVE Sized'
    OBVIOUS
  <1>1. TypeOK /\ Forest /\ EndsStandAlone /\ Climbing
    BY DEF IInv
  <1>2. parent \in [Role -> Role] /\ room \in [Role -> Int]
    BY <1>1 DEF TypeOK
  <1>3. CASE Build
    BY <1>3, BuildIdle DEF gen, Sized, Filling
  <1>4. ASSUME Zeroed, UNCHANGED hier, pc' \in {"idle", "count"}
        PROVE  Sized'
    <2>1. \A r \in Role : room'[r] = 0
      BY <1>4 DEF Zeroed
    <2>2. \A r \in Role : CameBy(r, i, idx)' = {}
      BY <1>4, BelowKept, CameByNone DEF Zeroed
    <2> QED BY <1>4, <2>1, <2>2, FS_EmptySet DEF Sized, Filling
  <1>5. CASE Count
    <2>1. CASE AtRoot
      <3>1. pc = "count" /\ room' = room /\ NextRole("reserve") /\ UNCHANGED hier
        BY <1>5, <2>1 DEF Count
      <3>2. \/ /\ pc' = "count"
               /\ \A r \in Role : CameBy(r, i, idx)' = CameBy(r, i, idx)
            \/ /\ pc' = "reserve"
               /\ \A r \in Role : CameBy(r, i, idx) = Below(r)
        BY <1>1, <2>1, <3>1, NextClimb
      <3> QED BY <3>1, <3>2, BelowKept DEF Sized, Filling
    <2>2. CASE ~AtRoot
      <3> DEFINE p == parent[idx]
      <3>1. /\ pc = "count" /\ pc' = "count" /\ i' = i /\ idx' = p /\ UNCHANGED hier
            /\ room' = [room EXCEPT ![p] = @ + 1]
        BY <1>5, <2>2 DEF Count
      <3>2. i \in Role /\ idx \in Lineage(i) /\ p # idx
        BY <1>1, <2>2, <3>1 DEF TypeOK, Climbing, AtRoot
      <3>3. /\ p \in Role /\ i \notin CameBy(p, i, idx)
            /\ CameBy(p, i, p) = CameBy(p, i, idx) \cup {i}
            /\ \A r \in Role \ {p} : CameBy(r, i, p) = CameBy(r, i, idx)
        BY <1>1, <1>2, <3>2, CameByParent
      <3>4. Cardinality(CameBy(p, i, p)) = Cardinality(CameBy(p, i, idx)) + 1
        BY <3>3, BelowFinite, FS_AddElement
      <3>5. ASSUME NEW r \in Role
            PROVE  room'[r] = Cardinality(CameBy(r, i, p))
        BY <1>2, <3>1, <3>3, <3>4 DEF Sized
      <3>6. \A r \in Role : CameBy(r, i, idx)' = CameBy(r, i, p)
        BY <3>1, BelowKept
      <3> QED BY <3>1, <3>5, <3>6 DEF Sized, Filling
    <2> QED BY <2>1, <2>2
  <1>6. CASE Reserve
    <2>1. pc = "reserve" /\ pc' = "children" /\ UNCHANGED hier /\ room' = [r \in Role |-> Size(r)]
      BY <1>6 DEF Reserve
    <2>2. \A r \in Role : Size(r) = Cardinality(MayEnter(r))
      BY <1>1, <2>1, SizePromised DEF Sized
    <2> QED BY <2>1, <2>2, PromisesKept DEF Sized, Filling
  <1>7. ASSUME pc \in Filling, pc' \in Filling, UNCHANGED <<hier, room>>
        PROVE  Sized'
    BY <1>7, PromisesKept DEF Sized, Filling
  <1>8. Children \/ IntoSinks \/ OutOfStarts \/ InheritUp \/ (\E kind \in Kinds : InheritOne(kind))
        => pc \in Filling /\ pc' \in Filling /\ UNCHANGED <<hier, room>>
    BY DEF Children, IntoSinks, OutOfStarts, InheritUp, InheritOne, NextRole, Filling, hier
  <1>9. CASE UNCHANGED vars
    <2>1. UNCHANGED hier /\ i' = i /\ idx' = idx /\ pc' = pc /\ room' = room
      BY <1>9 DEF vars, hier
    <2> QED BY <2>1, BelowKept, PromisesKept DEF Sized
  <1>10. (\E d \in Index : Gen(d)) \/ GenFails \/ GenFree => Sized'
    BY <1>4 DEF Gen, GenFails, GenFree
  <1> QED BY <1>3, <1>5, <1>6, <1>7, <1>8, <1>9, <1>10 DEF Next, Generate

-----------------------------------------------------------------------------
\* The roles that the starts before, and so far that at k, have been led into
\* when that loop has come to role x.
LedInto(r, k, x) ==
  {d \in Role : /\ Inner(d)
               /\ \E l \in DOMAIN starts : starts[l] = r /\ (l <= k \/ (l = k + 1 /\ d < x))}

Closing(r) == IF In(r, sinks) THEN {} ELSE Elements(sinks)

\* What has been written for each role, loop by loop.
Listed ==
  /\ \A r \in Role : NoRepeats(roles[r])
  /\ pc \in {"idle", "count", "reserve"} => roles = Nothing
  /\ pc = "children" => \A r \in Role : Elements(roles[r]) = CameBy(r, i, idx)
  /\ pc = "sinks" => \A r \in Role : Elements(roles[r]) = Below(r)
  /\ pc = "starts" => \A r \in Role :
       Elements(roles[r]) = Below(r) \cup Closing(r) \cup LedInto(r, i, idx)
  /\ pc \in {"inherit", "done"} => \A r \in Role : Elements(roles[r]) = MayEnter(r)

LEMMA LedIntoKept ==
  ASSUME UNCHANGED hier
  PROVE  \A r \in Role : /\ Closing(r)' = Closing(r)
                        /\ LedInto(r, i, idx)' = LedInto(r, i', idx')
  BY DEF hier, Closing, LedInto, Inner, In, Elements

\* The three loops together have written what is promised.
LEMMA LoopsPromised ==
  ASSUME TypeOK, EndsStandAlone, NEW r \in Role, NEW x
  PROVE  Below(r) \cup Closing(r) \cup LedInto(r, Len(starts), x) = MayEnter(r)
  <1>1. /\ starts \in Seq(Role) /\ Elements(sinks) \subseteq Role
        /\ Len(starts) \in Nat /\ DOMAIN starts = 1 .. Len(starts)
    BY LenProperties DEF TypeOK, Elements
  <1>2. \A l \in DOMAIN starts : l <= Len(starts) /\ l # Len(starts) + 1
    BY <1>1
  <1>3. LedInto(r, Len(starts), x) = IF In(r, starts) THEN {d \in Role : Inner(d)} ELSE {}
    BY <1>2 DEF LedInto, In
  <1>4. In(r, starts) \/ In(r, sinks) => Below(r) = {}
    BY EndsAside
  <1>5. CASE In(r, sinks)
    <2>1. ~In(r, starts)
      BY <1>5, ElementsIn DEF EndsStandAlone
    <2> QED BY <1>3, <1>4, <1>5, <2>1 DEF Closing, MayEnter
  <1>6. CASE ~In(r, sinks) /\ In(r, starts)
    <2>1. MayEnter(r) = Role \ Elements(starts) /\ Closing(r) = Elements(sinks)
      BY <1>6 DEF MayEnter, Closing
    <2>2. \A d \in Role : Inner(d) <=> d \notin Elements(starts) /\ d \notin Elements(sinks)
      BY ElementsIn DEF Inner
    <2>3. Elements(starts) \cap Elements(sinks) = {}
      BY DEF EndsStandAlone
    <2> QED BY <1>1, <1>3, <1>4, <1>6, <2>1, <2>2, <2>3
  <1>7. CASE ~In(r, sinks) /\ ~In(r, starts)
    BY <1>3, <1>7 DEF MayEnter, Closing, Below
  <1> QED BY <1>5, <1>6, <1>7

LEMMA LedIntoNone ==
  ASSUME TypeOK, NEW r \in Role
  PROVE  LedInto(r, 0, 0) = {}
  <1>1. \A l \in DOMAIN starts : ~(l <= 0)
    BY LenProperties DEF TypeOK
  <1>2. \A d \in Role : ~(d < 0)
    BY RolesAssumption DEF Role
  <1> QED BY <1>1, <1>2 DEF LedInto

\* The loop at start k and role x leads that start into x, unless x is an end.
LEMMA LedIntoNext ==
  ASSUME TypeOK, EndsStandAlone, NEW k \in 0 .. Len(starts), k # Len(starts), NEW x \in Role
  PROVE  LET s == starts[k + 1]
             nextK == IF x + 1 < N THEN k ELSE k + 1
             nextX == IF x + 1 < N THEN x + 1 ELSE 0
         IN  /\ s \in Role /\ In(s, starts)
             /\ x \notin LedInto(s, k, x)
             /\ LedInto(s, nextK, nextX) = LedInto(s, k, x) \cup {d \in {x} : Inner(d)}
             /\ \A r \in Role \ {s} : LedInto(r, nextK, nextX) = LedInto(r, k, x)
  <1> DEFINE s == starts[k + 1]
             nextK == IF x + 1 < N THEN k ELSE k + 1
             nextX == IF x + 1 < N THEN x + 1 ELSE 0
  <1>1. starts \in Seq(Role) /\ Len(starts) \in Nat /\ DOMAIN starts = 1 .. Len(starts)
    BY LenProperties DEF TypeOK
  <1>2. k \in Nat /\ k + 1 \in 1 .. Len(starts)
    <2>1. Len(starts) \in Nat /\ k \in 0 .. Len(starts) /\ k # Len(starts)
      BY <1>1
    <2> QED BY ONLY <2>1
  <1>3. s \in Role /\ In(s, starts)
    <2>1. k + 1 \in DOMAIN starts
      BY <1>1, <1>2
    <2>2. s \in Role
      BY <1>1, <1>2, ElementOfSeq
    <2> QED BY <2>1, <2>2 DEF In
  <1>4. \A l \in DOMAIN starts : starts[l] = s <=> l = k + 1
    BY <1>1, <1>2 DEF EndsStandAlone, NoRepeats
  <1>5. ~(k + 1 <= k) /\ ~(x < x)
    BY <1>2, RoleInt
  <1>6. x \notin LedInto(s, k, x)
    BY <1>4, <1>5 DEF LedInto
  <1>7. ASSUME NEW l \in DOMAIN starts, NEW d \in Role
        PROVE  (l <= nextK \/ (l = nextK + 1 /\ d < nextX)) <=>
               \/ (l <= k \/ (l = k + 1 /\ d < x))
               \/ (l = k + 1 /\ d = x)
    <2>1. l \in Int
      <3>1. l \in DOMAIN starts /\ DOMAIN starts = 1 .. Len(starts) /\ Len(starts) \in Nat
        BY <1>1
      <3> QED BY ONLY <3>1
    <2>2. d \in 0 .. N - 1 /\ x \in 0 .. N - 1 /\ N \in Nat /\ k \in Nat
      BY <1>2, RolesAssumption DEF Role
    <2>3. CASE x + 1 < N
      BY ONLY <2>1, <2>2, <2>3
    <2>4. CASE ~(x + 1 < N)
      BY ONLY <2>1, <2>2, <2>4
    <2> QED BY <2>3, <2>4
  <1> HIDE DEF nextK, nextX
  <1>8. LedInto(s, nextK, nextX) = LedInto(s, k, x) \cup {d \in {x} : Inner(d)}
    <2>1. ASSUME NEW d \in Role
          PROVE  d \in LedInto(s, nextK, nextX) <=> d \in LedInto(s, k, x) \/ (d = x /\ Inner(d))
      BY <1>1, <1>2, <1>4, <1>7 DEF LedInto
    <2> QED BY <2>1 DEF LedInto
  <1>9. ASSUME NEW r \in Role \ {s}
        PROVE  LedInto(r, nextK, nextX) = LedInto(r, k, x)
    BY <1>4, <1>7 DEF LedInto
  <1> QED BY <1>3, <1>6, <1>8, <1>9 DEF nextK, nextX

LEMMA ListedInductive == IInv /\ Listed /\ [Next]_vars => Listed'
  <1> SUFFICES ASSUME IInv, Listed, [Next]_vars PROVE Listed'
    OBVIOUS
  <1>1. TypeOK /\ Forest /\ EndsStandAlone /\ Climbing
    BY DEF IInv
  <1>2. /\ parent \in [Role -> Role] /\ roles \in [Role -> Seq(Role)]
        /\ sinks \in Seq(Role)
        /\ \A r \in Role : NoRepeats(roles[r])
    BY <1>1 DEF TypeOK, Listed
  <1>3. ASSUME roles' = Nothing, pc' \in {"idle", "count", "reserve"}
        PROVE  Listed'
    BY <1>3 DEF Nothing, NoRepeats, Listed
  <1>4. CASE Build
    <2>1. roles' = Nothing /\ pc' = "idle"
      BY <1>4, BuildIdle DEF gen, Listed
    <2> QED BY <1>3, <2>1
  <1>5. \A d \in Index : Gen(d) => Listed'
    BY <1>3 DEF Gen, Zeroed
  <1>6. CASE GenFails \/ GenFree
    BY <1>3, <1>6 DEF GenFails, GenFree, Zeroed
  <1>7. CASE Count
    <2>1. pc = "count" /\ roles' = roles /\ pc' \in {"count", "reserve"}
      BY <1>7 DEF Count, NextRole
    <2> QED BY <1>3, <2>1 DEF Listed
  <1>8. CASE Reserve
    <2>1. /\ pc = "reserve" /\ pc' = "children" /\ UNCHANGED <<hier, roles>>
          /\ i' = 0 /\ idx' = 0
      BY <1>1, <1>8 DEF Reserve, Climbing
    <2>2. roles = Nothing
      BY <2>1 DEF Listed
    <2>3. \A r \in Role : Elements(roles'[r]) = {} /\ CameBy(r, i, idx)' = {}
      BY <2>1, <2>2, BelowKept, CameByNone DEF Nothing, Elements
    <2> QED BY <1>2, <2>1, <2>3 DEF Listed
  <1>9. CASE Children
    <2>1. CASE AtRoot
      <3>1. pc = "children" /\ roles' = roles /\ NextRole("sinks") /\ UNCHANGED hier
        BY <1>9, <2>1 DEF Children
      <3>2. \/ /\ pc' = "children"
               /\ \A r \in Role : CameBy(r, i, idx)' = CameBy(r, i, idx)
            \/ /\ pc' = "sinks"
               /\ \A r \in Role : CameBy(r, i, idx) = Below(r)
        BY <1>1, <2>1, <3>1, NextClimb
      <3> QED BY <1>2, <3>1, <3>2, BelowKept DEF Listed
    <2>2. CASE ~AtRoot
      <3> DEFINE p == parent[idx]
      <3>1. /\ pc = "children" /\ pc' = "children" /\ i' = i /\ idx' = p /\ UNCHANGED hier
            /\ roles' = [roles EXCEPT ![p] = Append(@, i)]
        BY <1>9, <2>2 DEF Children
      <3>2. i \in Role /\ idx \in Lineage(i) /\ p # idx
        BY <1>1, <2>2, <3>1 DEF TypeOK, Climbing, AtRoot
      <3>3. /\ p \in Role /\ i \notin CameBy(p, i, idx)
            /\ CameBy(p, i, p) = CameBy(p, i, idx) \cup {i}
            /\ \A r \in Role \ {p} : CameBy(r, i, p) = CameBy(r, i, idx)
        BY <1>1, <1>2, <3>2, CameByParent
      <3>4. \A r \in Role : Elements(roles[r]) = CameBy(r, i, idx)
        BY <3>1 DEF Listed
      <3>5. /\ Elements(Append(roles[p], i)) = CameBy(p, i, p)
            /\ NoRepeats(Append(roles[p], i))
        <4>1. roles[p] \in Seq(Role) /\ NoRepeats(roles[p]) /\ i \notin Elements(roles[p])
          BY <1>2, <3>3, <3>4
        <4> QED BY <3>2, <3>3, <3>4, <4>1, ElementsAppend
      <3>6. ASSUME NEW r \in Role
            PROVE  Elements(roles'[r]) = CameBy(r, i, p) /\ NoRepeats(roles'[r])
        BY <1>2, <3>1, <3>3, <3>4, <3>5
      <3>7. \A r \in Role : CameBy(r, i, idx)' = CameBy(r, i, p)
        BY <3>1, BelowKept
      <3> QED BY <3>1, <3>6, <3>7 DEF Listed
    <2> QED BY <2>1, <2>2
  <1>10. CASE IntoSinks
    <2>1. /\ pc = "sinks" /\ pc' = "starts" /\ UNCHANGED hier
          /\ roles' = [r \in Role |-> IF In(r, sinks) THEN roles[r] ELSE roles[r] \o sinks]
          /\ i' = 0 /\ idx' = 0
      BY <1>1, <1>10 DEF IntoSinks, Climbing
    <2>2. ASSUME NEW r \in Role
          PROVE  Elements(roles'[r]) = Below(r) \cup Closing(r) /\ NoRepeats(roles'[r])
      <3>1. Elements(roles[r]) = Below(r) /\ roles[r] \in Seq(Role) /\ NoRepeats(roles[r])
        BY <1>2, <2>1 DEF Listed
      <3>2. CASE In(r, sinks)
        BY <2>1, <3>1, <3>2 DEF Closing
      <3>3. CASE ~In(r, sinks)
        <4>1. Below(r) \cap Elements(sinks) = {}
          BY <1>1, EndsAside, ElementsIn
        <4>2. roles'[r] = roles[r] \o sinks /\ NoRepeats(sinks)
          BY <1>1, <2>1, <3>3 DEF EndsStandAlone
        <4> QED BY <1>2, <3>1, <3>3, <4>1, <4>2, ElementsConcat DEF Closing
      <3> QED BY <3>2, <3>3
    <2>3. \A r \in Role : /\ Below(r)' = Below(r) /\ Closing(r)' = Closing(r)
                          /\ LedInto(r, i, idx)' = {}
      BY <1>1, <2>1, BelowKept, LedIntoKept, LedIntoNone
    <2> QED BY <2>1, <2>2, <2>3 DEF Listed
  <1>11. CASE OutOfStarts
    <2>1. /\ pc = "starts" /\ UNCHANGED hier
          /\ i \in 0 .. Len(starts) /\ idx \in Role
          /\ \A r \in Role : Elements(roles[r]) = Below(r) \cup Closing(r) \cup LedInto(r, i, idx)
      BY <1>1, <1>11 DEF OutOfStarts, TypeOK, Listed
    <2>2. \A r \in Role : /\ Below(r)' = Below(r) /\ Closing(r)' = Closing(r)
                          /\ LedInto(r, i, idx)' = LedInto(r, i', idx')
      BY <2>1, BelowKept, LedIntoKept
    <2>3. CASE i = Len(starts)
      <3>1. roles' = roles /\ pc' = "inherit"
        BY <1>11, <2>3 DEF OutOfStarts
      <3>2. ASSUME NEW r \in Role
            PROVE  Elements(roles[r]) = MayEnter(r)
        BY <1>1, <2>1, <2>3, LoopsPromised
      <3> QED BY <1>2, <2>1, <3>1, <3>2, PromisesKept DEF Listed
    <2>4. CASE i # Len(starts)
      <3> DEFINE s == starts[i + 1]
                 nextI == IF idx + 1 < N THEN i ELSE i + 1
                 nextIdx == IF idx + 1 < N THEN idx + 1 ELSE 0
      <3>1. /\ roles' = IF Inner(idx) THEN [roles EXCEPT ![s] = Append(@, idx)] ELSE roles
            /\ i' = nextI /\ idx' = nextIdx /\ pc' = "starts"
        BY <1>11, <2>1, <2>4 DEF OutOfStarts
      <3>2. /\ s \in Role /\ In(s, starts)
            /\ idx \notin LedInto(s, i, idx)
            /\ LedInto(s, nextI, nextIdx) = LedInto(s, i, idx) \cup {d \in {idx} : Inner(d)}
            /\ \A r \in Role \ {s} : LedInto(r, nextI, nextIdx) = LedInto(r, i, idx)
        BY <1>1, <2>1, <2>4, LedIntoNext
      <3> HIDE DEF s, nextI, nextIdx
      <3>3. ASSUME NEW r \in Role
            PROVE  /\ Elements(roles'[r]) = Below(r) \cup Closing(r) \cup LedInto(r, nextI, nextIdx)
                   /\ NoRepeats(roles'[r])
        <4>1. CASE r = s /\ Inner(idx)
          <5>1. Below(s) = {} /\ idx \notin Closing(s)
            BY <1>1, <3>2, <4>1, EndsAside, ElementsIn DEF Inner, Closing
          <5>2. roles[s] \in Seq(Role) /\ NoRepeats(roles[s]) /\ idx \notin Elements(roles[s])
            BY <1>2, <2>1, <3>2, <5>1
          <5>3. /\ Elements(Append(roles[s], idx)) = Elements(roles[s]) \cup {idx}
                /\ NoRepeats(Append(roles[s], idx))
            BY <2>1, <5>2, ElementsAppend
          <5>4. roles'[r] = Append(roles[s], idx)
            BY <1>2, <3>1, <3>2, <4>1
          <5>5. {d \in {idx} : Inner(d)} = {idx}
            BY <4>1
          <5> QED BY <2>1, <3>2, <4>1, <5>3, <5>4, <5>5
        <4>2. CASE r # s
          BY <1>2, <2>1, <3>1, <3>2, <4>2
        <4>3. CASE ~Inner(idx)
          <5>1. {d \in {idx} : Inner(d)} = {} /\ roles' = roles
            BY <3>1, <4>3
          <5> QED BY <1>2, <2>1, <3>2, <5>1
        <4> QED BY <4>1, <4>2, <4>3
      <3> QED BY <2>2, <3>1, <3>3 DEF Listed
    <2> QED BY <2>3, <2>4
  <1>12. ASSUME pc \in {"inherit", "done"}, pc' \in {"inherit", "done"}, UNCHANGED <<hier, roles>>
         PROVE  Listed'
    BY <1>12, PromisesKept DEF Listed
  <1>13. InheritUp \/ (\E kind \in Kinds : InheritOne(kind)) => Listed'
    BY <1>12 DEF InheritUp, InheritOne, NextRole, hier
  <1>14. CASE UNCHANGED vars
    <2>1. UNCHANGED hier /\ i' = i /\ idx' = idx /\ pc' = pc /\ roles' = roles
      BY <1>14 DEF vars, hier
    <2> QED BY <2>1, BelowKept, LedIntoKept, PromisesKept DEF Listed, Nothing
  <1> QED BY <1>4, <1>5, <1>6, <1>7, <1>8, <1>9, <1>10, <1>11, <1>13, <1>14 DEF Next, Generate

-----------------------------------------------------------------------------
(* Permissions.                                                            *)

\* A role has all that is promised once its climb is over, and what the roles
\* it has left behind were permitted while it goes on.
Taken ==
  /\ \A kind \in Kinds, r \in Role : NoRepeats(granted[kind][r])
  /\ pc = "done" =>
       \A kind \in Kinds, r \in Role : MayUse(kind, r) \subseteq Elements(granted[kind][r])
  /\ pc = "inherit" =>
       \A kind \in Kinds :
         /\ \A r \in Role : r < i => MayUse(kind, r) \subseteq Elements(granted[kind][r])
         /\ \A a \in Lineage(i) \ Lineage(idx) :
              Elements(perms[kind][a]) \subseteq Elements(granted[kind][i])

\* Nothing that a role has been permitted so far is taken back.
LEMMA InheritOneAdds ==
  ASSUME TypeOK, NEW kind \in Kinds, InheritOne(kind),
         \A l \in Kinds, r \in Role : NoRepeats(granted[l][r])
  PROVE  \A l \in Kinds, r \in Role :
           /\ Elements(granted[l][r]) \subseteq Elements(granted'[l][r])
           /\ NoRepeats(granted'[l][r])
  <1>1. /\ i \in Role /\ idx \in Role
        /\ perms \in [Kinds -> [Role -> Seq(Permission)]]
        /\ granted \in [Kinds -> [Role -> Seq(Permission)]]
    BY DEF TypeOK, InheritOne
  <1>2. PICK k \in Missing(kind) :
          granted' = [granted EXCEPT ![kind][i] = Append(@, perms[kind][idx][k])]
    BY DEF InheritOne
  <1> DEFINE x == perms[kind][idx][k]
  <1>3. x \in Permission /\ x \notin Elements(granted[kind][i])
    BY <1>1, ElementsIn DEF Missing
  <1>4. granted[kind][i] \in Seq(Permission)
    BY <1>1
  <1>5. /\ Elements(Append(granted[kind][i], x)) = Elements(granted[kind][i]) \cup {x}
        /\ NoRepeats(Append(granted[kind][i], x))
    BY <1>1, <1>3, <1>4, ElementsAppend
  <1>6. ASSUME NEW l \in Kinds, NEW r \in Role
        PROVE  \/ granted'[l][r] = granted[l][r]
               \/ l = kind /\ r = i /\ granted'[l][r] = Append(granted[l][r], x)
    BY <1>1, <1>2
  <1>7. ASSUME NEW l \in Kinds, NEW r \in Role
        PROVE  /\ Elements(granted[l][r]) \subseteq Elements(granted'[l][r])
               /\ NoRepeats(granted'[l][r])
    <2>1. CASE granted'[l][r] = granted[l][r]
      BY <2>1
    <2>2. CASE l = kind /\ r = i /\ granted'[l][r] = Append(granted[l][r], x)
      BY <1>5, <2>2
    <2> QED BY <1>6, <2>1, <2>2
  <1> QED BY <1>7

LEMMA TakenInductive == IInv /\ Taken /\ [Next]_vars => Taken'
  <1> SUFFICES ASSUME IInv, Taken, [Next]_vars PROVE Taken'
    OBVIOUS
  <1>1. TypeOK /\ Climbing
    BY DEF IInv
  <1>2. /\ parent \in [Role -> Role]
        /\ \A kind \in Kinds, r \in Role : NoRepeats(granted[kind][r])
    BY <1>1 DEF TypeOK, Taken
  <1>3. ASSUME \A kind \in Kinds, r \in Role : NoRepeats(granted'[kind][r]),
               pc' \notin {"inherit", "done"}
        PROVE  Taken'
    BY <1>3 DEF Taken
  <1>4. CASE Build
    BY <1>2, <1>3, <1>4, BuildIdle DEF gen
  <1>5. CASE (\E d \in Index : Gen(d)) \/ GenFails \/ GenFree
    <2>1. granted' = [kind \in Kinds |-> Nothing] /\ pc' \notin {"inherit", "done"}
      BY <1>5 DEF Gen, GenFails, GenFree, Zeroed
    <2> QED BY <1>3, <2>1 DEF Nothing, NoRepeats
  <1>6. CASE Count \/ Reserve \/ Children \/ IntoSinks
    <2>1. granted' = granted /\ pc' \notin {"inherit", "done"}
      BY <1>6 DEF Count, Reserve, Children, IntoSinks, NextRole
    <2> QED BY <1>2, <1>3, <2>1
  <1>7. CASE OutOfStarts
    <2>1. CASE i # Len(starts)
      BY <1>2, <1>3, <1>7, <2>1 DEF OutOfStarts
    <2>2. CASE i = Len(starts)
      <3>1. granted' = granted /\ pc' = "inherit" /\ i' = 0 /\ idx' = 0 /\ parent' = parent
        BY <1>7, <2>2 DEF OutOfStarts, hier
      <3>2. \A r \in Role : ~(r < 0)
        BY RolesAssumption DEF Role
      <3> QED BY <1>2, <3>1, <3>2 DEF Taken
    <2> QED BY <2>1, <2>2
  <1>8. ASSUME NEW kind \in Kinds, InheritOne(kind)
        PROVE  Taken'
    <2>1. /\ pc = "inherit" /\ pc' = "inherit" /\ i' = i /\ idx' = idx /\ UNCHANGED hier
          /\ i \in Role
      BY <1>1, <1>8 DEF InheritOne, TypeOK
    <2>2. \A l \in Kinds, r \in Role :
            /\ Elements(granted[l][r]) \subseteq Elements(granted'[l][r])
            /\ NoRepeats(granted'[l][r])
      BY <1>1, <1>2, <1>8, InheritOneAdds
    <2>3. ASSUME NEW l \in Kinds
          PROVE  /\ \A r \in Role : r < i => MayUse(l, r)' \subseteq Elements(granted'[l][r])
                 /\ \A a \in Lineage(i) \ Lineage(idx) :
                      Elements(perms[l][a]) \subseteq Elements(granted'[l][i])
      BY <2>1, <2>2, PromisesKept DEF Taken
    <2>4. Lineage(i)' = Lineage(i) /\ Lineage(idx)' = Lineage(idx) /\ perms' = perms
      BY <2>1 DEF hier, Lineage
    <2> QED BY <2>1, <2>2, <2>3, <2>4 DEF Taken
  <1>9. CASE InheritUp
    <2>1. /\ pc = "inherit" /\ granted' = granted /\ UNCHANGED hier /\ i \in Role
          /\ idx \in Lineage(i) /\ idx \in Role
          /\ perms \in [Kinds -> [Role -> Seq(Permission)]]
      BY <1>1, <1>9 DEF InheritUp, TypeOK, Climbing
    <2>2. ASSUME NEW kind \in Kinds
          PROVE  Elements(perms[kind][idx]) \subseteq Elements(granted[kind][i])
      <3>1. Missing(kind) = {}
        BY <1>9 DEF InheritUp
      <3> QED BY <3>1, ElementsIn DEF Missing, Elements
    <2>3. ASSUME NEW kind \in Kinds, NEW a \in Lineage(i), a = idx \/ a \notin Lineage(idx)
          PROVE  Elements(perms[kind][a]) \subseteq Elements(granted[kind][i])
      BY <2>1, <2>2, <2>3 DEF Taken
    <2>4. CASE AtRoot
      <3>1. \A a \in Lineage(i) : a = idx \/ a \notin Lineage(idx)
        BY <2>1, <2>4, LineageOfRoot DEF AtRoot
      <3>2. ASSUME NEW kind \in Kinds
            PROVE  MayUse(kind, i) \subseteq Elements(granted[kind][i])
        BY <2>3, <3>1 DEF MayUse
      <3>3. ASSUME NEW kind \in Kinds, NEW r \in Role, r < i + 1
            PROVE  MayUse(kind, r) \subseteq Elements(granted[kind][r])
        <4>1. r < i \/ r = i
          BY <2>1, <3>3, RoleInt
        <4> QED BY <2>1, <3>2, <4>1 DEF Taken
      <3>4. NextRole("done")
        BY <1>9, <2>4 DEF InheritUp
      <3>5. CASE i + 1 < N
        <4>1. i' = i + 1 /\ idx' = i + 1 /\ pc' = "inherit"
          BY <2>1, <3>4, <3>5 DEF NextRole
        <4>2. Lineage(i)' \ Lineage(idx)' = {}
          BY <4>1 DEF Lineage
        <4> QED BY <1>2, <2>1, <3>3, <4>1, <4>2, PromisesKept DEF Taken
      <3>6. CASE ~(i + 1 < N)
        <4>1. pc' = "done"
          BY <3>4, <3>6 DEF NextRole
        <4>2. \A r \in Role : r < i + 1
          BY <2>1, <3>6, RolesAssumption DEF Role
        <4> QED BY <1>2, <2>1, <3>3, <4>1, <4>2, PromisesKept DEF Taken
      <3> QED BY <3>5, <3>6
    <2>5. CASE ~AtRoot
      <3> DEFINE p == parent[idx]
      <3>1. pc' = "inherit" /\ i' = i /\ idx' = p
        BY <1>9, <2>1, <2>5 DEF InheritUp
      <3>2. ASSUME NEW a \in Lineage(i) \ Lineage(p)
            PROVE  a = idx \/ a \notin Lineage(idx)
        BY <1>2, <2>1, LineageStep
      <3>3. Lineage(i)' = Lineage(i) /\ Lineage(idx)' = Lineage(p) /\ perms' = perms
        BY <2>1, <3>1 DEF hier, Lineage
      <3>4. ASSUME NEW kind \in Kinds
            PROVE  /\ \A r \in Role : r < i => MayUse(kind, r)' \subseteq Elements(granted[kind][r])
                   /\ \A a \in Lineage(i) \ Lineage(p) :
                        Elements(perms[kind][a]) \subseteq Elements(granted[kind][i])
        BY <2>1, <2>3, <3>2, PromisesKept DEF Taken
      <3> QED BY <1>2, <2>1, <3>1, <3>3, <3>4 DEF Taken
    <2> QED BY <2>4, <2>5
  <1>10. CASE UNCHANGED vars
    <2>1. UNCHANGED hier /\ i' = i /\ idx' = idx /\ pc' = pc /\ granted' = granted
      BY <1>10 DEF vars, hier
    <2>2. Lineage(i)' = Lineage(i) /\ Lineage(idx)' = Lineage(idx) /\ perms' = perms
      BY <2>1 DEF hier, Lineage
    <2> QED BY <2>1, <2>2, PromisesKept DEF Taken
  <1> QED BY <1>4, <1>5, <1>6, <1>7, <1>8, <1>9, <1>10 DEF Next, Generate

-----------------------------------------------------------------------------
(* Theorems.                                                               *)

\* The invariant holds in every reachable state.
THEOREM Inductive == Spec => []IInv
  BY InitIInv, InvInductive, PTL DEF Spec

\* The types of the variables, for any number of roles and permissions.
THEOREM TypeCorrect == Spec => []TypeOK
  BY Inductive, PTL DEF IInv

\* No order of calls makes roles one another's ancestors (sqlbox_role_hier_child).
THEOREM StaysForest == Spec => []Forest
  BY Inductive, PTL DEF IInv

\* No order of calls makes a start or a sink part of a tree, or both at once.
THEOREM EndsApart == Spec => []EndsStandAlone
  BY Inductive, PTL DEF IInv

\* The generator's assertions hold (hier.c:345 and 355).
THEOREM AssertionsHold == Spec => []NothingCountedForEnds
  <1>1. IInv => NothingCountedForEnds
    BY ElementsIn DEF IInv, EndsStandAlone, Counted, NothingCountedForEnds
  <1> QED BY Inductive, <1>1, PTL

\* The generator never permits what the manual does not promise: the roles it
\* writes allow no change of role and no statement or source beyond it.
THEOREM Confined == Spec => []NothingExtra
  BY Inductive, PTL DEF IInv

\* The invariant, with what the two passes and the permissions have come to.
JInv == IInv /\ Sized /\ Listed /\ Taken

THEOREM Counting == Spec => []JInv
  <1>1. Init => Sized
    <2>1. Init => pc = "idle" /\ \A r \in Role : room[r] = 0
      BY DEF Init
    <2> QED BY <2>1 DEF Sized, Filling
  <1>2. Init => Listed /\ Taken
    BY DEF Init, Listed, Taken, Nothing, NoRepeats
  <1>3. JInv /\ [Next]_vars => JInv'
    BY InvInductive, SizedInductive, ListedInductive, TakenInductive DEF JInv
  <1> QED BY InitIInv, <1>1, <1>2, <1>3, PTL DEF Spec, JInv

\* The loops of the generator that fill the transitions never write past what its
\* first pass counted and allocated, and fill all of it (hier.c:318-418).
THEOREM RoomFits == Spec => []RoomSuffices
  <1>1. ASSUME JInv PROVE RoomSuffices
    <2>1. ASSUME NEW r \in Role
          PROVE  /\ Len(roles[r]) = Cardinality(Elements(roles[r]))
                 /\ Cardinality(Elements(roles[r])) <= Cardinality(MayEnter(r))
      <3>1. roles[r] \in Seq(Role) /\ NoRepeats(roles[r])
        BY <1>1 DEF JInv, IInv, TypeOK, Listed
      <3>2. MayEnter(r) \in SUBSET Role
        BY <1>1 DEF JInv, IInv, TypeOK, MayEnter, Elements
      <3>3. IsFiniteSet(MayEnter(r)) /\ Elements(roles[r]) \in SUBSET MayEnter(r)
        BY <1>1, <3>2, RolesFinite, FS_Subset DEF JInv, IInv, NothingExtra
      <3> QED BY <3>1, <3>3, LenOfElements, FS_Subset
    <2>2. ASSUME pc \in Filling, NEW r \in Role
          PROVE  Len(roles[r]) <= room[r] /\ (pc = "done" => Len(roles[r]) = room[r])
      BY <1>1, <2>1, <2>2 DEF JInv, Sized, Listed
    <2>3. ASSUME pc = "idle", NEW r \in Role
          PROVE  Len(roles[r]) <= room[r]
      <3>1. roles[r] = <<>> /\ room[r] = 0
        BY <1>1, <2>3 DEF JInv, Sized, Listed, Nothing
      <3> QED BY <3>1
    <2>4. pc \in {"idle", "count", "reserve"} \cup Filling
      BY <1>1 DEF JInv, IInv, TypeOK, Filling
    <2> QED BY <2>2, <2>3, <2>4 DEF RoomSuffices, Filling
  <1> QED BY Counting, <1>1, PTL

\* The roles generated in the end allow all that the manual promises, and list
\* each transition, statement and source once.
THEOREM Complete == Spec => []NothingMissing
  <1>1. JInv => NothingMissing
    BY DEF JInv, Listed, Taken, NothingMissing
  <1> QED BY Counting, <1>1, PTL

-----------------------------------------------------------------------------
(* Coming to an end.  The loops follow one another, each goes on from role to *)
(* role, a climb leaves ever fewer ancestors to come by, and at each of them  *)
(* there is ever less to inherit.                                             *)

Rank(loop) ==
  CASE loop = "count"    -> 1
    [] loop = "reserve"  -> 2
    [] loop = "children" -> 3
    [] loop = "sinks"    -> 4
    [] loop = "starts"   -> 5
    [] loop = "inherit"  -> 6
    [] loop = "done"     -> 7

Onward ==
  \/ Rank(pc) < Rank(pc')
  \/ pc' = pc /\ i < i'
  \/ pc' = pc /\ i' = i /\ pc = "starts" /\ idx < idx'
  \/ pc' = pc /\ i' = i /\ pc # "starts" /\ Lineage(idx') \subseteq Lineage(idx) \ {idx}
  \/ /\ pc' = pc /\ i' = i /\ idx' = idx
     /\ \A kind \in Kinds : Missing(kind)' \subseteq Missing(kind)
     /\ \E kind \in Kinds : Missing(kind)' # Missing(kind)

\* Above the parent of a role are those above the role, without it.
LEMMA ClimbLeaves ==
  ASSUME parent \in [Role -> Role], Forest, NEW r \in Role, parent[r] # r
  PROVE  Lineage(parent[r]) \subseteq Lineage(r) \ {r}
  <1>1. Closed(Lineage(r)) /\ Lineage(r) \in SUBSET Role /\ r \in Lineage(r)
    BY LineageSelf, LineageUp DEF Closed, Lineage
  <1>2. parent[r] \in Role /\ parent[r] \in Lineage(r)
    BY <1>1, LineageUp
  <1>3. Lineage(parent[r]) \subseteq Lineage(r)
    BY <1>1, <1>2, LineageLeast
  <1>4. ASSUME r \in Lineage(parent[r]) PROVE FALSE
    <2> DEFINE S == {x \in Lineage(r) : r \in Lineage(x)}
    <2>1. S \in SUBSET Role /\ r \in S
      BY <1>1
    <2>2. ASSUME NEW x \in S PROVE parent[x] # x /\ parent[x] \in S
      <3>1. x \in Role /\ parent[x] \in Lineage(r)
        BY LineageUp
      <3>2. CASE x = r
        BY <1>2, <1>4, <3>2
      <3>3. CASE x # r
        BY <3>1, <3>3, LineageOfRoot, LineageStep
      <3> QED BY <3>2, <3>3
    <2> QED BY <2>1, <2>2 DEF Forest
  <1> QED BY <1>3, <1>4

LEMMA NextRoleOnward ==
  ASSUME NEW loop, i \in Role, Rank(pc) < Rank(loop), NextRole(loop)
  PROVE  Onward
  <1>1. CASE i + 1 < N
    <2>1. i' = i + 1 /\ pc' = pc
      BY <1>1 DEF NextRole
    <2>2. i < i'
      BY ONLY <2>1, i \in Role, RolesAssumption DEF Role
    <2> QED BY <2>1, <2>2 DEF Onward
  <1>2. CASE ~(i + 1 < N)
    BY <1>2 DEF NextRole, Onward
  <1> QED BY <1>1, <1>2

LEMMA ClimbOnward ==
  ASSUME TypeOK, Forest, pc # "starts", ~AtRoot, idx' = parent[idx], UNCHANGED <<pc, i>>
  PROVE  Onward
  <1>1. parent \in [Role -> Role] /\ idx \in Role /\ parent[idx] # idx
    BY DEF TypeOK, AtRoot
  <1>2. Lineage(idx') \subseteq Lineage(idx) \ {idx}
    BY <1>1, ClimbLeaves
  <1> QED BY <1>2 DEF Onward

\* What is inherited is not missing any longer.
LEMMA InheritOnward ==
  ASSUME TypeOK, NEW kind \in Kinds, InheritOne(kind)
  PROVE  Onward
  <1>1. /\ i \in Role /\ idx \in Role
        /\ perms \in [Kinds -> [Role -> Seq(Permission)]]
        /\ granted \in [Kinds -> [Role -> Seq(Permission)]]
    BY DEF TypeOK, InheritOne
  <1>2. UNCHANGED <<perms, pc, i, idx>>
    BY DEF InheritOne, hier
  <1>3. PICK k \in Missing(kind) :
          granted' = [granted EXCEPT ![kind][i] = Append(@, perms[kind][idx][k])]
    BY DEF InheritOne
  <1> DEFINE x == perms[kind][idx][k]
  <1>4. k \in DOMAIN perms[kind][idx] /\ x \in Permission /\ granted[kind][i] \in Seq(Permission)
    BY <1>1 DEF Missing
  <1>5. Elements(Append(granted[kind][i], x)) = Elements(granted[kind][i]) \cup {x}
    BY <1>4, ElementsAppend
  <1>6. granted'[kind][i] = Append(granted[kind][i], x) /\ \A l \in Kinds : l # kind => granted'[l][i] = granted[l][i]
    BY <1>1, <1>3
  <1>7. \A l \in Kinds : Missing(l)' = {j \in DOMAIN perms[l][idx] : perms[l][idx][j] \notin Elements(granted'[l][i])}
    BY <1>2, ElementsIn DEF Missing
  <1>8. \A l \in Kinds : Missing(l) = {j \in DOMAIN perms[l][idx] : perms[l][idx][j] \notin Elements(granted[l][i])}
    BY ElementsIn DEF Missing
  <1>9. \A l \in Kinds : Elements(granted[l][i]) \subseteq Elements(granted'[l][i])
    BY <1>5, <1>6
  <1>10. \A l \in Kinds : Missing(l)' \subseteq Missing(l)
    BY <1>7, <1>8, <1>9
  <1>11. k \notin Missing(kind)'
    BY <1>5, <1>6, <1>7
  <1> QED BY <1>2, <1>3, <1>10, <1>11 DEF Onward

\* Each step of the generator takes it further, in an order in which it cannot
\* go on for ever: a later loop, a later role, fewer ancestors above the one that
\* the climb has come to, or less to inherit from it.  Or memory runs out.
THEOREM AlwaysOnward == Spec => [][Generate => Onward \/ pc' = "idle"]_vars
  <1>1. ASSUME IInv, Generate, pc' # "idle" PROVE Onward
    <2>1. TypeOK /\ Forest
      BY <1>1 DEF IInv
    <2>2. pc # "starts" => i \in Role
      BY <2>1 DEF TypeOK
    <2>3. CASE Count
      <3>1. pc = "count" /\ Rank(pc) < Rank("reserve")
        BY <2>3 DEF Count, Rank
      <3> QED BY <2>1, <2>2, <2>3, <3>1, NextRoleOnward, ClimbOnward DEF Count
    <2>4. CASE Reserve
      BY <2>4 DEF Reserve, Onward, Rank
    <2>5. CASE Children
      <3>1. pc = "children" /\ Rank(pc) < Rank("sinks")
        BY <2>5 DEF Children, Rank
      <3> QED BY <2>1, <2>2, <2>5, <3>1, NextRoleOnward, ClimbOnward DEF Children
    <2>6. CASE IntoSinks
      BY <2>6 DEF IntoSinks, Onward, Rank
    <2>7. CASE OutOfStarts
      <3>1. pc = "starts" /\ i \in Int /\ idx \in Int
        <4>1. pc = "starts" /\ i \in 0 .. Len(starts) /\ idx \in Role
          BY <2>1, <2>7 DEF OutOfStarts, TypeOK
        <4> QED BY <4>1, RoleInt
      <3>2. \/ pc' = "inherit"
            \/ pc' = pc /\ i' = i /\ idx' = idx + 1
            \/ pc' = pc /\ i' = i + 1
        BY <2>7 DEF OutOfStarts
      <3>3. pc' = "inherit" => Rank(pc) < Rank(pc')
        BY <3>1 DEF Rank
      <3>4. idx < idx + 1 /\ i < i + 1
        BY <3>1
      <3> QED BY <3>1, <3>2, <3>3, <3>4 DEF Onward
    <2>8. CASE \E kind \in Kinds : InheritOne(kind)
      BY <2>1, <2>8, InheritOnward
    <2>9. CASE InheritUp
      <3>1. pc = "inherit" /\ Rank(pc) < Rank("done")
        BY <2>9 DEF InheritUp, Rank
      <3> QED BY <2>1, <2>2, <2>9, <3>1, NextRoleOnward, ClimbOnward DEF InheritUp
    <2>10. CASE GenFails
      BY <1>1, <2>10 DEF GenFails
    <2> QED BY <1>1, <2>3, <2>4, <2>5, <2>6, <2>7, <2>8, <2>9, <2>10 DEF Generate
  <1>2. IInv => [Generate => Onward \/ pc' = "idle"]_vars
    BY <1>1
  <1> QED BY Inductive, <1>2, PTL
=============================================================================
