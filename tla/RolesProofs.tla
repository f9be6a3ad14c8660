----------------------------- MODULE RolesProofs -----------------------------
(***************************************************************************)
(* Theorems about Roles, for any calls, users, roles and permissions.      *)
(***************************************************************************)
EXTENDS RolesInv, TLAPS

USE KindsAssumption, NoneAssumption DEF Goto, Givers, Writing, Begun, tables, locals

-----------------------------------------------------------------------------
\* What each step may change

\* The part of TypeOK about the calls and the tables but for the links, and
\* the part about the links.
CallTypes ==
    /\ accounts \subseteq Subjects
    /\ data \in [Subjects -> Assigns \cup Creations \cup {None}]
    /\ deleted \subseteq roles /\ roles \subseteq RoleIds
    /\ pc \in [Requests -> States]
    /\ parent \in [Requests -> Subjects \cup RoleIds \cup {None}]
    /\ children \in [Requests -> (SUBSET RoleIds) \cup (SUBSET Permissions)]
    /\ late \subseteq Assigns \cup Creations
    /\ before \in [Requests -> SUBSET Requests]

LinkTypes ==
    /\ links \subseteq Links
    /\ \A x \in links : x.of \in accounts \cup roles
    /\ \A x, y \in links : x.of = y.of /\ x.to = y.to => x = y
    /\ hit \in [Requests -> SUBSET Links]

LEMMA TypeParts == TypeOK <=> CallTypes /\ LinkTypes
  BY DEF TypeOK, CallTypes, LinkTypes

\* The steps of a call, by its kind.
GiverStep(r) ==
    \/ r \in Assigns /\ (AssignBegin(r) \/ EditUser(r))
    \/ r \in Creations /\ (CreateBegin(r) \/ CreateAccount(r))
    \/ CommitUser(r) \/ Timeout(r)

DeleteStep(d) == DeleteBegin(d) \/ DeleteCheck(d) \/ DeleteMark(d)
CheckStep(c) == CheckBegin(c) \/ GuardBegin(c) \/ CheckRoles(c) \/ CheckPermissions(c)

LEMMA NextMeans ==
    Next => \/ \E r \in Givers : GiverStep(r)
            \/ \E r \in Updates : UpdateBegin(r)
            \/ \E r \in Replaces : ReplaceStep(r) \/ Abort(r)
            \/ \E d \in Deletes : DeleteStep(d)
            \/ \E c \in Checks : CheckStep(c)
            \/ \E i \in RoleIds : CreateRole(i)
            \/ \E u \in Subjects : RemoveUser(u)
  BY DEF Next, GiverStep, DeleteStep, CheckStep

LEMMA Kinds ==
    /\ Givers \subseteq Replaces /\ Updates \subseteq Replaces /\ Replaces = Givers \cup Updates
    /\ Replaces \subseteq Requests /\ Deletes \subseteq Requests /\ Checks \subseteq Requests
    /\ Creations \subseteq Subjects /\ Users \subseteq Subjects
    /\ None \notin Requests
  BY DEF Replaces, Requests, Subjects

LEMMA InitTypes == Init => TypeOK
  BY DEF Init, TypeOK, Links, Requests, Replaces, Subjects, States

-----------------------------------------------------------------------------
\* Types and places

LEMMA CallsKept ==
    ASSUME CallTypes, CallsInv, [Next]_vars
    PROVE  CallTypes' /\ CallsInv'
<1> USE Kinds
<1>1. CASE UNCHANGED vars
  BY <1>1 DEF CallTypes, CallsInv, vars
<1>2. ASSUME NEW r \in Assigns, AssignBegin(r)
      PROVE  CallTypes' /\ CallsInv'
  BY <1>2 DEF CallTypes, CallsInv, AssignBegin, Begin, Seen, Present, Succeeded, States
<1>3. ASSUME NEW r \in Creations, CreateBegin(r)
      PROVE  CallTypes' /\ CallsInv'
  BY <1>3 DEF CallTypes, CallsInv, CreateBegin, Begin, Seen, Succeeded, States
<1>4. ASSUME NEW r \in Assigns, EditUser(r)
      PROVE  CallTypes' /\ CallsInv'
  BY <1>4 DEF CallTypes, CallsInv, EditUser, States
<1>5. ASSUME NEW r \in Creations, CreateAccount(r)
      PROVE  CallTypes' /\ CallsInv'
  BY <1>5 DEF CallTypes, CallsInv, CreateAccount, States
<1>6. ASSUME NEW r \in Givers, CommitUser(r)
      PROVE  CallTypes' /\ CallsInv'
  BY <1>6 DEF CallTypes, CallsInv, CommitUser, States
<1>7. ASSUME NEW r \in Givers, Timeout(r)
      PROVE  CallTypes' /\ CallsInv'
  BY <1>7 DEF CallTypes, CallsInv, Timeout, Open
<1>8. ASSUME NEW r \in Updates, UpdateBegin(r)
      PROVE  CallTypes' /\ CallsInv'
  <2>1. PICK i \in RoleIds, P \in SUBSET Permissions :
          /\ Begin(r, i, P)
          /\ \/ i \in roles /\ Goto(r, "write")
             \/ Goto(r, "rejected")
    BY <1>8 DEF UpdateBegin, Available
  <2>2. pc[r] = "idle" /\ UNCHANGED <<tables, hit, late>>
    BY <1>8 DEF UpdateBegin
  <2>3. Succeeded \in SUBSET Requests /\ P \in (SUBSET RoleIds) \cup (SUBSET Permissions)
    BY DEF Succeeded
  <2>4. CallTypes'
    <3>1. children' \in [Requests -> (SUBSET RoleIds) \cup (SUBSET Permissions)]
      BY <2>1, <2>3 DEF CallTypes, Begin
    <3>2. before' \in [Requests -> SUBSET Requests]
      BY <2>1, <2>3 DEF CallTypes, Begin
    <3>3. QED
      BY <2>1, <2>2, <3>1, <3>2 DEF CallTypes, Begin, States
  <2>5. CallsInv'
    BY <2>1, <2>2 DEF CallTypes, CallsInv, Begin
  <2>6. QED
    BY <2>4, <2>5
<1>9. ASSUME NEW r \in Replaces, ReplaceMatch(r)
      PROVE  CallTypes' /\ CallsInv'
  BY <1>9 DEF CallTypes, CallsInv, ReplaceMatch, States
<1>10. ASSUME NEW r \in Replaces, ReplaceDelete(r)
       PROVE  CallTypes' /\ CallsInv'
  BY <1>10 DEF CallTypes, CallsInv, ReplaceDelete, States
<1>11. ASSUME NEW r \in Replaces, ReplaceInsert(r)
       PROVE  CallTypes' /\ CallsInv'
  BY <1>11 DEF CallTypes, CallsInv, ReplaceInsert, States
<1>12. ASSUME NEW r \in Replaces, Abort(r)
       PROVE  CallTypes' /\ CallsInv'
  BY <1>12 DEF CallTypes, CallsInv, Abort, States
<1>13. ASSUME NEW d \in Deletes, DeleteBegin(d)
       PROVE  CallTypes' /\ CallsInv'
  BY <1>13 DEF CallTypes, CallsInv, DeleteBegin, Begin, Seen, Succeeded, States
<1>14. ASSUME NEW d \in Deletes, DeleteCheck(d) \/ DeleteMark(d)
       PROVE  CallTypes' /\ CallsInv'
  BY <1>14 DEF CallTypes, CallsInv, DeleteCheck, DeleteMark, Available, States
<1>15. ASSUME NEW c \in Checks, CheckBegin(c) \/ GuardBegin(c)
       PROVE  CallTypes' /\ CallsInv'
  <2>1. PICK u \in accounts, P \in SUBSET Permissions, l \in {"passed", "roles"} :
          Begin(c, u, P) /\ Goto(c, l)
    BY <1>15 DEF CheckBegin, GuardBegin, Present
  <2>2. pc[c] = "idle" /\ UNCHANGED <<tables, hit, late>>
    BY <1>15 DEF CheckBegin, GuardBegin
  <2>3. Succeeded \in SUBSET Requests /\ P \in (SUBSET RoleIds) \cup (SUBSET Permissions)
    BY DEF Succeeded
  <2>4. CallTypes'
    <3>1. children' \in [Requests -> (SUBSET RoleIds) \cup (SUBSET Permissions)]
      BY <2>1, <2>3 DEF CallTypes, Begin
    <3>2. before' \in [Requests -> SUBSET Requests]
      BY <2>1, <2>3 DEF CallTypes, Begin
    <3>3. QED
      BY <2>1, <2>2, <3>1, <3>2 DEF CallTypes, Begin, States
  <2>5. CallsInv'
    BY <2>1, <2>2 DEF CallTypes, CallsInv, Begin
  <2>6. QED
    BY <2>4, <2>5
<1>16. ASSUME NEW c \in Checks, CheckRoles(c) \/ CheckPermissions(c)
       PROVE  CallTypes' /\ CallsInv'
  BY <1>16 DEF CallTypes, CallsInv, CheckRoles, CheckPermissions, States
<1>17. ASSUME NEW i \in RoleIds, CreateRole(i)
       PROVE  CallTypes' /\ CallsInv'
  BY <1>17 DEF CallTypes, CallsInv, CreateRole
<1>18. ASSUME NEW u \in Subjects, RemoveUser(u)
       PROVE  CallTypes' /\ CallsInv'
  BY <1>18 DEF CallTypes, CallsInv, RemoveUser
<1>19. QED
  BY <1>1, <1>2, <1>3, <1>4, <1>5, <1>6, <1>7, <1>8, <1>9, <1>10, <1>11, <1>12, <1>13,
     <1>14, <1>15, <1>16, <1>17, <1>18, NextMeans DEF GiverStep, ReplaceStep, DeleteStep, CheckStep

-----------------------------------------------------------------------------
\* How a call moves: a step is its own or leaves it as it is

Kept(r) == parent'[r] = parent[r] /\ children'[r] = children[r] /\ before'[r] = before[r]
Same(r) == Kept(r) /\ pc'[r] = pc[r] /\ hit'[r] = hit[r]

LEMMA AreFunctions == CallTypes /\ LinkTypes =>
    /\ pc = [r \in Requests |-> pc[r]] /\ parent = [r \in Requests |-> parent[r]]
    /\ children = [r \in Requests |-> children[r]] /\ before = [r \in Requests |-> before[r]]
    /\ hit = [r \in Requests |-> hit[r]]
  BY DEF CallTypes, LinkTypes

\* A replacement begins, goes on, and matches, deletes and inserts.
LEMMA ReplaceMoves ==
    ASSUME CallTypes, LinkTypes, [Next]_vars, NEW r \in Replaces
    PROVE  \/ Same(r)
           \/ /\ pc[r] = "idle" /\ pc'[r] \in {"seen", "write", "rejected"}
              /\ before'[r] = Succeeded /\ hit'[r] = hit[r]
           \/ /\ Kept(r) /\ hit'[r] = hit[r]
              /\ \/ pc[r] = "seen" /\ pc'[r] = "write"
                 \/ pc[r] = "linked" /\ pc'[r] = "done"
                 \/ pc[r] \in {"seen"} \cup Writing /\ pc'[r] = "failed"
           \/ ReplaceMatch(r) \/ ReplaceDelete(r) \/ ReplaceInsert(r)
<1> USE Kinds, AreFunctions
<1>1. CASE UNCHANGED vars
  BY <1>1 DEF Same, Kept, vars
<1>2. ASSUME NEW s \in Givers, GiverStep(s)
      PROVE  \/ Same(r)
             \/ /\ pc[r] = "idle" /\ pc'[r] \in {"seen", "write", "rejected"}
                /\ before'[r] = Succeeded /\ hit'[r] = hit[r]
             \/ /\ Kept(r) /\ hit'[r] = hit[r]
                /\ \/ pc[r] = "seen" /\ pc'[r] = "write"
                   \/ pc[r] = "linked" /\ pc'[r] = "done"
  BY <1>2 DEF GiverStep, AssignBegin, EditUser, CreateBegin, CreateAccount, CommitUser, Timeout,
              Begin, Seen, Same, Kept
<1>3. ASSUME NEW s \in Updates, UpdateBegin(s)
      PROVE  \/ Same(r)
             \/ /\ pc[r] = "idle" /\ pc'[r] \in {"seen", "write", "rejected"}
                /\ before'[r] = Succeeded /\ hit'[r] = hit[r]
  BY <1>3 DEF UpdateBegin, Begin, Same, Kept
<1>4. ASSUME NEW s \in Replaces, s # r, ReplaceStep(s)
      PROVE  Same(r)
  BY <1>4 DEF ReplaceStep, ReplaceMatch, ReplaceDelete, ReplaceInsert, Same, Kept
<1>5. ASSUME NEW s \in Replaces, Abort(s)
      PROVE  \/ Same(r)
             \/ /\ Kept(r) /\ hit'[r] = hit[r]
                /\ pc[r] \in {"seen"} \cup Writing /\ pc'[r] = "failed"
  BY <1>5 DEF Abort, Same, Kept
<1>6. ASSUME NEW d \in Deletes, DeleteStep(d)
      PROVE  Same(r)
  BY <1>6 DEF DeleteStep, DeleteBegin, DeleteCheck, DeleteMark, Begin, Seen, Same, Kept
<1>7. ASSUME NEW c \in Checks, CheckStep(c)
      PROVE  Same(r)
  BY <1>7 DEF CheckStep, CheckBegin, GuardBegin, CheckRoles, CheckPermissions, Begin, Same, Kept
<1>8. ASSUME \/ \E i \in RoleIds : CreateRole(i)
             \/ \E u \in Subjects : RemoveUser(u)
      PROVE  Same(r)
  BY <1>8 DEF CreateRole, RemoveUser, Same, Kept
<1>9. QED
  BY <1>1, <1>2, <1>3, <1>4, <1>5, <1>6, <1>7, <1>8, NextMeans DEF ReplaceStep

\* The three steps of its statement.
LEMMA StatementMoves ==
    ASSUME CallTypes, LinkTypes, NEW r \in Replaces
    PROVE  /\ ReplaceMatch(r) => Kept(r) /\ pc[r] = "write" /\ pc'[r] = "matched"
           /\ ReplaceDelete(r) => Kept(r) /\ pc[r] = "matched" /\ pc'[r] = "deleted"
           /\ ReplaceInsert(r) => /\ Kept(r) /\ hit'[r] = hit[r] /\ pc[r] = "deleted"
                                  /\ pc'[r] = IF r \in Updates THEN "done" ELSE "linked"
<1>1. r \in Requests
  BY Kinds
<1>2. QED
  BY <1>1 DEF ReplaceMatch, ReplaceDelete, ReplaceInsert, Kept, CallTypes, LinkTypes

LEMMA DeleteMoves ==
    ASSUME CallTypes, LinkTypes, [Next]_vars, NEW d \in Deletes
    PROVE  \/ Same(d)
           \/ pc[d] = "idle" /\ pc'[d] \in {"seen", "rejected"} /\ before'[d] = Succeeded
           \/ Kept(d) /\ pc[d] = "seen" /\ pc'[d] = "rejected"
           \/ Kept(d) /\ DeleteCheck(d) /\ pc'[d] = "checked" /\ parent[d] \notin Targets(links)
           \/ Kept(d) /\ DeleteMark(d)
<1> USE Kinds, AreFunctions
<1>1. CASE UNCHANGED vars
  BY <1>1 DEF Same, Kept, vars
<1>2. ASSUME NEW s \in Replaces, GiverStep(s) \/ UpdateBegin(s)
      PROVE  Same(d)
  BY <1>2 DEF GiverStep, AssignBegin, EditUser, CreateBegin, CreateAccount, CommitUser, Timeout,
              UpdateBegin, Begin, Seen, Same, Kept
<1>3. ASSUME NEW s \in Replaces, ReplaceStep(s) \/ Abort(s)
      PROVE  Same(d)
  BY <1>3 DEF ReplaceStep, ReplaceMatch, ReplaceDelete, ReplaceInsert, Abort, Same, Kept
<1>4. ASSUME NEW e \in Deletes, DeleteStep(e), e # d
      PROVE  Same(d)
  BY <1>4 DEF DeleteStep, DeleteBegin, DeleteCheck, DeleteMark, Begin, Seen, Same, Kept
<1>5. CASE DeleteStep(d)
  BY <1>5 DEF DeleteStep, DeleteBegin, DeleteCheck, DeleteMark, Begin, Seen, Same, Kept
<1>6. ASSUME NEW c \in Checks, CheckStep(c)
      PROVE  Same(d)
  BY <1>6 DEF CheckStep, CheckBegin, GuardBegin, CheckRoles, CheckPermissions, Begin, Same, Kept
<1>7. ASSUME \/ \E i \in RoleIds : CreateRole(i)
             \/ \E u \in Subjects : RemoveUser(u)
      PROVE  Same(d)
  BY <1>7 DEF CreateRole, RemoveUser, Same, Kept
<1>8. QED
  BY <1>1, <1>2, <1>3, <1>4, <1>5, <1>6, <1>7, NextMeans

LEMMA CheckMoves ==
    ASSUME CallTypes, LinkTypes, [Next]_vars, NEW c \in Checks
    PROVE  \/ Same(c)
           \/ /\ pc[c] = "idle" /\ pc'[c] \in {"passed", "roles"}
              /\ before'[c] = Succeeded
           \/ Kept(c) /\ CheckRoles(c) /\ pc'[c] = "permissions"
           \/ Kept(c) /\ CheckPermissions(c)
<1> USE Kinds, AreFunctions
<1>1. CASE UNCHANGED vars
  BY <1>1 DEF Same, Kept, vars
<1>2. ASSUME NEW s \in Replaces, GiverStep(s) \/ UpdateBegin(s)
      PROVE  Same(c)
  BY <1>2 DEF GiverStep, AssignBegin, EditUser, CreateBegin, CreateAccount, CommitUser, Timeout,
              UpdateBegin, Begin, Seen, Same, Kept
<1>3. ASSUME NEW s \in Replaces, ReplaceStep(s) \/ Abort(s)
      PROVE  Same(c)
  BY <1>3 DEF ReplaceStep, ReplaceMatch, ReplaceDelete, ReplaceInsert, Abort, Same, Kept
<1>4. ASSUME NEW d \in Deletes, DeleteStep(d)
      PROVE  Same(c)
  BY <1>4 DEF DeleteStep, DeleteBegin, DeleteCheck, DeleteMark, Begin, Seen, Same, Kept
<1>5. ASSUME NEW e \in Checks, CheckStep(e), e # c
      PROVE  Same(c)
  BY <1>5 DEF CheckStep, CheckBegin, GuardBegin, CheckRoles, CheckPermissions, Begin, Same, Kept
<1>6. CASE CheckStep(c)
  BY <1>6 DEF CheckStep, CheckBegin, GuardBegin, CheckRoles, CheckPermissions, Begin, Same, Kept
<1>7. ASSUME \/ \E i \in RoleIds : CreateRole(i)
             \/ \E u \in Subjects : RemoveUser(u)
      PROVE  Same(c)
  BY <1>7 DEF CreateRole, RemoveUser, Same, Kept
<1>8. QED
  BY <1>1, <1>2, <1>3, <1>4, <1>5, <1>6, <1>7, NextMeans

\* Who changes the tables.
LEMMA TableMoves ==
    ASSUME [Next]_vars
    PROVE  /\ \/ links' = links
              \/ \E s \in Replaces : ReplaceInsert(s)
              \/ \E i \in RoleIds : CreateRole(i)
              \/ \E u \in Subjects : RemoveUser(u)
           /\ \/ accounts' = accounts
              \/ \E s \in Creations : CreateAccount(s)
              \/ \E u \in Subjects : RemoveUser(u)
           /\ data' = data \/ \E s \in Givers : CommitUser(s)
           /\ deleted' = deleted \/ \E d \in Deletes : DeleteMark(d)
           /\ roles' = roles \/ \E i \in RoleIds : CreateRole(i)
           /\ late' = late \/ \E s \in Givers : Timeout(s)
           /\ \/ hit' = hit
              \/ \E s \in Replaces : ReplaceMatch(s) \/ ReplaceDelete(s)
              \/ \E c \in Checks : CheckRoles(c) \/ CheckPermissions(c)
<1>1. CASE UNCHANGED vars
  BY <1>1 DEF vars
<1>2. CASE \E s \in Givers : GiverStep(s)
  BY <1>2 DEF GiverStep, AssignBegin, EditUser, CreateBegin, CreateAccount, CommitUser, Timeout
<1>3. CASE \E s \in Updates : UpdateBegin(s)
  BY <1>3 DEF UpdateBegin
<1>4. CASE \E s \in Replaces : ReplaceStep(s) \/ Abort(s)
  BY <1>4 DEF ReplaceStep, ReplaceMatch, ReplaceDelete, ReplaceInsert, Abort
<1>5. CASE \E d \in Deletes : DeleteStep(d)
  BY <1>5 DEF DeleteStep, DeleteBegin, DeleteCheck, DeleteMark
<1>6. CASE \E c \in Checks : CheckStep(c)
  BY <1>6 DEF CheckStep, CheckBegin, GuardBegin, CheckRoles, CheckPermissions
<1>7. CASE \E i \in RoleIds : CreateRole(i)
  BY <1>7 DEF CreateRole
<1>8. CASE \E u \in Subjects : RemoveUser(u)
  BY <1>8 DEF RemoveUser
<1>9. QED
  BY <1>1, <1>2, <1>3, <1>4, <1>5, <1>6, <1>7, <1>8, NextMeans

-----------------------------------------------------------------------------
\* The links

\* What a call inserts, as records.
LEMMA Inserted ==
    ASSUME NEW s, ReplaceInsert(s)
    PROVE  /\ links' \subseteq (links \ hit[s]) \cup links'
           /\ links \ hit[s] \subseteq links'
           /\ \A x \in links' : \/ x \in links \ hit[s]
                               \/ /\ x.of = parent[s] /\ x.to \in children[s] /\ x.by = s
                                  /\ x = [of |-> x.of, to |-> x.to, by |-> x.by]
           /\ \A i \in children[s] : [of |-> parent[s], to |-> i, by |-> s] \in links'
  BY DEF ReplaceInsert

LEMMA RoleCreated ==
    ASSUME NEW i, CreateRole(i)
    PROVE  /\ i \notin roles /\ roles' = roles \cup {i} /\ links \subseteq links'
           /\ \A x \in links' : \/ x \in links
                               \/ /\ x.of = i /\ x.to \in Permissions /\ x.by = None
                                  /\ x = [of |-> x.of, to |-> x.to, by |-> x.by]
  BY DEF CreateRole

LEMMA LinkFields ==
    ASSUME NEW x \in Links
    PROVE  /\ x = [of |-> x.of, to |-> x.to, by |-> x.by]
           /\ x.by \in Replaces \cup {None}
           /\ \/ x.of \in Subjects /\ x.to \in RoleIds
              \/ x.of \in RoleIds /\ x.to \in Permissions
  BY DEF Links

LEMMA MakeLink ==
    ASSUME NEW x, x = [of |-> x.of, to |-> x.to, by |-> x.by],
           x.by \in Replaces \cup {None},
           \/ x.of \in Subjects /\ x.to \in RoleIds
           \/ x.of \in RoleIds /\ x.to \in Permissions
    PROVE  x \in Links
  BY DEF Links

LinkTables ==
    /\ links \subseteq Links
    /\ \A x \in links : x.of \in accounts \cup roles
    /\ \A x, y \in links : x.of = y.of /\ x.to = y.to => x = y

LEMMA LinksKept ==
    ASSUME CallTypes, CallsInv, LinkTypes, [Next]_vars
    PROVE  LinkTypes'
<1> USE Kinds
<1>1. LinkTables'
  <2>1. ASSUME NEW s \in Replaces, ReplaceInsert(s)
        PROVE  LinkTables'
    <3>1. /\ pc[s] = "deleted" /\ parent[s] \in accounts \cup roles
          /\ children[s] \cap Targets(LinksOf({parent[s]}) \ hit[s]) = {}
          /\ UNCHANGED <<accounts, roles>>
      BY <2>1 DEF ReplaceInsert
    <3>2. \/ parent[s] \in Subjects /\ children[s] \subseteq RoleIds
          \/ parent[s] \in RoleIds /\ children[s] \subseteq Permissions
      BY <3>1 DEF CallsInv, CallTypes
    <3>3. ASSUME NEW x \in links', x \notin links \ hit[s]
          PROVE  x \in Links
      BY <2>1, <3>2, <3>3, Inserted, MakeLink
    <3>4. ASSUME NEW x \in links', NEW y \in links', x.of = y.of, x.to = y.to
          PROVE  x = y
      <4>1. CASE x \in links \ hit[s] /\ y \in links \ hit[s]
        BY <3>4, <4>1 DEF LinkTypes
      <4>2. CASE x \notin links \ hit[s] /\ y \notin links \ hit[s]
        BY <2>1, <3>4, <4>2, Inserted
      <4>3. ASSUME NEW v \in links \ hit[s], NEW w \in links', w \notin links \ hit[s],
                   v.of = w.of, v.to = w.to
            PROVE  FALSE
        BY <2>1, <3>1, <4>3, Inserted DEF LinksOf, Targets
      <4>4. QED
        BY <3>4, <4>1, <4>2, <4>3
    <3>5. QED
      BY <2>1, <3>1, <3>3, <3>4, Inserted DEF LinkTables, LinkTypes
  <2>2. ASSUME NEW i \in RoleIds, CreateRole(i)
        PROVE  LinkTables'
    <3>1. accounts' = accounts /\ \A x \in links : x.of # i
      BY <2>2 DEF CreateRole, LinkTypes, CallTypes
    <3>2. \A x \in links' : x \notin links => x \in Links
      BY <2>2, RoleCreated, MakeLink
    <3>3. QED
      BY <2>2, <3>1, <3>2, RoleCreated DEF LinkTables, LinkTypes
  <2>3. ASSUME NEW u \in Subjects, RemoveUser(u)
        PROVE  LinkTables'
    BY <2>3 DEF RemoveUser, LinkTables, LinkTypes, LinksOf
  <2>4. CASE links' = links /\ (accounts' = accounts \/ \E s \in Creations : CreateAccount(s))
    <3>1. accounts \subseteq accounts' /\ roles \subseteq roles'
      BY <2>4, TableMoves, RoleCreated DEF CreateAccount
    <3>2. QED
      BY <2>4, <3>1 DEF LinkTables, LinkTypes
  <2>5. QED
    BY <2>1, <2>2, <2>3, <2>4, TableMoves
<1>2. hit' \in [Requests -> SUBSET Links]
  <2>1. ASSUME NEW s \in Requests, NEW L \in SUBSET Links, hit' = [hit EXCEPT ![s] = L]
        PROVE  hit' \in [Requests -> SUBSET Links]
    BY <2>1 DEF LinkTypes
  <2>2. ASSUME NEW s \in Replaces, ReplaceMatch(s)
        PROVE  hit' \in [Requests -> SUBSET Links]
    BY <2>1, <2>2 DEF ReplaceMatch, LinkTypes, LinksOf
  <2>3. ASSUME NEW s \in Replaces, ReplaceDelete(s)
        PROVE  hit' \in [Requests -> SUBSET Links]
    BY <2>1, <2>3 DEF ReplaceDelete, LinkTypes
  <2>4. ASSUME NEW c \in Checks, CheckRoles(c) \/ CheckPermissions(c)
        PROVE  hit' \in [Requests -> SUBSET Links]
    <3>1. PICK L \in SUBSET Links : hit' = [hit EXCEPT ![c] = L] \/ hit' = [hit EXCEPT ![c] = @ \cup L]
      BY <2>4 DEF CheckRoles, CheckPermissions, LinkTypes, LinksOf
    <3>2. QED
      BY <3>1 DEF LinkTypes
  <2>5. QED
    BY <2>2, <2>3, <2>4, TableMoves DEF LinkTypes
<1>3. QED
  BY <1>1, <1>2 DEF LinkTables, LinkTypes

-----------------------------------------------------------------------------
\* What is known

\* A call that has begun stays with what it began with; one that is done
\* stays done.
LEMMA Settled ==
    ASSUME CallTypes, LinkTypes, [Next]_vars, NEW r \in Requests
    PROVE  /\ pc[r] # "idle" => Kept(r) /\ pc'[r] # "idle"
           /\ pc[r] = "done" => pc'[r] = "done" /\ hit'[r] = hit[r]
           /\ before'[r] = before[r] \/ before'[r] = Succeeded
<1>1. CASE r \in Replaces
  BY <1>1, ReplaceMoves, StatementMoves DEF Same, Kept
<1>2. CASE r \in Deletes
  BY <1>2, DeleteMoves, Kinds, AreFunctions DEF Same, Kept, DeleteMark, DeleteCheck
<1>3. CASE r \in Checks
  BY <1>3, CheckMoves, Kinds, AreFunctions DEF Same, Kept, CheckRoles, CheckPermissions
<1>4. QED
  BY <1>1, <1>2, <1>3 DEF Requests

LEMMA BeforeKept ==
    ASSUME CallTypes, LinkTypes, BeforeInv, [Next]_vars
    PROVE  BeforeInv'
<1>1. Succeeded \subseteq Succeeded'
  BY Settled DEF Succeeded
<1>2. ASSUME NEW x \in links', x.by # None
      PROVE  pc'[x.by] # "idle"
  <2>1. ASSUME NEW s \in Replaces, ReplaceInsert(s), x \notin links
        PROVE  pc'[x.by] # "idle"
    BY <1>2, <2>1, Inserted, StatementMoves
  <2>2. CASE x \in links
    BY <1>2, <2>2, Settled, LinkFields, Kinds DEF BeforeInv, LinkTypes
  <2>3. QED
    BY <1>2, <2>1, <2>2, TableMoves, RoleCreated DEF RemoveUser
<1>3. QED
  BY <1>1, <1>2, Settled DEF BeforeInv

\* Nobody knows of a call that is not done.
LEMMA OnlyDoneIsKnown ==
    ASSUME BeforeInv, NEW r \in Requests, NEW s \in before[r]
    PROVE  s \in Requests /\ pc[s] = "done"
  BY DEF BeforeInv, Succeeded

\* A call that gives a role begins in one way, and takes its lock in one.
LEMMA GiverBegins ==
    ASSUME CallTypes, LinkTypes, [Next]_vars, NEW r \in Givers,
           \/ pc[r] = "idle" /\ pc'[r] # "idle"
           \/ pc[r] = "seen" /\ pc'[r] = "write"
    PROVE  /\ pc[r] = "idle" => \/ (r \in Assigns /\ AssignBegin(r))
                               \/ (r \in Creations /\ CreateBegin(r))
           /\ pc[r] = "seen" => \/ (r \in Assigns /\ EditUser(r))
                               \/ (r \in Creations /\ CreateAccount(r))
<1> USE Kinds
<1>1. CASE \E s \in Givers : GiverStep(s)
  <2>1. PICK s \in Givers : GiverStep(s)
    BY <1>1
  <2>2. s = r
    BY <2>1 DEF GiverStep, AssignBegin, EditUser, CreateBegin, CreateAccount,
                CommitUser, Timeout, Begin, Seen, CallTypes
  <2>. GiverStep(r)
    BY <2>1, <2>2
  <2>3. ~CommitUser(r) /\ ~Timeout(r)
    BY DEF CommitUser, Timeout
  <2>4. /\ pc[r] = "idle" => ~EditUser(r) /\ ~CreateAccount(r)
        /\ pc[r] = "seen" => ~AssignBegin(r) /\ ~CreateBegin(r)
    BY DEF EditUser, CreateAccount, AssignBegin, CreateBegin
  <2>5. QED
    BY <2>1, <2>2, <2>3, <2>4 DEF GiverStep
<1>2. CASE \E s \in Updates : UpdateBegin(s)
  BY <1>2 DEF UpdateBegin, CallTypes
<1>3. CASE \E s \in Replaces : ReplaceStep(s) \/ Abort(s)
  BY <1>3 DEF ReplaceStep, ReplaceMatch, ReplaceDelete, ReplaceInsert, Abort, CallTypes
<1>4. CASE \E d \in Deletes : DeleteStep(d)
  BY <1>4 DEF DeleteStep, DeleteBegin, DeleteCheck, DeleteMark, Seen, CallTypes
<1>5. CASE \E c \in Checks : CheckStep(c)
  BY <1>5 DEF CheckStep, CheckBegin, GuardBegin, CheckRoles, CheckPermissions, CallTypes
<1>6. CASE \/ \E i \in RoleIds : CreateRole(i)
           \/ \E u \in Subjects : RemoveUser(u)
           \/ UNCHANGED vars
  BY <1>6 DEF CreateRole, RemoveUser, vars
<1>7. QED
  BY <1>1, <1>2, <1>3, <1>4, <1>5, <1>6, NextMeans

LEMMA DataKept ==
    ASSUME CallTypes, CallsInv, LinkTypes, DataInv, [Next]_vars
    PROVE  DataInv'
<1> USE Kinds
<1>1. ASSUME NEW u \in Subjects
      PROVE  data[u] # None => data'[u] # None
  BY TableMoves DEF CommitUser, CallTypes
<1>2. ASSUME NEW u \in Creations, data'[u] # None
      PROVE  pc'[u] = "done"
  <2>1. CASE data[u] # None
    BY <2>1, Settled DEF DataInv
  <2>2. CASE data[u] = None
    <3>1. PICK s \in Givers : CommitUser(s) /\ parent[s] = u
      BY <1>2, <2>2, TableMoves DEF CommitUser, CallTypes
    <3>2. s \in Creations
      BY <3>1, <2>2 DEF CommitUser, DataInv
    <3>3. QED
      BY <3>1, <3>2 DEF CommitUser, CallsInv, CallTypes
  <2>3. QED
    BY <2>1, <2>2
<1>3. ASSUME NEW r \in Assigns, parent'[r] \in Creations, Begun(r)'
      PROVE  data'[parent'[r]] # None
  <2>1. CASE pc[r] # "idle"
    <3>1. Begun(r) /\ parent'[r] = parent[r]
      BY <1>3, <2>1, Settled, ReplaceMoves, StatementMoves DEF Same, Kept
    <3>2. QED
      BY <1>1, <1>3, <3>1 DEF DataInv
  <2>2. CASE pc[r] = "idle"
    <3>1. pc'[r] # "idle"
      BY <1>3
    <3>2. AssignBegin(r)
      BY <2>2, <3>1, GiverBegins
    <3>3. parent'[r] \in Present /\ data' = data
      BY <3>2 DEF AssignBegin, Begin, CallTypes
    <3>4. QED
      BY <1>3, <3>3 DEF Present
  <2>3. QED
    BY <2>1, <2>2
<1>4. ASSUME NEW u \in Creations, pc'[u] \in {"idle", "seen", "rejected"}
      PROVE  u \notin accounts'
  <2>1. pc[u] \in {"idle", "seen", "rejected"}
    BY <1>4, ReplaceMoves, StatementMoves DEF Same
  <2>2. u \notin accounts
    BY <2>1 DEF DataInv
  <2>3. QED
    <3>1. ASSUME NEW s \in Creations, CreateAccount(s)
          PROVE  s # u /\ accounts' = accounts \cup {s}
      BY <1>4, <3>1 DEF CreateAccount, CallTypes
    <3>2. QED
      BY <2>2, <3>1, TableMoves DEF RemoveUser
<1>5. QED
  BY <1>2, <1>3, <1>4 DEF DataInv

-----------------------------------------------------------------------------
\* What is superseded

LEMMA SupersededKept ==
    ASSUME CallTypes, CallsInv, LinkTypes, BeforeInv, SupersededInv, [Next]_vars
    PROVE  SupersededInv'
<1> USE Kinds
<1>1. SUFFICES ASSUME NEW r \in Replaces, NEW x \in links', SupersededBy(x, r)',
                      pc'[r] \in {"matched", "deleted", "linked", "done"}
               PROVE  pc'[r] \in {"matched", "deleted"} /\ x \in hit'[r]
  BY DEF SupersededInv
<1>2. /\ pc[r] \in Writing \cup {"done"} /\ Kept(r)
  BY <1>1, ReplaceMoves, StatementMoves, Settled DEF Same
<1>3. SupersededBy(x, r)
  BY <1>1, <1>2 DEF SupersededBy, Kept
<1>4. x \in links
  <2>1. ASSUME NEW s \in Replaces, ReplaceInsert(s), x \notin links
        PROVE  FALSE
    <3>1. x.by = s /\ pc[s] = "deleted"
      BY <1>1, <2>1, Inserted DEF ReplaceInsert
    <3>2. QED
      BY <1>3, <3>1, OnlyDoneIsKnown DEF SupersededBy
  <2>2. ASSUME NEW i \in RoleIds, CreateRole(i), x \notin links
        PROVE  FALSE
    <3>1. x.of = i /\ i \notin roles
      BY <1>1, <2>2, RoleCreated
    <3>2. parent[r] \in roles \cup Subjects
      BY <1>2 DEF CallsInv
    <3>3. QED
      BY <1>3, <3>1, <3>2 DEF SupersededBy
  <2>3. ASSUME NEW u \in Subjects, RemoveUser(u)
        PROVE  x \in links
    BY <1>1, <2>3 DEF RemoveUser
  <2>4. QED
    BY <1>1, <2>1, <2>2, <2>3, TableMoves
<1>5. /\ pc[r] \notin {"linked", "done"}
      /\ pc[r] \in {"matched", "deleted"} => x \in hit[r]
  BY <1>3, <1>4 DEF SupersededInv
<1>6. CASE Same(r)
  BY <1>1, <1>5, <1>6 DEF Same
<1>7. CASE ReplaceMatch(r)
  BY <1>3, <1>4, <1>7 DEF ReplaceMatch, LinksOf, SupersededBy, CallTypes, LinkTypes
<1>8. CASE ReplaceDelete(r)
  <2>1. PICK L : /\ hit[r] \cap links \subseteq L /\ hit' = [hit EXCEPT ![r] = L]
    BY <1>8 DEF ReplaceDelete
  <2>2. x \in hit[r] /\ pc' = [pc EXCEPT ![r] = "deleted"]
    BY <1>5, <1>8 DEF ReplaceDelete
  <2>3. QED
    BY <1>4, <2>1, <2>2 DEF CallTypes, LinkTypes
<1>9. CASE ReplaceInsert(r)
  <2>1. x \in hit[r] /\ pc[r] = "deleted"
    BY <1>5, <1>9 DEF ReplaceInsert
  <2>2. x.by = r
    BY <1>1, <1>9, <2>1, Inserted
  <2>3. QED
    BY <1>3, <2>1, <2>2, OnlyDoneIsKnown DEF SupersededBy
<1>10. QED
  BY <1>1, <1>2, <1>5, <1>6, <1>7, <1>8, <1>9, ReplaceMoves

\* What was not superseded by calls that are known stays so.
LEMMA SupersededStays ==
    ASSUME CallTypes, LinkTypes, BeforeInv, [Next]_vars,
           NEW c \in Requests, NEW r \in before[c], NEW x
    PROVE  SupersededBy(x, r)' <=> SupersededBy(x, r)
<1>1. r \in Requests /\ Kept(r)
  BY OnlyDoneIsKnown, Settled
<1>2. QED
  BY <1>1 DEF SupersededBy, Kept

\* What a call knows is what its replacements left.
LEMMA KnownIsGone ==
    ASSUME BeforeInv, SupersededInv, NEW c \in Requests, NEW r \in before[c], NEW x \in links
    PROVE  ~SupersededBy(x, r)
  BY OnlyDoneIsKnown DEF SupersededInv, SupersededBy

Fresh(c, x) == ~\E r \in before[c] : SupersededBy(x, r)

LEMMA ChecksKept ==
    ASSUME CallTypes, CallsInv, LinkTypes, BeforeInv, SupersededInv, CheckInv, GrantIsFresh, [Next]_vars
    PROVE  CheckInv' /\ GrantIsFresh'
<1> USE Kinds
<1>1. ASSUME NEW c \in Checks
      PROVE  \A x \in links : Fresh(c, x)
  BY KnownIsGone DEF Fresh
<1>2. ASSUME NEW c \in Checks, Kept(c), NEW x
      PROVE  Fresh(c, x)' <=> Fresh(c, x)
  BY <1>2, SupersededStays DEF Fresh, Kept
<1>3. ASSUME NEW c \in Checks, pc'[c] = "permissions", NEW x \in hit'[c]
      PROVE  x.of = parent'[c] /\ Fresh(c, x)'
  <2>1. Kept(c) /\ (Same(c) \/ CheckRoles(c))
    BY <1>3, CheckMoves DEF CheckPermissions, CallTypes, Same
  <2>2. CASE Same(c)
    BY <1>2, <1>3, <2>1, <2>2 DEF CheckInv, Same, Kept, Fresh
  <2>3. CASE CheckRoles(c)
    <3>1. x \in LinksOf({parent[c]})
      BY <1>3, <2>3 DEF CheckRoles, LinkTypes
    <3>2. QED
      BY <1>1, <1>2, <2>1, <3>1 DEF LinksOf, Kept
  <2>4. QED
    BY <2>1, <2>2, <2>3
<1>4. ASSUME NEW c \in Checks, pc'[c] = "done", NEW p \in children'[c]
      PROVE  \E x, y \in hit'[c] : /\ x.of = parent'[c] /\ y.of = x.to /\ y.to = p
                                  /\ Fresh(c, x)' /\ Fresh(c, y)'
  <2>1. Kept(c) /\ (Same(c) \/ CheckPermissions(c))
    BY <1>4, CheckMoves DEF CheckRoles, CallTypes, Same
  <2>2. CASE Same(c)
    BY <1>2, <1>4, <2>1, <2>2 DEF GrantIsFresh, Same, Kept, Fresh
  <2>3. CASE CheckPermissions(c)
    <3>1. PICK granted : /\ granted = LinksOf(Targets(hit[c])) /\ hit'[c] = hit[c] \cup granted
                         /\ pc[c] = "permissions"
                         /\ (children[c] \subseteq Targets(granted)) \/ pc'[c] = "rejected"
      BY <2>3 DEF CheckPermissions, LinkTypes, CallTypes
    <3>2. PICK y \in granted : y.to = p
      BY <1>4, <2>1, <3>1 DEF Targets, Kept
    <3>3. PICK x \in hit[c] : y.of = x.to /\ y \in links
      BY <3>1, <3>2 DEF LinksOf, Targets
    <3>4. x.of = parent[c] /\ Fresh(c, x) /\ Fresh(c, y)
      BY <1>1, <3>1, <3>3 DEF CheckInv, Fresh
    <3>5. QED
      BY <1>2, <2>1, <3>1, <3>2, <3>3, <3>4 DEF Kept
  <2>4. QED
    BY <2>1, <2>2, <2>3
<1>5. QED
  BY <1>3, <1>4 DEF CheckInv, GrantIsFresh, Fresh

-----------------------------------------------------------------------------
\* Deleted roles

\* A call that inserts a link to a role is one that gives it.
LEMMA InsertsRole ==
    ASSUME CallTypes, CallsInv, LinkTypes, BeforeInv, NEW s \in Replaces, ReplaceInsert(s),
           NEW x \in links', x \notin links, x.to \in RoleIds
    PROVE  /\ s \in Givers /\ x.by = s /\ x.to \in children[s] /\ Begun(s)
           /\ \A d \in Requests : s \notin before[d]
<1>1. x.by = s /\ x.to \in children[s] /\ pc[s] = "deleted"
  BY Inserted, StatementMoves
<1>2. s \notin Updates
  BY <1>1 DEF CallsInv
<1>3. QED
  BY <1>1, <1>2, Kinds, OnlyDoneIsKnown

LEMMA DeleteKept ==
    ASSUME CallTypes, CallsInv, LinkTypes, BeforeInv, DeleteInv, [Next]_vars
    PROVE  DeleteInv'
<1> USE Kinds
<1>0. deleted \subseteq deleted'
  BY TableMoves DEF DeleteMark
<1>1. ASSUME NEW d \in Deletes, pc'[d] = "done"
      PROVE  parent'[d] \in deleted'
  <2>1. CASE pc[d] = "done"
    BY <1>0, <2>1, Settled DEF DeleteInv, Kept
  <2>2. CASE pc[d] # "done"
    <3>1. Kept(d) /\ DeleteMark(d)
      BY <1>1, <2>2, DeleteMoves DEF Same
    <3>2. QED
      BY <1>1, <3>1 DEF DeleteMark, Kept, CallTypes
  <2>3. QED
    BY <2>1, <2>2
<1>2. ASSUME NEW i \in deleted'
      PROVE  \E d \in Deletes : parent'[d] = i /\ pc'[d] = "done"
  <2>1. CASE i \in deleted
    BY <2>1, Settled DEF DeleteInv, Kept
  <2>2. CASE i \notin deleted
    BY <1>2, <2>2, TableMoves DEF DeleteMark, CallTypes
  <2>3. QED
    BY <2>1, <2>2
<1>3. ASSUME NEW d \in Deletes, NEW r \in Givers, Begun(r)', d \in before'[r]
      PROVE  parent'[d] \notin children'[r]
  <2>1. CASE pc[r] # "idle"
    <3>1. Begun(r) /\ Kept(r)
      BY <1>3, <2>1, Settled, ReplaceMoves, StatementMoves DEF Same
    <3>2. Kept(d)
      BY <1>3, <3>1, OnlyDoneIsKnown, Settled DEF Kept
    <3>3. QED
      BY <1>3, <3>1, <3>2 DEF DeleteInv, Kept
  <2>2. CASE pc[r] = "idle"
    <3>1. \/ r \in Assigns /\ AssignBegin(r)
          \/ r \in Creations /\ CreateBegin(r)
      BY <1>3, <2>2, GiverBegins
    <3>2. PICK u \in Subjects, i \in RoleIds : Begin(r, u, {i}) /\ Seen(r, i)
      BY <3>1 DEF AssignBegin, CreateBegin, Present, CallTypes
    <3>3. children'[r] = {i} /\ before'[r] = Succeeded /\ i \notin deleted
      BY <1>3, <3>2 DEF Begin, Seen, Available, CallTypes
    <3>4. parent[d] \in deleted /\ Kept(d)
      BY <1>3, <3>3, Settled DEF DeleteInv, Succeeded
    <3>5. QED
      BY <3>3, <3>4 DEF Kept
  <2>3. QED
    BY <2>1, <2>2
<1>4. ASSUME NEW d \in Deletes, NEW x \in links', pc'[d] = "checked", x.to = parent'[d]
      PROVE  x.by \in Givers \ before'[d]
  <2>1. Kept(d) /\ \/ Same(d)
                   \/ DeleteCheck(d) /\ parent[d] \notin Targets(links)
    BY <1>4, DeleteMoves DEF Same, DeleteMark, CallTypes
  <2>2. CASE DeleteCheck(d) /\ parent[d] \notin Targets(links)
    BY <1>4, <2>1, <2>2 DEF DeleteCheck, Targets, Kept
  <2>3. CASE Same(d)
    <3>1. pc[d] = "checked" /\ x.to = parent[d] /\ before'[d] = before[d] /\ x.to \in RoleIds
      BY <1>4, <2>3 DEF Same, Kept, CallsInv
    <3>2. CASE x \in links
      BY <3>1, <3>2 DEF DeleteInv
    <3>3. CASE x \notin links
      <4>1. PICK s \in Replaces : ReplaceInsert(s)
        BY <1>4, <3>1, <3>3, TableMoves, RoleCreated DEF RemoveUser
      <4>2. QED
        BY <3>1, <3>3, <4>1, InsertsRole
    <3>4. QED
      BY <3>2, <3>3
  <2>4. QED
    BY <2>1, <2>2, <2>3
<1>5. QED
  BY <1>1, <1>2, <1>3, <1>4 DEF DeleteInv

LEMMA DeletedKept ==
    ASSUME CallTypes, CallsInv, LinkTypes, BeforeInv, DeleteInv, DeletedNotAssigned, [Next]_vars
    PROVE  DeletedNotAssigned'
<1> USE Kinds
<1>1. SUFFICES ASSUME NEW x \in links', x.to \in deleted'
               PROVE  \E d \in Deletes :
                         /\ parent'[d] = x.to /\ pc'[d] = "done"
                         /\ x.by # None /\ x.by \notin before'[d] /\ d \notin before'[x.by]
  BY DEF DeletedNotAssigned
<1>2. CASE x \in links /\ x.to \in deleted
  <2>1. PICK d \in Deletes : /\ parent[d] = x.to /\ pc[d] = "done"
                             /\ x.by # None /\ x.by \notin before[d] /\ d \notin before[x.by]
    BY <1>2 DEF DeletedNotAssigned
  <2>2. x.by \in Requests /\ pc[x.by] # "idle"
    BY <1>2, <2>1, LinkFields DEF LinkTypes, BeforeInv
  <2>3. Kept(d) /\ pc'[d] = "done" /\ Kept(x.by)
    BY <2>1, <2>2, Settled
  <2>4. QED
    BY <2>1, <2>3 DEF Kept
<1>3. CASE x \in links /\ x.to \notin deleted
  <2>1. PICK d \in Deletes : /\ DeleteMark(d) /\ parent[d] = x.to /\ pc[d] = "checked"
                             /\ pc'[d] = "done"
    BY <1>1, <1>3, TableMoves DEF DeleteMark, CallTypes
  <2>2. x.by \in Givers /\ x.by \notin before[d]
    BY <1>3, <2>1 DEF DeleteInv
  <2>3. pc[x.by] # "idle" /\ d \notin before[x.by]
    BY <1>3, <2>1, <2>2, OnlyDoneIsKnown DEF BeforeInv
  <2>4. Kept(d) /\ Kept(x.by)
    BY <2>1, <2>2, <2>3, Settled
  <2>5. QED
    BY <2>1, <2>2, <2>3, <2>4 DEF Kept
<1>4. CASE x \notin links
  <2>0. deleted' \subseteq RoleIds
    BY TableMoves DEF CallTypes, DeleteMark, Available
  <2>1. PICK s \in Replaces : ReplaceInsert(s)
    BY <1>1, <1>4, <2>0, TableMoves, RoleCreated DEF RemoveUser
  <2>2. /\ s \in Givers /\ x.by = s /\ x.to \in children[s] /\ Begun(s)
        /\ \A d \in Requests : s \notin before[d]
    BY <1>1, <1>4, <2>0, <2>1, InsertsRole
  <2>3. PICK d \in Deletes : parent[d] = x.to /\ pc[d] = "done"
    BY <1>1, <2>1 DEF ReplaceInsert, DeleteInv
  <2>4. d \notin before[s]
    BY <2>2, <2>3 DEF DeleteInv
  <2>5. Kept(d) /\ pc'[d] = "done" /\ Kept(s)
    BY <2>2, <2>3, Settled
  <2>6. QED
    BY <2>2, <2>3, <2>4, <2>5 DEF Kept
<1>5. QED
  BY <1>2, <1>3, <1>4

-----------------------------------------------------------------------------
\* One role each

\* An account goes only when its user is removed.
LEMMA AccountsStay ==
    ASSUME [Next]_vars, NEW v \in accounts, ~(v \in Subjects /\ RemoveUser(v))
    PROVE  v \in accounts'
  BY TableMoves DEF CreateAccount, RemoveUser

LEMMA LockKept ==
    ASSUME CallTypes, CallsInv, LinkTypes, DataInv, LockInv, [Next]_vars
    PROVE  LockInv'
<1> USE Kinds
<1>0. late \subseteq late'
  BY TableMoves DEF Timeout
<1>1. ASSUME NEW r \in Open'
      PROVE  /\ Kept(r) /\ r \in Givers
             /\ \/ r \in Open
                \/ pc[r] = "seen" /\ pc'[r] = "write" /\ r \in Assigns /\ EditUser(r)
                \/ pc[r] = "seen" /\ pc'[r] = "write" /\ r \in Creations /\ CreateAccount(r)
  <2>1. r \in Givers /\ r \notin late /\ pc'[r] \in Writing
    BY <1>0, <1>1 DEF Open
  <2>2. pc[r] # "idle"
    <3>1. SUFFICES ASSUME pc[r] = "idle"
                   PROVE  FALSE
      OBVIOUS
    <3>2. AssignBegin(r) \/ CreateBegin(r)
      BY <2>1, <3>1, GiverBegins
    <3>3. pc'[r] \in {"seen", "rejected"}
      BY <2>1, <3>2 DEF AssignBegin, CreateBegin, Seen, CallTypes
    <3>4. QED
      BY <2>1, <3>3
  <2>3. CASE pc[r] \in Writing
    BY <2>1, <2>2, <2>3, Settled DEF Open
  <2>4. CASE pc[r] \notin Writing
    <3>1. pc[r] = "seen" /\ pc'[r] = "write"
      BY <2>1, <2>2, <2>4, ReplaceMoves, StatementMoves DEF Same
    <3>2. QED
      BY <2>1, <3>1, GiverBegins, Settled
  <2>5. QED
    BY <2>3, <2>4
<1>2. ASSUME NEW r \in Open' \cap Assigns, NEW s \in Open' \cap Assigns, parent'[r] = parent'[s]
      PROVE  r = s
  <2>1. parent[r] = parent[s]
    BY <1>1, <1>2 DEF Kept
  <2>2. ASSUME NEW v \in Assigns, EditUser(v), pc[v] = "seen",
               NEW w \in Assigns \cap Open', parent[v] = parent[w]
        PROVE  v = w
    <3>1. w \notin Open
      BY <2>2 DEF EditUser, UserLocked
    <3>2. pc[w] # pc'[w]
      BY <1>1, <2>2, <3>1
    <3>3. QED
      BY <2>2, <3>2 DEF EditUser, CallTypes
  <2>3. r \in Open \/ EditUser(r)
    BY <1>1, <1>2
  <2>4. s \in Open \/ EditUser(s)
    BY <1>1, <1>2
  <2>5. pc[r] = "seen" \/ r \in Open
    BY <1>1, <1>2
  <2>6. pc[s] = "seen" \/ s \in Open
    BY <1>1, <1>2
  <2>7. QED
    BY <1>2, <2>1, <2>2, <2>3, <2>4, <2>5, <2>6 DEF LockInv
<1>3. ASSUME NEW r \in Open'
      PROVE  parent'[r] \in accounts'
  <2>1. CASE r \in Open
    <3>1. parent[r] \in accounts /\ pc[r] \in Writing
      BY <2>1 DEF LockInv, Open
    <3>2. ASSUME NEW u \in Subjects, RemoveUser(u)
          PROVE  u # parent[r]
      <4>1. CASE r \in Assigns
        BY <2>1, <3>2, <4>1 DEF RemoveUser, UserLocked
      <4>2. CASE r \in Creations
        <5>1. parent[r] = r /\ data[r] = None /\ r \notin Users
          BY <3>1, <4>2 DEF CallsInv, DataInv
        <5>2. QED
          BY <3>2, <5>1 DEF RemoveUser, Present
      <4>3. QED
        BY <1>1, <4>1, <4>2
    <3>3. parent[r] \in accounts'
      BY <3>1, <3>2, AccountsStay
    <3>4. QED
      BY <1>1, <3>3 DEF Kept
  <2>2. CASE r \in Assigns /\ EditUser(r)
    BY <1>1, <2>2 DEF EditUser, Present, Kept
  <2>3. CASE r \in Creations /\ CreateAccount(r)
    BY <1>1, <2>3 DEF CreateAccount, CallsInv, Kept
  <2>4. QED
    BY <1>1, <2>1, <2>2, <2>3
<1>4. QED
  BY <1>2, <1>3 DEF LockInv

\* Unless somebody was late, one call at most writes to an account.
LEMMA Alone ==
    ASSUME CallTypes, CallsInv, DataInv, LockInv,
           NEW r \in Givers, NEW s \in Givers, pc[r] \in Writing, pc[s] \in Writing,
           parent[r] = parent[s], ~Late(parent[r])
    PROVE  r = s
<1>1. CASE r \in Assigns /\ s \in Assigns
  BY <1>1 DEF Late, LockInv, Open
<1>2. CASE r \in Creations /\ s \in Creations
  BY <1>2 DEF CallsInv
<1>3. ASSUME NEW v \in Assigns, NEW w \in Creations, pc[v] \in Writing, pc[w] \in Writing,
             parent[v] = parent[w]
      PROVE  FALSE
  <2>1. parent[v] = w
    BY <1>3 DEF CallsInv
  <2>2. data[w] # None
    BY <1>3, <2>1 DEF DataInv
  <2>3. QED
    BY <1>3, <2>2 DEF DataInv
<1>4. QED
  BY <1>1, <1>2, <1>3

\* Who was late stays late, with the same user.
LEMMA LateStays ==
    ASSUME CallTypes, CallsInv, LinkTypes, [Next]_vars, NEW u, Late(u)
    PROVE  \E r \in late' \cap Assigns : parent'[r] = u
<1>1. PICK r \in late \cap Assigns : parent[r] = u
  BY DEF Late
<1>2. Kept(r)
  BY <1>1, Settled, Kinds DEF CallsInv
<1>3. late \subseteq late'
  BY TableMoves DEF Timeout
<1>4. QED
  BY <1>1, <1>2, <1>3 DEF Kept

\* A new link of an account is inserted by a call that gives it a role.
LEMMA NewLinkOf ==
    ASSUME CallTypes, CallsInv, LinkTypes, [Next]_vars,
           NEW u \in Subjects, NEW x \in links', x.of = u, x \notin links
    PROVE  \E s \in Givers : ReplaceInsert(s) /\ parent[s] = u /\ pc[s] = "deleted"
<1>1. PICK s \in Replaces : ReplaceInsert(s)
  BY TableMoves, RoleCreated DEF RemoveUser
<1>2. parent[s] = u /\ pc[s] = "deleted"
  BY <1>1, Inserted, StatementMoves
<1>3. s \notin Updates
  BY <1>2 DEF CallsInv, CallTypes
<1>4. QED
  BY <1>1, <1>2, <1>3, Kinds

LEMMA HandKept ==
    ASSUME CallTypes, CallsInv, LinkTypes, DataInv, LockInv, HandInv, [Next]_vars
    PROVE  HandInv'
<1> USE Kinds
<1>1. ASSUME NEW r \in Givers, pc'[r] \in {"matched", "deleted"},
             ~\E q \in late' \cap Assigns : parent'[q] = parent'[r],
             NEW x \in links', x.of = parent'[r]
      PROVE  x \in hit'[r]
  <2>1. Kept(r) /\ pc[r] \in Writing /\ (Same(r) \/ ReplaceMatch(r) \/ ReplaceDelete(r))
    BY <1>1, ReplaceMoves, StatementMoves DEF Same
  <2>2. ~Late(parent[r])
    <3>1. parent'[r] = parent[r]
      BY <2>1 DEF Kept
    <3>2. QED
      BY <1>1, <3>1, LateStays
  <2>3. x.of = parent[r] /\ parent[r] \in Subjects
    BY <1>1, <2>1 DEF Kept, CallsInv
  <2>4. CASE ReplaceMatch(r)
    BY <1>1, <2>3, <2>4 DEF ReplaceMatch, LinksOf, LinkTypes
  <2>5. CASE ReplaceDelete(r)
    <3>1. PICK L : /\ hit[r] \cap links \subseteq L /\ hit' = [hit EXCEPT ![r] = L] /\ links' = links
      BY <2>5 DEF ReplaceDelete
    <3>2. x \in hit[r]
      BY <1>1, <2>2, <2>3, <2>5, <3>1, StatementMoves DEF HandInv, LinksOf
    <3>3. QED
      BY <1>1, <3>1, <3>2 DEF LinkTypes
  <2>6. CASE Same(r)
    <3>1. x \in links
      BY <1>1, <2>1, <2>2, <2>3, <2>6, NewLinkOf, Alone, StatementMoves DEF Same
    <3>2. QED
      BY <1>1, <2>2, <2>3, <2>6, <3>1 DEF HandInv, LinksOf, Same
  <2>7. QED
    BY <2>1, <2>4, <2>5, <2>6
<1>2. ASSUME NEW r \in Creations, pc'[r] \in {"write", "matched", "deleted"},
             NEW x \in links', x.of = r
      PROVE  FALSE
  <2>1. pc[r] \in {"idle", "seen", "write", "matched", "deleted"}
    BY <1>2, ReplaceMoves, StatementMoves DEF Same
  <2>2. x \notin links
    BY <1>2, <2>1 DEF HandInv, DataInv, LinkTypes, LinksOf, CallTypes
  <2>3. PICK s \in Givers : ReplaceInsert(s) /\ parent[s] = r /\ pc[s] = "deleted"
    BY <1>2, <2>2, NewLinkOf
  <2>4. s \notin Assigns
    BY <2>1, <2>3 DEF DataInv
  <2>5. s = r
    BY <2>3, <2>4 DEF CallsInv
  <2>6. QED
    BY <1>2, <2>3, <2>5, StatementMoves
<1>3. QED
  BY <1>1, <1>2 DEF HandInv, LinksOf, Late

LEMMA OneRoleKept ==
    ASSUME CallTypes, CallsInv, LinkTypes, DataInv, LockInv, HandInv, OneRoleEach,
           CallTypes', LinkTypes', [Next]_vars
    PROVE  OneRoleEach'
<1> USE Kinds
<1>1. SUFFICES ASSUME NEW x \in links', NEW y \in links', x.of = y.of, x.of \in accounts', x # y,
                      ~Late(x.of)
               PROVE  FALSE
  BY LateStays DEF OneRoleEach, Late
<1>2. x.of \in Subjects
  BY <1>1 DEF CallTypes
<1>3. ~(x \in links /\ y \in links)
  <2>1. SUFFICES ASSUME x \in links, y \in links
                 PROVE  FALSE
    OBVIOUS
  <2>2. x.of \in accounts
    BY <1>2, <2>1 DEF LinkTypes, CallTypes
  <2>3. QED
    BY <1>1, <2>1, <2>2 DEF OneRoleEach, Late
<1>4. PICK s \in Givers : ReplaceInsert(s) /\ parent[s] = x.of /\ pc[s] = "deleted"
  BY <1>1, <1>2, <1>3, NewLinkOf
<1>5. LinksOf({x.of}) \subseteq hit[s]
  BY <1>1, <1>4 DEF HandInv
<1>6. PICK i : children[s] = {i}
  BY <1>4 DEF CallsInv
<1>7. ASSUME NEW z \in links', z.of = x.of
      PROVE  z.to = i
  <2>1. z \notin links \ hit[s]
    BY <1>5, <1>7 DEF LinksOf
  <2>2. QED
    BY <1>4, <1>6, <1>7, <2>1, Inserted
<1>8. QED
  BY <1>1, <1>7 DEF LinkTypes

-----------------------------------------------------------------------------
\* Data and role

LEMMA RoleWrittenKept ==
    ASSUME CallTypes, CallsInv, LinkTypes, DataInv, RoleWrittenInv, [Next]_vars
    PROVE  RoleWrittenInv'
<1> USE Kinds
<1>1. ASSUME NEW r \in Replaces, pc'[r] \in {"idle", "seen", "write"}
      PROVE  hit'[r] = {}
  BY <1>1, ReplaceMoves, StatementMoves DEF Same, RoleWrittenInv
<1>2. ASSUME NEW u \in Subjects, data'[u] # None
      PROVE  pc'[data'[u]] = "done" /\ parent'[data'[u]] = u
  <2>1. CASE data'[u] = data[u]
    <3>1. data[u] \in Requests /\ pc[data[u]] = "done" /\ parent[data[u]] = u
      BY <1>2, <2>1 DEF RoleWrittenInv, CallTypes
    <3>2. QED
      BY <2>1, <3>1, Settled DEF Kept
  <2>2. CASE data'[u] # data[u]
    <3>1. PICK s \in Givers : CommitUser(s)
      BY <2>2, TableMoves
    <3>2. data'[u] = s /\ parent[s] = u /\ pc'[s] = "done" /\ parent' = parent
      BY <2>2, <3>1 DEF CommitUser, CallTypes
    <3>3. QED
      BY <3>2
  <2>3. QED
    BY <2>1, <2>2
<1>3. ASSUME NEW s \in Replaces, pc[s] \notin {"write", "matched"}, hit[s] # {}
      PROVE  pc'[s] \notin {"write", "matched"} /\ hit'[s] = hit[s]
  BY <1>3, ReplaceMoves, StatementMoves DEF Same, RoleWrittenInv
<1>4. ASSUME NEW r \in Givers, pc'[r] \in {"linked", "done"}, parent'[r] \in accounts'
      PROVE  Accounted(r)'
  <2>1. CASE ReplaceInsert(r)
    <3>1. PICK i : children[r] = {i}
      BY <2>1, StatementMoves DEF CallsInv
    <3>2. [of |-> parent[r], to |-> i, by |-> r] \in links' /\ parent'[r] = parent[r]
      BY <2>1, <3>1, Inserted, StatementMoves DEF Kept
    <3>3. QED
      BY <3>2 DEF Accounted
  <2>2. CASE ~ReplaceInsert(r)
    <3>1. Kept(r) /\ pc[r] \in {"linked", "done"}
      BY <1>4, <2>2, ReplaceMoves, StatementMoves DEF Same
    <3>2. parent[r] \in accounts
      <4>1. ASSUME NEW s \in Creations, CreateAccount(s), s = parent[r]
            PROVE  FALSE
        <5>1. CASE r \in Assigns
          BY <3>1, <4>1, <5>1 DEF CreateAccount, DataInv
        <5>2. CASE r \in Creations
          BY <3>1, <4>1, <5>2 DEF CreateAccount, CallsInv
        <5>3. QED
          BY <5>1, <5>2
      <4>2. parent[r] \in accounts'
        BY <1>4, <3>1 DEF Kept
      <4>3. QED
        BY <4>1, <4>2, TableMoves DEF CreateAccount, RemoveUser
    <3>3. PICK x : /\ x.of = parent[r] /\ x.by = r
                   /\ \/ x \in links
                      \/ \E s \in Replaces \ {r} : pc[s] \notin {"write", "matched"} /\ x \in hit[s]
      BY <3>1, <3>2 DEF RoleWrittenInv, Accounted
    <3>4. ASSUME NEW s \in Replaces \ {r}, pc[s] \notin {"write", "matched"}, x \in hit[s]
          PROVE  Accounted(r)'
      <4>1. pc'[s] \notin {"write", "matched"} /\ x \in hit'[s]
        BY <1>3, <3>4
      <4>2. QED
        BY <3>1, <3>3, <4>1 DEF Accounted, Kept
    <3>5. CASE x \in links'
      BY <3>1, <3>3, <3>5 DEF Accounted, Kept
    <3>6. CASE x \in links /\ x \notin links'
      <4>1. ASSUME NEW s \in Replaces, ReplaceInsert(s)
            PROVE  Accounted(r)'
        BY <2>2, <3>4, <3>6, <4>1, Inserted, StatementMoves
      <4>2. ASSUME NEW u \in Subjects, RemoveUser(u)
            PROVE  FALSE
        BY <1>4, <3>1, <3>3, <3>6, <4>2 DEF RemoveUser, LinksOf, Kept
      <4>3. QED
        BY <3>6, <4>1, <4>2, TableMoves, RoleCreated
    <3>7. QED
      BY <3>3, <3>4, <3>5, <3>6
  <2>3. QED
    BY <2>1, <2>2
<1>5. QED
  BY <1>1, <1>2, <1>4 DEF RoleWrittenInv

LEMMA DataHasRoleFollows ==
    CallTypes /\ RoleWrittenInv => DataHasRole
<1> SUFFICES ASSUME CallTypes, RoleWrittenInv, NEW u \in accounts, data[u] # None
             PROVE  \/ \E x \in links : x.of = u /\ x.by = data[u]
                    \/ \E r \in Replaces \ {data[u]} : \E x \in hit[r] : x.of = u /\ x.by = data[u]
  BY DEF DataHasRole
<1>1. data[u] \in Givers /\ pc[data[u]] = "done" /\ parent[data[u]] = u
  BY DEF CallTypes, RoleWrittenInv
<1>2. Accounted(data[u])
  BY <1>1 DEF RoleWrittenInv
<1>3. QED
  BY <1>1, <1>2 DEF Accounted

-----------------------------------------------------------------------------
\* Theorems

LEMMA InitIInv == Init => IInv
<1> SUFFICES ASSUME Init PROVE IInv
  OBVIOUS
<1> USE Kinds
<1>1. TypeOK
  BY InitTypes
<1>2. /\ \A r \in Requests : pc[r] = "idle" /\ before[r] = {} /\ hit[r] = {}
      /\ late = {} /\ deleted = {} /\ accounts = Users /\ \A u \in Subjects : data[u] = None
      /\ \A x \in links : x.by = None
  BY DEF Init
<1>3. \A x, y \in links : x.of = y.of /\ x.of \in accounts => x = y
  BY DEF Init
<1>4. CallsInv /\ BeforeInv /\ DataInv
  BY <1>2 DEF CallsInv, BeforeInv, DataInv
<1>5. LockInv /\ HandInv /\ OneRoleEach
  BY <1>2, <1>3 DEF LockInv, HandInv, OneRoleEach, Open, LinksOf, TypeOK
<1>6. SupersededInv /\ CheckInv /\ GrantIsFresh /\ DeleteInv /\ DeletedNotAssigned
  BY <1>2 DEF SupersededInv, CheckInv, GrantIsFresh, DeleteInv, DeletedNotAssigned
<1>7. RoleWrittenInv /\ DataHasRole
  BY <1>2 DEF RoleWrittenInv, DataHasRole
<1>8. QED
  BY <1>1, <1>4, <1>5, <1>6, <1>7 DEF IInv

LEMMA NextIInv == IInv /\ [Next]_vars => IInv'
<1> SUFFICES ASSUME IInv, [Next]_vars PROVE IInv'
  OBVIOUS
<1>1. CallTypes /\ LinkTypes
  BY TypeParts DEF IInv
<1>2. CallTypes' /\ CallsInv' /\ LinkTypes' /\ TypeOK'
  BY <1>1, CallsKept, LinksKept DEF IInv, TypeOK, CallTypes, LinkTypes
<1>3. BeforeInv' /\ DataInv'
  BY <1>1, BeforeKept, DataKept DEF IInv
<1>4. LockInv' /\ HandInv' /\ OneRoleEach'
  BY <1>1, <1>2, LockKept, HandKept, OneRoleKept DEF IInv
<1>5. SupersededInv' /\ CheckInv' /\ GrantIsFresh'
  BY <1>1, SupersededKept, ChecksKept DEF IInv
<1>6. DeleteInv' /\ DeletedNotAssigned'
  BY <1>1, DeleteKept, DeletedKept DEF IInv
<1>7. RoleWrittenInv'
  BY <1>1, RoleWrittenKept DEF IInv
<1>8. DataHasRole'
  BY <1>2, <1>7, DataHasRoleFollows, PTL
<1>9. QED
  BY <1>2, <1>3, <1>4, <1>5, <1>6, <1>7, <1>8 DEF IInv

\* The invariant that the run checks holds for any calls, users, roles and
\* permissions, however their steps interleave, time out and fail.
THEOREM Inductive == Spec => []IInv
<1>1. QED
  BY InitIInv, NextIInv, PTL DEF Spec

\* The tables hold what their columns can, a key names one link, and a link
\* belongs to an account or a role that exists.
THEOREM TypeCorrect == Spec => []TypeOK
<1>1. IInv => TypeOK
  BY DEF IInv
<1>2. QED
  BY <1>1, Inductive, PTL

\* An account has two roles only if the transaction of an update of its user
\* timed out: otherwise the row that UserService.update writes first keeps
\* all others out of updateRole.
THEOREM OneRoleEachHolds == Spec => []OneRoleEach
<1>1. IInv => OneRoleEach
  BY DEF IInv
<1>2. QED
  BY <1>1, Inductive, PTL

\* A permission is granted through a role and permissions of it that no call
\* answered before the check had superseded, although getByUser reads the
\* two in two statements.
THEOREM GrantIsFreshHolds == Spec => []GrantIsFresh
<1>1. IInv => GrantIsFresh
  BY DEF IInv
<1>2. QED
  BY <1>1, Inductive, PTL

\* A deleted role is assigned only by a call that overlapped its deletion:
\* hasUser and existsOrThrow keep out everybody else.
THEOREM DeletedNotAssignedHolds == Spec => []DeletedNotAssigned
<1>1. IInv => DeletedNotAssigned
  BY DEF IInv
<1>2. QED
  BY <1>1, Inductive, PTL

\* A user shows the data of an update only with the role it was given, until
\* another call takes that role away.
THEOREM DataHasRoleHolds == Spec => []DataHasRole
<1>1. IInv => DataHasRole
  BY DEF IInv
<1>2. QED
  BY <1>1, Inductive, PTL
=============================================================================
