------------------------------- MODULE Roles -------------------------------
(***************************************************************************)
(* Roles, who has them and what they permit: UserController.create and     *)
(* update as far as the role goes, RoleController, UserRoleService and     *)
(* PermissionService.                                                      *)
(*                                                                         *)
(* The tables user_account_has_role and role_has_permission are one set of *)
(* links: of an account to a role, of a role to a permission.  Both are    *)
(* rewritten by the same nested statement of Prisma, deleteMany followed   *)
(* by create in a transaction of its own, that locks nothing but the rows  *)
(* it deletes.  The interactive transaction around it in update holds the  *)
(* user's row; it may time out while the statement, sent through           *)
(* this.prisma, goes on.                                                   *)
(***************************************************************************)
EXTENDS FiniteSets

CONSTANTS
    Assigns,      \* calls of PATCH user/:userId with a role
    Creations,    \* calls of POST user
    Updates,      \* calls of PATCH role/:id with permissions
    Deletes,      \* calls of DELETE role/:id
    Checks,       \* calls that check a user's permissions, or are checked
    Users,        \* the users present at the start, each with its account
    Roots,        \* those of them whose column is_root is true
    RoleIds, Permissions,
    None          \* nothing, or the author of what was there at the start

Replaces == Assigns \cup Creations \cup Updates
Requests == Replaces \cup Deletes \cup Checks
Subjects == Users \cup Creations     \* a user created is named by its request

\* A call is of one endpoint, and the ids are those of one table each.
ASSUME NoneAssumption == None \notin Requests \cup Subjects \cup RoleIds \cup Permissions
ASSUME KindsAssumption ==
    /\ Assigns \cap Creations = {} /\ Users \cap Creations = {}
    /\ Updates \cap (Assigns \cup Creations) = {}
    /\ Deletes \cap Replaces = {} /\ Checks \cap (Replaces \cup Deletes) = {}
    /\ RoleIds \cap Subjects = {} /\ Permissions \cap (RoleIds \cup Subjects) = {}

VARIABLES
    accounts,     \* table user_account
    data,         \* table user: whose data the row of each subject shows
    roles,        \* table role
    deleted,      \* the roles whose deleted_at is set
    links,        \* the two tables of links; by inserted the row
    pc, parent,   \* where a request is, whose links it is about
    children,     \* the links it is to have, the permissions it needs
    hit,          \* the links its statement has matched or read
    late,         \* the requests whose interactive transaction timed out
    before        \* history: the requests answered with success when it began

tables == <<accounts, data, roles, deleted, links>>
locals == <<parent, children, hit, before>>
vars == <<tables, pc, locals, late>>

Available(i) == i \in roles /\ i \notin deleted
LinksOf(S) == {x \in links : x.of \in S}
Targets(L) == {x.to : x \in L}
Present == {u \in accounts : u \in Users \/ data[u] # None}   \* with a user row
Succeeded == {r \in Requests : pc[r] = "done"}

\* The requests whose interactive transaction is open.
Open ==
    {r \in (Assigns \cup Creations) \ late : pc[r] \in {"write", "matched", "deleted", "linked"}}

\* The links a statement has deleted and not yet committed, the users whose
\* row an open transaction has updated.
Unlocked(L) == \A r \in Replaces : pc[r] = "deleted" => hit[r] \cap L = {}
UserLocked(u) == \E r \in Open \cap Assigns : parent[r] = u

Goto(r, l) == pc' = [pc EXCEPT ![r] = l]
Begin(r, of, to) ==
    /\ parent' = [parent EXCEPT ![r] = of]
    /\ children' = [children EXCEPT ![r] = to]
    /\ before' = [before EXCEPT ![r] = Succeeded]

Init ==
    /\ accounts = Users
    /\ data = [u \in Subjects |-> None]
    /\ roles \in SUBSET RoleIds /\ deleted = {}
    /\ \E f \in [Users -> roles \cup {None}], g \in [roles -> SUBSET Permissions] :
         links = {[of |-> u, to |-> f[u], by |-> None] : u \in {v \in Users : f[v] # None}}
                 \cup UNION {{[of |-> i, to |-> p, by |-> None] : p \in g[i]} : i \in roles}
    /\ pc = [r \in Requests |-> "idle"]
    /\ parent = [r \in Requests |-> None]
    /\ children = [r \in Requests |-> {}]
    /\ hit = [r \in Requests |-> {}]
    /\ late = {}
    /\ before = [r \in Requests |-> {}]

-----------------------------------------------------------------------------
\* The handlers that give an account a role, up to updateRole.

\* existsOrThrow: the role given exists and is not deleted.
Seen(r, i) ==
    \/ Available(i) /\ Goto(r, "seen")
    \/ ~Available(i) /\ Goto(r, "rejected")

AssignBegin(r) ==
    /\ pc[r] = "idle"
    /\ \E u \in Present, i \in RoleIds : Begin(r, u, {i}) /\ Seen(r, i)
    /\ UNCHANGED <<tables, hit, late>>

CreateBegin(r) ==
    /\ pc[r] = "idle"
    /\ \E i \in RoleIds : Begin(r, r, {i}) /\ Seen(r, i)
    /\ UNCHANGED <<tables, hit, late>>

\* Mutant: the data is not written first, so that nothing is locked.
EditWithoutLock(r) ==
    /\ pc[r] = "seen"
    /\ parent[r] \in accounts
    /\ Goto(r, "write")
    /\ UNCHANGED <<tables, locals, late>>

\* update: the transaction finds the user and writes its data, waiting for
\* the row.
EditUser(r) ==
    /\ pc[r] = "seen"
    /\ parent[r] \in Present /\ ~UserLocked(parent[r])
    /\ Goto(r, "write")
    /\ UNCHANGED <<tables, locals, late>>

\* create: the account is inserted and committed outside the transaction.
CreateAccount(r) ==
    /\ pc[r] = "seen"
    /\ accounts' = accounts \cup {r}
    /\ Goto(r, "write")
    /\ UNCHANGED <<data, roles, deleted, links, locals, late>>

\* RoleController.update: existsOrThrow, then the role and its permissions.
UpdateBegin(r) ==
    /\ pc[r] = "idle"
    /\ \E i \in RoleIds, P \in SUBSET Permissions :
         /\ Begin(r, i, P)
         /\ \/ Available(i) /\ Goto(r, "write")
            \/ ~Available(i) /\ Goto(r, "rejected")
    /\ UNCHANGED <<tables, hit, late>>

-----------------------------------------------------------------------------
\* The nested deleteMany and create, for roles and for permissions.

\* Mutant: create without deleteMany.
ReplaceMatchNone(r) ==
    /\ pc[r] = "write"
    /\ parent[r] \in accounts \/ Available(parent[r])
    /\ Goto(r, "matched")
    /\ UNCHANGED <<tables, parent, children, hit, before, late>>

\* The record is found, a role only if it is not deleted, and the links
\* that exist are read.
ReplaceMatch(r) ==
    /\ pc[r] = "write"
    /\ parent[r] \in accounts \/ Available(parent[r])
    /\ hit' = [hit EXCEPT ![r] = LinksOf({parent[r]})]
    /\ Goto(r, "matched")
    /\ UNCHANGED <<tables, parent, children, before, late>>

\* They are deleted by their key, once nobody else has them locked: a row
\* inserted meanwhile under the same key goes with them, unless the delete
\* had to wait for the row it replaces.
ReplaceDelete(r) ==
    /\ pc[r] = "matched"
    /\ LET found == {x \in links : \E y \in hit[r] : x.of = y.of /\ x.to = y.to}
       IN \E L \in {found, found \cap hit[r]} :
            Unlocked(L) /\ hit' = [hit EXCEPT ![r] = L]
    /\ Goto(r, "deleted")
    /\ UNCHANGED <<tables, parent, children, before, late>>

\* The links are inserted and all is committed.  A link that is there
\* already, or an account that is gone, is an error.
ReplaceInsert(r) ==
    /\ pc[r] = "deleted"
    /\ parent[r] \in accounts \cup roles
    /\ children[r] \cap Targets(LinksOf({parent[r]}) \ hit[r]) = {}
    /\ links' = (links \ hit[r])
                \cup {[of |-> parent[r], to |-> i, by |-> r] : i \in children[r]}
    /\ Goto(r, IF r \in Updates THEN "done" ELSE "linked")
    /\ UNCHANGED <<accounts, data, roles, deleted, locals, late>>

\* Mutant: the data is committed before the role is assigned.
CommitEarly(r) ==
    /\ pc[r] \in {"write", "linked"} /\ r \in Open
    /\ data' = [data EXCEPT ![parent[r]] = r]
    /\ Goto(r, "done")
    /\ UNCHANGED <<accounts, roles, deleted, links, locals, late>>

\* The interactive transaction commits what it has written to the user.
CommitUser(r) ==
    /\ pc[r] = "linked" /\ r \in Open
    /\ data' = [data EXCEPT ![parent[r]] = r]
    /\ Goto(r, "done")
    /\ UNCHANGED <<accounts, roles, deleted, links, locals, late>>

\* The interactive transaction runs out of time and is rolled back; the
\* handler learns of it when it comes to commit.
Timeout(r) ==
    /\ r \in Open
    /\ late' = late \cup {r}
    /\ UNCHANGED <<tables, pc, locals>>

\* Any error on the way rolls back the statement and the transaction.
Abort(r) ==
    /\ pc[r] \in {"seen", "write", "matched", "deleted", "linked"}
    /\ Goto(r, "failed")
    /\ UNCHANGED <<tables, locals, late>>

-----------------------------------------------------------------------------
\* RoleController.create and remove, UserController.remove

\* A role is inserted together with its permissions.
CreateRole(i) ==
    /\ i \notin roles
    /\ roles' = roles \cup {i}
    /\ \E P \in SUBSET Permissions :
         links' = links \cup {[of |-> i, to |-> p, by |-> None] : p \in P}
    /\ UNCHANGED <<accounts, data, deleted, pc, locals, late>>

DeleteBegin(d) ==
    /\ pc[d] = "idle"
    /\ \E i \in RoleIds : Begin(d, i, {}) /\ Seen(d, i)
    /\ UNCHANGED <<tables, hit, late>>

\* Mutant: softDelete does not ask whether the role is assigned.
DeleteUnchecked(d) ==
    /\ pc[d] = "seen"
    /\ Goto(d, "checked")
    /\ UNCHANGED <<tables, locals, late>>

\* hasUser: some account has the role.
DeleteCheck(d) ==
    /\ pc[d] = "seen"
    /\ Goto(d, IF parent[d] \in Targets(links) THEN "rejected" ELSE "checked")
    /\ UNCHANGED <<tables, locals, late>>

\* softDelete asks once more that the role is not deleted.
DeleteMark(d) ==
    /\ pc[d] = "checked"
    /\ \/ /\ Available(parent[d])
          /\ deleted' = deleted \cup {parent[d]}
          /\ Goto(d, "done")
       \/ /\ ~Available(parent[d])
          /\ Goto(d, "failed")
          /\ UNCHANGED deleted
    /\ UNCHANGED <<accounts, data, roles, links, locals, late>>

\* Mutant: the links of an account do not go with it.
RemoveUserOnly(u) ==
    /\ u \in Present
    /\ ~UserLocked(u)
    /\ accounts' = accounts \ {u}
    /\ UNCHANGED <<data, roles, deleted, links, pc, locals, late>>

\* The account is deleted with its user and its links.
RemoveUser(u) ==
    /\ u \in Present
    /\ ~UserLocked(u) /\ Unlocked(LinksOf({u}))
    /\ accounts' = accounts \ {u}
    /\ links' = links \ LinksOf({u})
    /\ UNCHANGED <<data, roles, deleted, pc, locals, late>>

-----------------------------------------------------------------------------
\* checkPermission, PermissionGuard and getRolePermissions

\* The endpoint lets a root pass at once.
CheckBegin(c) ==
    /\ pc[c] = "idle"
    /\ \E u \in Present, P \in SUBSET Permissions :
         Begin(c, u, P) /\ Goto(c, IF u \in Roots THEN "passed" ELSE "roles")
    /\ UNCHANGED <<tables, hit, late>>

\* canActivate: the guard does not ask for a root, but for the permissions
\* that the handler needs, if any.
GuardBegin(c) ==
    /\ pc[c] = "idle"
    /\ \E u \in Present, P \in SUBSET Permissions :
         Begin(c, u, P) /\ Goto(c, IF P = {} THEN "passed" ELSE "roles")
    /\ UNCHANGED <<tables, hit, late>>

\* getByUser reads the roles of the account and then, in another statement,
\* the permissions of these roles, deleted or disabled ones too.
CheckRoles(c) ==
    /\ pc[c] = "roles"
    /\ hit' = [hit EXCEPT ![c] = LinksOf({parent[c]})]
    /\ Goto(c, "permissions")
    /\ UNCHANGED <<tables, parent, children, before, late>>

CheckPermissions(c) ==
    /\ pc[c] = "permissions"
    /\ LET granted == LinksOf(Targets(hit[c]))
       IN /\ hit' = [hit EXCEPT ![c] = @ \cup granted]
          /\ Goto(c, IF children[c] \subseteq Targets(granted) THEN "done" ELSE "rejected")
    /\ UNCHANGED <<tables, parent, children, before, late>>

-----------------------------------------------------------------------------

ReplaceStep(r) == ReplaceMatch(r) \/ ReplaceDelete(r) \/ ReplaceInsert(r)

Next ==
    \/ \E r \in Assigns \cup Creations :
          CommitUser(r) \/ Timeout(r)
    \/ \E r \in Assigns : AssignBegin(r) \/ EditUser(r)
    \/ \E r \in Creations : CreateBegin(r) \/ CreateAccount(r)
    \/ \E r \in Updates : UpdateBegin(r)
    \/ \E r \in Replaces : ReplaceStep(r) \/ Abort(r)
    \/ \E d \in Deletes : DeleteBegin(d) \/ DeleteCheck(d) \/ DeleteMark(d)
    \/ \E c \in Checks : CheckBegin(c) \/ GuardBegin(c) \/ CheckRoles(c) \/ CheckPermissions(c)
    \/ \E i \in RoleIds : CreateRole(i)
    \/ \E u \in Subjects : RemoveUser(u)

Spec == Init /\ [][Next]_vars

-----------------------------------------------------------------------------
\* Properties

States == {"idle", "seen", "write", "matched", "deleted", "linked", "checked",
           "roles", "permissions", "passed", "done", "rejected", "failed"}
Links == [of : Subjects, to : RoleIds, by : Replaces \cup {None}]
         \cup [of : RoleIds, to : Permissions, by : Replaces \cup {None}]

\* The tables hold what their columns can, a key names one link, and a link
\* belongs to an account or a role that exists.
TypeOK ==
    /\ accounts \subseteq Subjects
    /\ data \in [Subjects -> Assigns \cup Creations \cup {None}]
    /\ deleted \subseteq roles /\ roles \subseteq RoleIds
    /\ links \subseteq Links
    /\ \A x \in links : x.of \in accounts \cup roles
    /\ \A x, y \in links : x.of = y.of /\ x.to = y.to => x = y
    /\ pc \in [Requests -> States]
    /\ parent \in [Requests -> Subjects \cup RoleIds \cup {None}]
    /\ children \in [Requests -> (SUBSET RoleIds) \cup (SUBSET Permissions)]
    /\ hit \in [Requests -> SUBSET Links]
    /\ late \subseteq Assigns \cup Creations
    /\ before \in [Requests -> SUBSET Requests]

\* An account has two roles only if the transaction of an update of its user
\* timed out: the row that update writes first keeps the others out of
\* updateRole, which locks nothing itself.
OneRoleEach ==
    \A x, y \in links :
        x.of = y.of /\ x.of \in accounts /\ x # y =>
            \E r \in late \cap Assigns : parent[r] = x.of

\* Whatever link was there, or was answered, before a replacement of it
\* began that has been answered since: it is gone.
SupersededBy(x, r) ==
    r \in Replaces /\ parent[r] = x.of /\ (x.by = None \/ x.by \in before[r])

\* A permission is granted through a role and a list of permissions neither
\* of which had been superseded, by an answered call, before the check
\* began.
GrantIsFresh ==
    \A c \in Checks : pc[c] = "done" =>
        \A p \in children[c] : \E x, y \in hit[c] :
            /\ x.of = parent[c] /\ y.of = x.to /\ y.to = p
            /\ ~\E r \in before[c] : SupersededBy(x, r) \/ SupersededBy(y, r)

\* A deleted role is assigned only if the call that assigned it and a call
\* that deleted it overlapped: each asked before the other had written.
DeletedNotAssigned ==
    \A x \in links : x.to \in deleted =>
        \E d \in Deletes :
            /\ parent[d] = x.to /\ pc[d] = "done"
            /\ x.by # None /\ x.by \notin before[d] /\ d \notin before[x.by]

\* A user never shows the data of an update without having been given its
\* role: if the role is not there, another call has taken it away.
DataHasRole ==
    \A u \in accounts : data[u] # None =>
        \/ \E x \in links : x.of = u /\ x.by = data[u]
        \/ \E r \in Replaces \ {data[u]} : \E x \in hit[r] : x.of = u /\ x.by = data[u]
=============================================================================
