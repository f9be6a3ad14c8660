------------------------------ MODULE RolesInv ------------------------------
(* The inductive invariant behind the safety properties of Roles. *)
EXTENDS Roles

Givers == Assigns \cup Creations         \* the calls that give an account a role
Writing == {"write", "matched", "deleted", "linked"}
Begun(r) == pc[r] \notin {"idle", "rejected"}

-----------------------------------------------------------------------------
\* The calls

\* A call is about what its kind is about, at a place of its own handler.
\* What it has asked for it has found, and roles are never removed.
CallsInv ==
    /\ \A r \in Assigns : Begun(r) => parent[r] \in Subjects
    /\ \A r \in Creations : Begun(r) => parent[r] = r
    /\ \A r \in Givers : Begun(r) => \E i \in RoleIds : children[r] = {i}
    /\ \A r \in Updates : Begun(r) => parent[r] \in roles /\ children[r] \subseteq Permissions
    /\ \A d \in Deletes : Begun(d) => parent[d] \in RoleIds
    /\ \A r \in Givers : pc[r] \in {"idle", "seen", "rejected", "done", "failed"} \cup Writing
    /\ \A r \in Updates : pc[r] \in {"idle", "rejected", "done", "failed"} \cup Writing
    /\ \A d \in Deletes : pc[d] \in {"idle", "seen", "checked", "rejected", "done", "failed"}
    /\ \A c \in Checks :
          pc[c] \in {"idle", "roles", "permissions", "passed", "rejected", "done"}
    /\ \A r \in late : pc[r] \notin {"idle", "seen", "rejected"}

\* What a call knows as answered when it began was answered, and stays so;
\* whoever has written a link has begun.
BeforeInv ==
    /\ \A r \in Requests : before[r] \subseteq Succeeded
    /\ \A x \in links : x.by # None => pc[x.by] # "idle"

\* A creation shows data when it is done, and until then nobody assigns to
\* its account.
DataInv ==
    /\ \A u \in Creations : data[u] # None => pc[u] = "done"
    /\ \A r \in Assigns : parent[r] \in Creations /\ Begun(r) => data[parent[r]] # None
    /\ \A u \in Creations : pc[u] \in {"idle", "seen", "rejected"} => u \notin accounts

-----------------------------------------------------------------------------
\* One role each

\* Two open transactions never are about one user, and the account of an
\* open one is there.
LockInv ==
    /\ \A r, s \in Open \cap Assigns : parent[r] = parent[s] => r = s
    /\ \A r \in Open : parent[r] \in accounts

Late(u) == \E r \in late \cap Assigns : parent[r] = u

\* Unless somebody was late, a statement that replaces the roles of an
\* account has all of them in its hand.
HandInv ==
    /\ \A r \in Givers :
          pc[r] \in {"matched", "deleted"} /\ ~Late(parent[r]) =>
              LinksOf({parent[r]}) \subseteq hit[r]
    /\ \A r \in Creations :
          pc[r] \in {"write", "matched", "deleted"} => LinksOf({r}) = {}

-----------------------------------------------------------------------------
\* What is superseded

\* A replacement takes every link it supersedes with it: it has matched
\* what is still there, and then there is none.
SupersededInv ==
    \A r \in Replaces : \A x \in links :
        SupersededBy(x, r) =>
            /\ pc[r] \notin {"linked", "done"}
            /\ pc[r] \in {"matched", "deleted"} => x \in hit[r]

\* What a check has read was not superseded by what it knows.
CheckInv ==
    \A c \in Checks : pc[c] = "permissions" =>
        \A x \in hit[c] : x.of = parent[c] /\ ~\E r \in before[c] : SupersededBy(x, r)

-----------------------------------------------------------------------------
\* Deleted roles

\* A role is deleted by one call, and who knows of that call does not give
\* it; what a call to delete it did not see came after it began.
DeleteInv ==
    /\ \A d \in Deletes : pc[d] = "done" => parent[d] \in deleted
    /\ \A i \in deleted : \E d \in Deletes : parent[d] = i /\ pc[d] = "done"
    /\ \A d \in Deletes, r \in Givers :
          Begun(r) /\ d \in before[r] => parent[d] \notin children[r]
    /\ \A d \in Deletes : \A x \in links :
          pc[d] = "checked" /\ x.to = parent[d] => x.by \in Givers \ before[d]

-----------------------------------------------------------------------------
\* Data and role

\* The link that a call has written is there, or somebody else has taken it
\* whose statement has gone beyond its match.
Accounted(r) ==
    \E x \in links \cup UNION {hit[s] : s \in {q \in Replaces \ {r} : pc[q] \notin {"write", "matched"}}} :
        x.of = parent[r] /\ x.by = r

RoleWrittenInv ==
    /\ \A r \in Givers :
          pc[r] \in {"linked", "done"} /\ parent[r] \in accounts => Accounted(r)
    /\ \A u \in Subjects : data[u] # None => pc[data[u]] = "done" /\ parent[data[u]] = u
    /\ \A r \in Replaces : pc[r] \in {"idle", "seen", "write"} => hit[r] = {}

IInv ==
    /\ TypeOK /\ CallsInv /\ BeforeInv /\ DataInv
    /\ LockInv /\ HandInv /\ OneRoleEach
    /\ SupersededInv /\ CheckInv /\ GrantIsFresh
    /\ DeleteInv /\ DeletedNotAssigned
    /\ RoleWrittenInv /\ DataHasRole
=============================================================================
