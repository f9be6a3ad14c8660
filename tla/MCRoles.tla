------------------------------ MODULE MCRoles ------------------------------
(* Symmetry and the bound for the run of Roles. *)
EXTENDS RolesInv, Naturals, TLC

CONSTANT MaxBegun     \* how many requests begin, first users are removed and
                      \* transactions run out of time in one behaviour

Started == {r \in Requests : pc[r] # "idle"}
Load == Cardinality(Started) + Cardinality(Users \ accounts) + Cardinality(late)
BoundedSpec == Init /\ [][Next /\ Load' <= MaxBegun]_vars

Symmetry == Permutations(Assigns) \cup Permutations(RoleIds)
=============================================================================
