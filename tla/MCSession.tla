----------------------------- MODULE MCSession -----------------------------
(* Symmetry and the bound for the run of Session. *)
EXTENDS SessionInv, FiniteSets, TLC

CONSTANT MaxBegun     \* how many requests begin in one behaviour; accounts
                      \* without a user count as one each

Begun == {r \in Requests : pc[r] # "idle"}
Load == Cardinality(Begun) + Cardinality(Accounts \ Users)
BoundedSpec == Init /\ [][Next /\ Load' <= MaxBegun]_vars

Symmetry == Permutations(Refreshes)
=============================================================================
