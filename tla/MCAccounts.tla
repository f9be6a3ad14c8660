----------------------------- MODULE MCAccounts -----------------------------
(* Symmetry and the bound for the runs of Accounts. *)
EXTENDS AccountsInv, TLC

CONSTANT MaxLoad      \* how much begins in one behaviour

\* The calls that insert an account have the most steps and count twice.
Begun(S) == Cardinality({r \in S : pc[r] # "idle"})
Load == Begun(Requests) + Begun(Registers \cup Creations \cup Socials)
BoundedSpec == Init /\ [][Next /\ Load' <= MaxLoad]_vars

Symmetry == Permutations(Registers)
=============================================================================
