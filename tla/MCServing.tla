----------------------------- MODULE MCServing -----------------------------
(* The bound for the run of Serving. *)
EXTENDS ServingInv

CONSTANT MaxBegun     \* how many of the requests begin in one behaviour

Begun == {r \in Requests : pc[r] # "idle"}
BoundedSpec ==
    Init /\ [][Next /\ Cardinality(Begun') <= MaxBegun]_vars /\ Fairness
=============================================================================
