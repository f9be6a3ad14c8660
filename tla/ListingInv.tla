----------------------------- MODULE ListingInv -----------------------------
(* The inductive invariant behind WalkSeesAll: what the pages asked so far *)
(* have passed over, and what the pages still to come will repeat.         *)
EXTENDS Listing

\* How many rows of R come before r: from 0, with one row to a position.
At(R, r) == Cardinality({s \in R : Before(s, r)})

\* The positions that the pages before the next one have covered.
Passed == IF pc = "done" THEN page * limit ELSE (page - 1) * limit

\* The rows the walk has gone past without being given them, and those it
\* has been given and is to meet again.
Skipped == {r \in rows : r.id \in met \ ToSet(seen) /\ At(rows, r) < Passed}
Ahead == {r \in rows : r.id \in ToSet(seen) /\ At(rows, r) >= Passed}

TypeOK ==
    /\ list \in Lists /\ limit \in Limits /\ page \in Nat /\ total \in Nat
    /\ rows \subseteq Rows
    /\ pc \in {"count", "find", "done"}
    /\ seen \in Seq(1..MaxRows)
    /\ met \subseteq 1..MaxRows
    /\ inserts \subseteq 1..MaxRows /\ removes \subseteq 1..MaxRows
    /\ tied \in BOOLEAN

\* An id is given out once, and the list holds what was inserted and not
\* removed; what was ever tied stays noted.
IdsInv ==
    /\ \A r, s \in rows : r.id = s.id => r = s
    /\ Ids(rows) = (met \cup inserts) \ removes
    /\ removes \subseteq met \cup inserts
    /\ ToSet(seen) \subseteq met \cup inserts
    /\ late \subseteq inserts /\ inserts \cap met = {}
    /\ Tied(rows) => tied

\* All rows at once: nothing is given before the statement, everything then.
AllInv ==
    page = 0 => IF pc = "done" THEN Missed = {} /\ Repeats = 0 ELSE seen = <<>>

\* A removal pulls at most one row over the border of the pages asked ...
SkippedInv == page > 0 /\ ~tied => Cardinality(Skipped) <= Cardinality(removes)

\* ... and an insert pushes at most one back.
AheadInv == page > 0 /\ ~tied => Repeats + Cardinality(Ahead) <= Cardinality(inserts)

\* The pages the client is told of hold all rows but those inserted since.
TotalInv ==
    /\ pc = "find" /\ page > 0 => Cardinality(rows) <= total * limit + Cardinality(late \ removes)
    /\ pc = "done" /\ page > 0 => Cardinality(rows) <= page * limit + Cardinality(late \ removes)

IInv == TypeOK /\ IdsInv /\ AllInv /\ SkippedInv /\ AheadInv /\ TotalInv
=============================================================================
