------------------------------ MODULE Listing ------------------------------
(***************************************************************************)
(* A client that walks a list page by page while rows are inserted and     *)
(* removed: the pagination extension under the findAll of user accounts,   *)
(* SMS and mail logs (by id), roles (by id, descending), users and uploads *)
(* (by createdAt, descending).  A page is two statements, a count and a    *)
(* findMany, and every statement sees what has been committed by then.     *)
(*                                                                         *)
(* A transaction takes its id and its createdAt before it commits, so rows *)
(* may appear in any order of either.                                      *)
(***************************************************************************)
EXTENDS Naturals, FiniteSets, SequencesExt

CONSTANTS
    MaxRows,      \* ids given out
    MaxTime,      \* instants of createdAt; two rows may share one
    Limits        \* page sizes the client may ask for

ASSUME BoundsAssumption == MaxRows \in Nat /\ MaxTime \in Nat /\ Limits \subseteq Nat \ {0}

Lists == {"accounts", "logs", "roles", "users", "uploads"}
ByTime == {"users", "uploads"}

VARIABLES
    list, limit,  \* what the client walks, in pages of how many
    rows,         \* the committed rows that the list's where selects
    pc, page,     \* where the client is, and the page it asks for
    total,        \* totalPage, from the count of this page
    seen,         \* the ids it has been given, in order
    met,          \* the rows that were there when the walk began
    inserts, removes, late,  \* ids inserted, removed since; inserted since the count
    tied          \* whether two rows with one place in the order were ever there

walk == <<list, limit, page, met>>
vars == <<walk, rows, pc, total, seen, inserts, removes, late, tied>>

\* createdAt matters to the lists that are ordered by it
Rows == [id : 1..MaxRows, at : IF list \in ByTime THEN 1..MaxTime ELSE {1}]
Ids(R) == {r.id : r \in R}

\* orderBy of the findAll of each list; rows of one createdAt come in any order
Before(r, s) ==
    \/ list \in {"accounts", "logs"} /\ r.id < s.id
    \/ list = "roles" /\ r.id > s.id
    \/ list \in ByTime /\ r.at > s.at
Tied(R) == \E r, s \in R : r # s /\ ~Before(r, s) /\ ~Before(s, r)
Sorted(R) == {s \in SetToSeqs(R) : \A i, j \in DOMAIN s : i < j => ~Before(s[j], s[i])}

Ceil(n, d) == (n + d - 1) \div d
TotalPageFloor(n) == IF page > 0 THEN n \div limit ELSE IF n > 0 THEN 1 ELSE 0
TotalPage(n) == IF page > 0 THEN Ceil(n, limit) ELSE IF n > 0 THEN 1 ELSE 0

Slice(s, skip, take) == SubSeq(s, skip + 1, Min({skip + take, Len(s)}))
PageOf(s) == IF page > 0 THEN Slice(s, (page - 1) * limit, limit) ELSE s

Init ==
    /\ list \in Lists
    /\ limit \in Limits
    /\ page \in {0, 1}            \* page 0 asks for all rows at once
    /\ rows \in SUBSET Rows /\ Cardinality(Ids(rows)) = Cardinality(rows)
    /\ met = Ids(rows)
    /\ pc = "count" /\ total = 0 /\ seen = <<>>
    /\ inserts = {} /\ removes = {} /\ late = {}
    /\ tied = Tied(rows)

Count ==
    /\ pc = "count"
    /\ pc' = "find"
    /\ total' = TotalPage(Cardinality(rows))
    /\ late' = {}
    /\ UNCHANGED <<walk, rows, seen, inserts, removes, tied>>

\* The client goes on until it has asked for totalPage pages.
Find ==
    /\ pc = "find"
    /\ \E s \in Sorted(rows) :
          seen' = seen \o [i \in DOMAIN PageOf(s) |-> PageOf(s)[i].id]
    /\ IF page > 0 /\ page < total
       THEN page' = page + 1 /\ pc' = "count"
       ELSE page' = page /\ pc' = "done"
    /\ UNCHANGED <<list, limit, met, rows, total, inserts, removes, late, tied>>

\* Another caller's insert commits: register, sendSms, POST role, upload, ...
Insertion ==
    /\ pc # "done"
    /\ \E r \in Rows :
          /\ r.id \notin met \cup inserts
          /\ rows' = rows \cup {r}
          /\ inserts' = inserts \cup {r.id}
          /\ late' = late \cup {r.id}
          /\ tied' = (tied \/ Tied(rows'))
    /\ UNCHANGED <<walk, pc, total, seen, removes>>

\* A row leaves the list: DELETE user, which deletes the account and with it
\* its logs, and DELETE role with its deletedAt.  Nothing removes an upload.
Removal ==
    /\ pc # "done" /\ list # "uploads"
    /\ \E r \in rows :
          rows' = rows \ {r} /\ removes' = removes \cup {r.id}
    /\ UNCHANGED <<walk, pc, total, seen, inserts, late, tied>>

Next == Count \/ Find \/ Insertion \/ Removal
Spec == Init /\ [][Next]_vars

-----------------------------------------------------------------------------
\* What a walk may miss of the rows that were there all along, and how often
\* it may repeat itself: every removal hides at most one row, every insert
\* shows at most one twice, and an insert between the count and the findMany
\* of the last page hides at most one.  Rows of one createdAt are excepted:
\* nothing orders them.
Missed == (met \ removes) \ ToSet(seen)
Repeats == Len(seen) - Cardinality(ToSet(seen))
WalkSeesAll ==
    pc = "done" =>
        /\ page = 0 => Missed = {} /\ Repeats = 0
        /\ ~tied => /\ Cardinality(Missed) <= Cardinality(removes \cup late)
                   /\ Repeats <= Cardinality(inserts)
=============================================================================
