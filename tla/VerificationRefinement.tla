----------------------- MODULE VerificationRefinement -----------------------
(* The statements of the verification service implement the promise of     *)
(* OneTimeCode.  A code is the row of a create that has ended.             *)
EXTENDS VerificationInv

Ended(c) == pc[c] \in {"done", "failed"}

Owner == [c \in Creates |-> IF Ended(c) THEN account[c] ELSE None]
LiveIds == {c \in Creates : Live(c)}
GoneIds == {c \in Creates : Ended(c) /\ ~Live(c)}
Caller == [v \in Verifies |-> account[v]]
Candidate == [v \in Verifies |-> hit[v]]
Outcome == [v \in Verifies |->
    IF pc[v] = "idle" THEN "none"
    ELSE IF pc[v] \in {"read", "passed"} THEN "open"
    ELSE IF pc[v] = "done" THEN "accepted" ELSE "refused"]

OTC == INSTANCE OneTimeCode WITH
    CodeIds <- Creates, Calls <- Verifies,
    owner <- Owner, live <- LiveIds, gone <- GoneIds,
    caller <- Caller, candidate <- Candidate, outcome <- Outcome

\* However the statements of create and verify interleave, with each other
\* and with the removal of accounts, they only do to a code what the promise
\* allows.
Implements == OTC!Spec
=============================================================================
