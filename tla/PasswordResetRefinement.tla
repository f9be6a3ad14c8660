---------------------- MODULE PasswordResetRefinement ----------------------
(* The forgotten password and the registration, which share the codes of   *)
(* an account, implement the promise of OneTimeCode as well.  A code is    *)
(* that of an ask whose create has ended; a call presents the code it      *)
(* found live, and one that found none has presented nothing.              *)
EXTENDS PasswordResetInv

\* A verify goes on after its code is accepted and may still fail: that it
\* was accepted is a history variable.
VARIABLE marked

Marks == {v \in Verifies : pc[v] \in {"mark", "take"} /\ pc'[v] \in {"clear", "taken"}}

HInit == Init /\ marked = {}
HNext == Next /\ marked' = marked \cup Marks
HSpec == HInit /\ [][HNext]_<<vars, marked>>

Ended(q) == pc[q] \in {"done", "failed"}

Owner == [q \in Asks |-> IF Ended(q) THEN acct[q] ELSE None]
GoneIds == {q \in Asks : Ended(q) /\ q \notin live}
Caller == [v \in Verifies |-> IF code[v] = None THEN None ELSE acct[v]]
Candidate == [v \in Verifies |-> IF code[v] = None THEN {} ELSE {code[v]}]
Outcome == [v \in Verifies |->
    IF v \in marked THEN "accepted"
    ELSE IF code[v] = None THEN "none"
    ELSE IF pc[v] \in {"mark", "take"} THEN "open" ELSE "refused"]

OTC == INSTANCE OneTimeCode WITH
    CodeIds <- Asks, Calls <- Verifies,
    owner <- Owner, live <- live, gone <- GoneIds,
    caller <- Caller, candidate <- Candidate, outcome <- Outcome

\* However the calls of the forgotten password and of the registration
\* interleave, fail and lose their users, they only do to a code what the
\* promise allows.
Implements == OTC!Spec

-----------------------------------------------------------------------------
\* What the refinement needs beyond IInv: a create is going to invalidate
\* codes of its own account, and a verify has found a code before it marks
\* one.
HitInv ==
    \A q \in Asks : \A d \in hit[q] : Ended(d) /\ acct[d] = acct[q]

MarkedInv ==
    /\ marked \subseteq Verifies
    /\ \A v \in Verifies :
          /\ pc[v] \in {"mark", "take"} => code[v] # None
          /\ code[v] # None /\ v \notin marked => pc[v] \in {"mark", "take", "failed"}
          /\ v \in marked => code[v] # None /\ pc[v] \notin {"idle", "code", "mark", "take"}
          /\ pc[v] \in {"clear", "find", "make", "done", "taken"} => v \in marked

HInv == IInv /\ HitInv /\ MarkedInv
=============================================================================
