----------------------------- MODULE SessionInv -----------------------------
(* The inductive invariant behind the safety properties of Session. *)
EXTENDS Session

\* When a token was signed.
Signed(t) == t.exp - Expires

\* A token was signed between its login and now, at a moment when the limit
\* computed at the login was not over, or not yet after a wrap around.
TokensInv ==
    \A t \in tokens :
        /\ t.since <= Signed(t) /\ Signed(t) <= clock
        /\ t.refreshExp = IF RefreshExpires = 0 THEN 0 ELSE ToInt32(t.since) + RefreshExpires
        /\ Limited(t.since) =>
              Signed(t) <= t.since + RefreshExpires + Overrun(t.since, Signed(t))

\* What a request carries was signed before it was looked at, and a call
\* past the first check of the guard carries what had not expired.
CarriedInv ==
    /\ \A r \in Requests : time[r] <= clock
    /\ \A c \in Calls : \A t \in token[c] : Signed(t) <= time[c]
    /\ \A c \in Calls : pc[c] \in {"verified", "passed", "done"} =>
          \A t \in token[c] : time[c] < t.exp

\* An account in shut has no enabled user, so that whoever was seen enabled
\* is not in it.
ShutInv ==
    /\ \A r \in Requests : shut[r] \subseteq Shut
    /\ \A r \in Calls : pc[r] # "idle" => sub[r] \in Accounts
    /\ \A c \in Calls : pc[c] \in {"passed", "done"} => sub[c] \notin shut[c]
    /\ \A l \in Logins : pc[l] \in {"enabled", "matched", "sign", "done"} =>
          \E a \in Accounts : a \notin shut[l]

IInv == TypeOK /\ TokensInv /\ CarriedInv /\ ShutInv /\ RefreshedInTime
=============================================================================
