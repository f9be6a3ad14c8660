-------------------------- MODULE VerificationInv --------------------------
(* The inductive invariant behind the safety properties of Verification. *)
EXTENDS Verification

\* Readings of the clock are past, and histories hold answered requests and
\* rows that some create has committed.
HistoryInv ==
    /\ \A r \in Requests : now[r] <= clock
    /\ \A r \in Requests : before[r] \subseteq Succeeded
    /\ \A r \in Requests : hit[r] \subseteq {c \in Creates : pc[c] \in {"done", "failed"}}
    /\ \A r \in Requests : pc[r] \in {"idle", "found"} => hit[r] = {}
    /\ stored \cup used \subseteq {c \in Creates : pc[c] \in {"done", "failed"}}

\* A live code that a create has to invalidate is among the rows it holds.
CreateInv ==
    \A c, d \in Creates :
        /\ pc[c] \in {"matched", "locked", "done"}
        /\ d \in before[c] /\ account[d] = account[c]
        /\ Live(d) /\ expireAt[d] > now[c]
        => pc[c] \in {"matched", "locked"} /\ d \in hit[c]

\* What verify has read matches its arguments and was not superseded by an
\* earlier create, apart from the expiry; later it was seen unexpired.
ReadInv ==
    \A v \in Verifies : pc[v] \in {"read", "passed", "done"} =>
        /\ hit[v] = {} \/ \E d \in Creates : hit[v] = {d}
        /\ \A d \in hit[v] : account[d] = account[v] /\ code[d] = code[v]
        /\ \A c \in before[v] \cap Creates : \A d \in before[c] \cap hit[v] :
              account[d] = account[c] => expireAt[d] <= now[c]

CheckInv ==
    \A v \in Verifies : pc[v] \in {"passed", "done"} =>
        /\ hit[v] # {}
        /\ \A d \in hit[v] : now[v] <= expireAt[d]
        /\ \A c \in before[v] : now[c] <= now[v]

\* A code accepted is marked, so that later reads did not find it.
UsedInv ==
    \A v \in Verifies :
        /\ pc[v] = "done" => hit[v] \subseteq used
        /\ pc[v] \in {"read", "passed", "done"} =>
              \A w \in before[v] \cap Verifies : hit[v] \cap hit[w] = {}

\* A code whose create was answered is missing, invalid or used only because
\* a request that has ended did it.
OutcomeInv ==
    /\ \A d \in Creates : \A c \in hit[d] : c # d /\ account[c] = account[d]
    /\ \A c \in Creates : pc[c] = "done" =>
          /\ c \notin stored => account[c] \notin users
          /\ c \notin isValid => \E d \in Creates \ {c} :
                pc[d] \in {"done", "failed"} /\ account[d] = account[c] /\ c \in hit[d]
          /\ c \in used => \E w \in Verifies :
                pc[w] \in {"done", "failed"} /\ code[w] = code[c] /\ c \in hit[w]

\* A verify that has found nothing was right, and what it has found and
\* rejected had expired.
ReasonInv ==
    \A v \in Verifies :
        /\ pc[v] \in {"read", "rejected"} /\ hit[v] = {} =>
              \A c \in before[v] \cap Creates :
                 account[c] = account[v] /\ code[c] = code[v] => Withdrawn(c, v)
        /\ pc[v] = "rejected" => \A d \in hit[v] : expireAt[d] < now[v]

IInv ==
    TypeOK /\ HistoryInv /\ CreateInv /\ ReadInv /\ CheckInv /\ UsedInv
    /\ OutcomeInv /\ ReasonInv
=============================================================================
