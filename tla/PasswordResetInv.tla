-------------------------- MODULE PasswordResetInv --------------------------
(* The inductive invariant behind the safety properties of PasswordReset. *)
EXTENDS PasswordReset

\* A row was inserted by a request that has gone on since.
RowsInv ==
    /\ \A t \in tokens : pc[t.id] \notin {"idle", "find", "make"}
    /\ \A t \in resets : pc[t.id] \in {"done", "failed"}
    /\ \A q \in live : pc[q] \in {"done", "failed"}

\* What a request was given or has read comes from such a row, so that it is
\* not inserted again.
GivenInv ==
    /\ \A r \in Requests : before[r] \subseteq Succeeded
    /\ \A v \in Verifies :
          /\ pc[v] \in {"code", "mark", "clear", "find", "make", "done"} =>
                tok[v] \in Asks /\ pc[tok[v]] \notin {"idle", "find", "make"}
          /\ code[v] # None => pc[code[v]] \in {"done", "failed"}
    /\ \A r \in Resets :
          pc[r] # "idle" => tok[r] \in Verifies /\ pc[tok[r]] \in {"done", "failed"}

\* A verify past its code has found one of its account, then used it up.
CodeInv ==
    \A v \in Verifies :
        /\ pc[v] = "mark" => code[v] \in Asks /\ acct[code[v]] = acct[v]
        /\ pc[v] \in {"clear", "find", "make"} => Backed(v, acct[v])

\* The verify that deletes a token is the last to find it.
ClearInv ==
    /\ \A v \in Verifies : pc[v] \in {"find", "make", "done"} => tok[v] \notin Ids(tokens)
    /\ OneResetPerToken

\* The same of a reset, and of those that begin after it.
ResetInv ==
    \A r \in Resets :
        /\ pc[r] = "done" => tok[r] \notin Ids(resets)
        /\ pc[r] \in {"write", "clear", "done"} =>
              \A s \in before[r] \cap Resets : tok[r] # tok[s]

\* Nothing is known of a request before the step that reads it.
UnreadInv ==
    /\ \A r \in Requests : pc[r] # "idle" => acct[r] \in Accounts
    /\ \A q \in Asks :
          /\ pc[q] = "idle" => tok[q] = None
          /\ pc[q] \in {"idle", "find", "make", "draw"} => hit[q] = {}
    /\ \A v \in Verifies : pc[v] \in {"idle", "code"} => code[v] = None

\* The token of an ask past its insert is a row of its account, or a verify
\* with it has got as far as the delete.
TokenThere(k) ==
    k \in Ids(tokens) \/ \E v \in Verifies :
        tok[v] = k /\ pc[v] \in {"find", "make", "done", "failed"}

AskedInv ==
    /\ \A t \in tokens : acct[t.id] = t.account
    /\ \A q \in Asks : pc[q] \in {"draw", "commit", "done"} /\ tok[q] # None =>
          /\ pc[tok[q]] # "idle" /\ acct[tok[q]] = acct[q]
          /\ acct[q] \in users => TokenThere(tok[q])

\* The code of an ask is live until another ask has drawn it or a verify has
\* read it.
SentInv ==
    \A q \in Asks : pc[q] = "done" /\ acct[q] \in users =>
        q \in live \/ (\E d \in Asks : q \in hit[d]) \/ (\E v \in Verifies : code[v] = q)

\* The reset token of a verify is a row of its account until a reset has
\* deleted it.
VerifiedInv ==
    \A v \in Verifies : pc[v] = "done" =>
        /\ got[v] \in Verifies /\ pc[got[v]] # "idle" /\ acct[got[v]] = acct[v]
        /\ acct[v] \in users => got[v] \in Ids(resets) \/ \E r \in Resets :
              tok[r] = got[v] /\ pc[r] \in {"done", "failed"}

\* The password is no longer one that was answered before a writer began:
\* from its own write on, and for a change from the moment it reads another.
WrittenInv ==
    /\ \A r \in Writers : pc[r] \in {"clear", "done"} =>
          password[acct[r]] \notin before[r] \cup {None}
    /\ \A c \in Changes : pc[c] = "write" =>
          password[acct[c]] = got[c] \/ password[acct[c]] \notin before[c] \cup {None}

IInv ==
    /\ TypeOK
    /\ RowsInv /\ GivenInv /\ CodeInv /\ ResetBacked /\ ClearInv /\ ResetInv
    /\ UnreadInv /\ AskedInv /\ SentInv /\ VerifiedInv /\ WrittenInv
=============================================================================
