--------------------------- MODULE PasswordReset ---------------------------
(***************************************************************************)
(* The forgotten password: UserAuthController.forgetPasswordToken,         *)
(* forgetPasswordResend, forgetPasswordVerify and forgetPasswordReset over *)
(* the tables verify_token, verification and user_account, and             *)
(* the other writers of the password: change-password and the reset by an  *)
(* administrator.                                                          *)
(*                                                                         *)
(* No handler opens a transaction here: each statement commits by itself   *)
(* and a handler may end between any two.  A token is named by the request *)
(* that inserts it, a code by the request that creates it, a password by   *)
(* the request that sets it.  A code is created in two steps, the rows it  *)
(* is going to invalidate and the commit, as Verification has it.  A row   *)
(* of verification does not say what the code was sent for, so the calls   *)
(* of a registration create and use the same codes.                        *)
(***************************************************************************)
EXTENDS Naturals, FiniteSets

CONSTANTS
    Accounts,     \* the user accounts
    Asks,         \* calls that send a code: forget-password-token and -resend,
                  \* register and resend-register-code
    Verifies,     \* calls that take a code: forget-password-verify and verify
    Resets,       \* calls of forget-password-reset
    Changes,      \* calls of change-password
    Overrides,    \* calls of user/:userId/action/reset-password
    None

Writers == Resets \cup Changes \cup Overrides
Requests == Asks \cup Verifies \cup Writers

ASSUME KindsAssumption ==
    /\ Asks \cap (Verifies \cup Writers) = {}
    /\ Verifies \cap Writers = {}
    /\ Resets \cap (Changes \cup Overrides) = {} /\ Changes \cap Overrides = {}
    /\ None \notin Requests \cup Accounts

VARIABLES
    users,        \* the accounts that have a user
    tokens,       \* verify_token of type forgetPassword
    resets,       \* verify_token of type forgetPasswordReset
    live,         \* the codes that are valid and unused
    password,     \* user_account.password, by the request that set it
    pc,           \* where each request is
    acct,         \* the account it is about
    tok,          \* the token it was given, or found or made
    code,         \* the code a verify has read
    got,          \* the reset token a verify answers, the password a change read
    hit,          \* the codes a create is going to invalidate
    before        \* history: the requests answered with success when it began

tables == <<users, tokens, resets, live, password>>
vars == <<tables, pc, acct, tok, code, got, hit, before>>

Of(T, a) == {t \in T : t.account = a}
Ids(T) == {t.id : t \in T}
Succeeded == {r \in Requests : pc[r] = "done"}

Goto(r, l) == pc' = [pc EXCEPT ![r] = l]

\* The last statement has been executed; the answer may be lost.
End(r) == \E l \in {"done", "failed"} : Goto(r, l)

Begin(r, a) ==
    /\ pc[r] = "idle"
    /\ acct' = [acct EXCEPT ![r] = a]
    /\ before' = [before EXCEPT ![r] = Succeeded]

Init ==
    /\ users \in SUBSET Accounts
    /\ tokens = {} /\ resets = {} /\ live = {}
    /\ password = [a \in Accounts |-> None]
    /\ pc = [r \in Requests |-> "idle"]
    /\ acct = [r \in Requests |-> None]
    /\ tok = [r \in Requests |-> None]
    /\ code = [v \in Verifies |-> None]
    /\ got = [r \in Requests |-> None]
    /\ hit = [q \in Asks |-> {}]
    /\ before = [r \in Requests |-> {}]

-----------------------------------------------------------------------------
\* forget-password-token, forget-password-resend

\* The user is found by the email or the phone, or the call ends with 404.
AskStart(q) ==
    /\ \E a \in Accounts :
         Begin(q, a) /\ Goto(q, IF a \in users THEN "find" ELSE "rejected")
    /\ UNCHANGED <<tables, tok, code, got, hit>>

\* The token names the account.
ResendStart(q) ==
    /\ \E t \in tokens : Begin(q, t.account) /\ tok' = [tok EXCEPT ![q] = t.id]
    /\ Goto(q, "draw")
    /\ UNCHANGED <<tables, code, got, hit>>

\* register and resend-register-code send a code to an account whose token
\* is of another type.
RegisterAsk(q) ==
    /\ \E a \in users : Begin(q, a)
    /\ Goto(q, "draw")
    /\ UNCHANGED <<tables, tok, code, got, hit>>

AskFind(q) ==
    /\ pc[q] = "find"
    /\ \/ /\ \E t \in Of(tokens, acct[q]) : tok' = [tok EXCEPT ![q] = t.id]
          /\ Goto(q, "draw")
       \/ Of(tokens, acct[q]) = {} /\ Goto(q, "make") /\ UNCHANGED tok
    /\ UNCHANGED <<tables, acct, code, got, hit, before>>

AskMake(q) ==
    /\ pc[q] = "make"
    /\ acct[q] \in users
    /\ tokens' = tokens \cup {[id |-> q, account |-> acct[q]]}
    /\ tok' = [tok EXCEPT ![q] = q]
    /\ Goto(q, "draw")
    /\ UNCHANGED <<users, resets, live, password, acct, code, got, hit, before>>

\* VerificationService.create reads the codes to invalidate ...
AskDraw(q) ==
    /\ pc[q] = "draw"
    /\ acct[q] \in users
    /\ hit' = [hit EXCEPT ![q] = {d \in live : acct[d] = acct[q]}]
    /\ Goto(q, "commit")
    /\ UNCHANGED <<tables, acct, tok, code, got, before>>

\* ... and commits them with its own.  The message is then sent, or is not.
AskCommit(q) ==
    /\ pc[q] = "commit"
    /\ acct[q] \in users
    /\ live' = (live \ hit[q]) \cup {q}
    /\ End(q)
    /\ UNCHANGED <<users, tokens, resets, password, acct, tok, code, got, hit, before>>

-----------------------------------------------------------------------------
\* forget-password-verify

\* The token is looked up in the handler and again in UserAuthService.verify.
VerifyToken(v) ==
    /\ \E t \in tokens : Begin(v, t.account) /\ tok' = [tok EXCEPT ![v] = t.id]
    /\ Goto(v, "code")
    /\ UNCHANGED <<tables, code, got, hit>>

\* Mutant: the code of any account is accepted.
VerifyCodeOfAnyone(v) ==
    /\ pc[v] = "code"
    /\ \/ \E d \in live : code' = [code EXCEPT ![v] = d] /\ Goto(v, "mark")
       \/ Goto(v, "rejected") /\ UNCHANGED code
    /\ UNCHANGED <<tables, acct, tok, got, hit, before>>

\* The code of the account, or one that is wrong or has expired.
VerifyCode(v) ==
    /\ pc[v] = "code"
    /\ \/ /\ \E d \in live : acct[d] = acct[v] /\ code' = [code EXCEPT ![v] = d]
          /\ Goto(v, "mark")
       \/ Goto(v, "rejected") /\ UNCHANGED code
    /\ UNCHANGED <<tables, acct, tok, got, hit, before>>

\* Mutant: usedAt is not set.
VerifyUnmarked(v) ==
    /\ pc[v] = "mark"
    /\ acct[v] \in users
    /\ Goto(v, "clear")
    /\ UNCHANGED <<tables, acct, tok, code, got, hit, before>>

VerifyMark(v) ==
    /\ pc[v] = "mark"
    /\ acct[v] \in users
    /\ live' = live \ {code[v]}
    /\ Goto(v, "clear")
    /\ UNCHANGED <<users, tokens, resets, password, acct, tok, code, got, hit, before>>

\* Mutants: deleteMany, which is content with no row; every token of the
\* account, whatever its type.
VerifyClearAny(v) ==
    /\ pc[v] = "clear"
    /\ tokens' = {t \in tokens : t.id # tok[v]}
    /\ Goto(v, "find")
    /\ UNCHANGED <<users, resets, live, password, acct, tok, code, got, hit, before>>
VerifyClearAll(v) ==
    /\ pc[v] = "clear"
    /\ tokens' = tokens \ Of(tokens, acct[v])
    /\ resets' = resets \ Of(resets, acct[v])
    /\ Goto(v, "find")
    /\ UNCHANGED <<users, live, password, acct, tok, code, got, hit, before>>

\* delete by the unique key fails when the row is gone.
VerifyClear(v) ==
    /\ pc[v] = "clear"
    /\ Goto(v, IF tok[v] \in Ids(tokens) THEN "find" ELSE "failed")
    /\ tokens' = {t \in tokens : t.id # tok[v]}
    /\ UNCHANGED <<users, resets, live, password, acct, tok, code, got, hit, before>>

VerifyFind(v) ==
    /\ pc[v] = "find"
    /\ \/ \E t \in Of(resets, acct[v]) : got' = [got EXCEPT ![v] = t.id] /\ Goto(v, "done")
       \/ Of(resets, acct[v]) = {} /\ Goto(v, "make") /\ UNCHANGED got
    /\ UNCHANGED <<tables, acct, tok, code, hit, before>>

VerifyMake(v) ==
    /\ pc[v] = "make"
    /\ acct[v] \in users
    /\ resets' = resets \cup {[id |-> v, account |-> acct[v]]}
    /\ got' = [got EXCEPT ![v] = v]
    /\ End(v)
    /\ UNCHANGED <<users, tokens, live, password, acct, tok, code, hit, before>>

\* verify, of a registration: the code is found, then marked used.
RegisterVerify(v) ==
    /\ \E a \in users : \E d \in live :
         acct[d] = a /\ Begin(v, a) /\ code' = [code EXCEPT ![v] = d]
    /\ Goto(v, "take")
    /\ UNCHANGED <<tables, tok, got, hit>>

RegisterMark(v) ==
    /\ pc[v] = "take"
    /\ acct[v] \in users
    /\ live' = live \ {code[v]}
    /\ Goto(v, "taken")
    /\ UNCHANGED <<users, tokens, resets, password, acct, tok, code, got, hit, before>>

-----------------------------------------------------------------------------
\* forget-password-reset, change-password, action/reset-password

ResetStart(r) ==
    /\ \E t \in resets : Begin(r, t.account) /\ tok' = [tok EXCEPT ![r] = t.id]
    /\ Goto(r, "write")
    /\ UNCHANGED <<tables, code, got, hit>>

\* Mutant: the old password is not looked up.
ChangeUnread(c) ==
    /\ \E a \in users : Begin(c, a)
    /\ Goto(c, "write")
    /\ UNCHANGED <<tables, tok, code, got, hit>>

\* The old password is compared with the one read; the new one is hashed.
ChangeStart(c) ==
    /\ \E a \in users : Begin(c, a) /\ got' = [got EXCEPT ![c] = password[a]]
    /\ \E l \in {"write", "rejected"} : Goto(c, l)
    /\ UNCHANGED <<tables, tok, code, hit>>

\* The administrator names the user.
OverrideStart(o) ==
    /\ \E a \in users : Begin(o, a)
    /\ Goto(o, "write")
    /\ UNCHANGED <<tables, tok, code, got, hit>>

\* Mutant: the update writes the row as it was read.
WriteBack(r) ==
    /\ pc[r] = "write"
    /\ acct[r] \in users
    /\ password' = [password EXCEPT ![acct[r]] = got[r]]
    /\ IF r \in Resets THEN Goto(r, "clear") ELSE End(r)
    /\ UNCHANGED <<users, tokens, resets, live, acct, tok, code, got, hit, before>>

WritePassword(r) ==
    /\ pc[r] = "write"
    /\ acct[r] \in users
    /\ password' = [password EXCEPT ![acct[r]] = r]
    /\ IF r \in Resets THEN Goto(r, "clear") ELSE End(r)
    /\ UNCHANGED <<users, tokens, resets, live, acct, tok, code, got, hit, before>>

\* Mutant: the token is left where it is.
ResetLeave(r) ==
    /\ pc[r] = "clear"
    /\ End(r)
    /\ UNCHANGED <<tables, acct, tok, code, got, hit, before>>

ResetClear(r) ==
    /\ pc[r] = "clear"
    /\ IF tok[r] \in Ids(resets) THEN End(r) ELSE Goto(r, "failed")
    /\ resets' = {t \in resets : t.id # tok[r]}
    /\ UNCHANGED <<users, tokens, live, password, acct, tok, code, got, hit, before>>

-----------------------------------------------------------------------------

\* An error, a lost connection, the end of the process; a row that is gone.
Abort(r) ==
    /\ pc[r] \notin {"idle", "done", "taken", "rejected", "failed"}
    /\ Goto(r, "failed")
    /\ UNCHANGED <<tables, acct, tok, code, got, hit, before>>

\* The account is deleted and what hangs on it.
RemoveUser(a) ==
    /\ a \in users
    /\ users' = users \ {a}
    /\ tokens' = tokens \ Of(tokens, a)
    /\ resets' = resets \ Of(resets, a)
    /\ live' = {d \in live : acct[d] # a}
    /\ UNCHANGED <<password, pc, acct, tok, code, got, hit, before>>

AskStep(q) ==
    \/ AskStart(q) \/ ResendStart(q) \/ RegisterAsk(q) \/ AskFind(q) \/ AskMake(q)
    \/ AskDraw(q) \/ AskCommit(q)
VerifyStep(v) ==
    \/ VerifyToken(v) \/ VerifyCode(v) \/ VerifyMark(v) \/ VerifyClear(v)
    \/ VerifyFind(v) \/ VerifyMake(v) \/ RegisterVerify(v) \/ RegisterMark(v)

WriteStep(w) ==
    \/ w \in Resets /\ ResetStart(w)
    \/ w \in Changes /\ ChangeStart(w)
    \/ w \in Overrides /\ OverrideStart(w)
    \/ WritePassword(w)
    \/ w \in Resets /\ ResetClear(w)

Next ==
    \/ \E q \in Asks : AskStep(q)
    \/ \E v \in Verifies : VerifyStep(v)
    \/ \E w \in Writers : WriteStep(w)
    \/ \E r \in Requests : Abort(r)
    \/ \E a \in Accounts : RemoveUser(a)

Spec == Init /\ [][Next]_vars

-----------------------------------------------------------------------------
\* Properties

States == {"idle", "find", "make", "draw", "commit", "code", "mark", "clear", "take",
           "write", "done", "taken", "rejected", "failed"}

\* The tables and the requests of the forgotten password hold what their
\* columns and variables can.
TypeOK ==
    /\ users \subseteq Accounts
    /\ tokens \subseteq [id : Asks, account : Accounts]
    /\ resets \subseteq [id : Verifies, account : Accounts]
    /\ live \subseteq Asks
    /\ password \in [Accounts -> Writers \cup {None}]
    /\ pc \in [Requests -> States]
    /\ acct \in [Requests -> Accounts \cup {None}]
    /\ tok \in [Requests -> Asks \cup Verifies \cup {None}]
    /\ code \in [Verifies -> Asks \cup {None}]
    /\ got \in [Requests -> Requests \cup {None}]
    /\ hit \in [Asks -> SUBSET Asks]
    /\ before \in [Requests -> SUBSET Requests]

\* Verify v has used up the code it found for account a.
Backed(v, a) ==
    /\ code[v] \in Asks /\ code[v] \notin live
    /\ acct[v] = a /\ acct[code[v]] = a

\* Behind every reset token, and every reset that was given one, is a code
\* of the same account that was found live and has been used up since.
ResetBacked ==
    /\ \A t \in resets : Backed(t.id, t.account)
    /\ \A r \in Resets : pc[r] # "idle" => Backed(tok[r], acct[r])

\* Of two verifies with one token at most one goes on to a reset token,
\* however many codes were sent for it: the delete arbitrates.
OneResetPerToken ==
    \A v, w \in Verifies :
        /\ v # w
        /\ pc[v] \in {"find", "make", "done"} /\ pc[w] \in {"find", "make", "done"}
        => tok[v] # tok[w]

\* A reset that begins after another was answered with success does not
\* succeed with the same token.
ResetOnceInOrder ==
    \A r, s \in Resets : pc[r] = "done" /\ s \in before[r] => tok[r] # tok[s]

\* What was answered lets the caller go on.  The token of an ask is there,
\* or a verify has used it; its code is live, or a later ask has replaced it
\* or a verify has read it (a registration replaces and takes codes as
\* well).  The reset token of a verify is there until some reset with it has
\* gone as far as deleting it.
AnsweredGoesOn ==
    /\ \A q \in Asks : pc[q] = "done" /\ acct[q] \in users =>
        /\ tok[q] \in Ids(tokens) \cup {None} \/ \E v \in Verifies :
              tok[v] = tok[q] /\ pc[v] \in {"find", "make", "done", "failed"}
        /\ q \in live \/ (\E d \in Asks : q \in hit[d]) \/ (\E v \in Verifies : code[v] = q)
    /\ \A v \in Verifies : pc[v] = "done" /\ acct[v] \in users =>
        got[v] \in Ids(resets) \/ \E r \in Resets :
            tok[r] = got[v] /\ pc[r] \in {"done", "failed"}

\* The password after a call that was answered is its own or one set by a
\* call that had not been answered when it began.
PasswordTakesEffect ==
    \A r \in Writers : pc[r] = "done" /\ acct[r] \in users =>
        password[acct[r]] \notin before[r] \cup {None}

\* A change replaces the password its caller presented as the old one, or
\* one set meanwhile by a call that overlaps it.
ChangesWhatItRead ==
    [][\A a \in Accounts : \A c \in Changes :
          password[a] # c /\ password'[a] = c =>
             password[a] = got[c] \/ password[a] \notin before[c] \cup {None}]_vars
=============================================================================
