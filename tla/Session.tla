------------------------------ MODULE Session ------------------------------
(***************************************************************************)
(* Logging in, refreshing and being let in: UserAuthController.login,      *)
(* thirdPartyLogin, verifyToken, refreshToken and the routes behind        *)
(* UserAuthGuard, with the tokens UserAuthService signs and checks.        *)
(*                                                                         *)
(* The server keeps no session.  A token carries its account, when it      *)
(* expires and until when it may be exchanged for a new one; the last is   *)
(* computed in seconds that go through | 0, an integer from -Half up to    *)
(* Half (2^31 in the code).  All accounts of the model have one login      *)
(* name, which several may have; those of other names are never touched.   *)
(***************************************************************************)
EXTENDS Integers

CONSTANTS
    Logins,          \* calls of POST user-auth/login with the name
    Grants,          \* calls that end in getJwtToken without having asked
                     \* isEnabled: third-party-login, and verify
    Refreshes,       \* calls of POST user-auth/refresh-token
    Calls,           \* calls of a route with @UseAuth
    Accounts, Local, \* the accounts of the name, those of them with type local
    Expires,         \* jwt.expires and jwt.refreshExpires, in seconds
    RefreshExpires,
    Half, MaxTime,   \* where an integer wraps around; bound of the clock
    None

Requests == Logins \cup Grants \cup Refreshes \cup Calls

\* A call is of one endpoint.
ASSUME KindsAssumption ==
    /\ Logins \cap Grants = {} /\ Logins \cap Refreshes = {} /\ Logins \cap Calls = {}
    /\ Grants \cap Refreshes = {} /\ Grants \cap Calls = {} /\ Refreshes \cap Calls = {}
ASSUME TimeAssumption ==
    /\ Expires \in Nat \ {0} /\ RefreshExpires \in Nat
    /\ Half \in Nat \ {0} /\ MaxTime \in Nat
ASSUME LocalAssumption == Local \subseteq Accounts
ASSUME NoneAssumption == None \notin Accounts

VARIABLES
    clock,        \* seconds since 1970
    user,         \* the user of each account: enabled, disabled or gone
    tokens,       \* the tokens signed, with the time of the login they go back to
    pc,           \* where each request is
    sub, token,   \* the account a login has found, the token a call carries
    time,         \* when a token was checked
    shut          \* history: the accounts without an enabled user ever
                  \* since the request began

vars == <<clock, user, tokens, pc, sub, token, time, shut>>

Modulus == 2 * Half

\* n | 0: the last bits of n as a signed integer.
ToInt32(n) == ((n + Half) % Modulus) - Half

Shut == {a \in Accounts : user[a] # "enabled"}
Users == {a \in Accounts : user[a] # "gone"}

Goto(r, l) == pc' = [pc EXCEPT ![r] = l]
Begin(r) == shut' = [shut EXCEPT ![r] = Shut]

Init ==
    /\ clock = 0
    /\ user \in [Accounts -> {"enabled", "disabled", "gone"}]
    /\ tokens = {}
    /\ pc = [r \in Requests |-> "idle"]
    /\ sub = [r \in Requests |-> None]
    /\ token = [r \in Requests |-> {}]
    /\ time = [r \in Requests |-> 0]
    /\ shut = [r \in Requests |-> {}]

-----------------------------------------------------------------------------
\* login

\* findByAccountOrThrow returns the user of any account of the name.
LoginRead(l) ==
    /\ pc[l] = "idle"
    /\ \/ Users = {} /\ Goto(l, "rejected")
       \/ \E a \in Users : Goto(l, IF user[a] = "enabled" THEN "enabled" ELSE "rejected")
    /\ Begin(l)
    /\ UNCHANGED <<clock, user, tokens, sub, token, time>>

\* UserAccountService.login looks for a local account of the name, any one,
\* and compares the password.
LoginMatch(l) ==
    /\ pc[l] = "enabled"
    /\ \/ Local \cap Users = {} /\ Goto(l, "rejected") /\ UNCHANGED sub
       \/ \E a \in Local \cap Users :
            /\ sub' = [sub EXCEPT ![l] = a]
            /\ Goto(l, "matched") \/ Goto(l, "rejected")
    /\ UNCHANGED <<clock, user, tokens, token, time, shut>>

\* The update of lastLoginAt fails if the account is gone.
LoginTouch(l) ==
    /\ pc[l] = "matched"
    /\ Goto(l, IF sub[l] \in Users THEN "sign" ELSE "failed")
    /\ UNCHANGED <<clock, user, tokens, sub, token, time, shut>>

\* The third party vouches for the caller, or the code of its registration
\* was accepted: the account is known, and a user of it was seen.
GrantBegin(g) ==
    /\ pc[g] = "idle"
    /\ \/ Goto(g, "rejected") /\ UNCHANGED sub
       \/ \E a \in Users : sub' = [sub EXCEPT ![g] = a] /\ Goto(g, "sign")
    /\ Begin(g)
    /\ UNCHANGED <<clock, user, tokens, token, time>>

\* Mutant: every token gets a limit of its own, an exchanged one too.
NewTokenAnew(a, refreshExp, since) ==
    [sub |-> a, exp |-> clock + Expires, refreshExp |-> ToInt32(clock) + RefreshExpires,
     since |-> since]

NewToken(a, refreshExp, since) ==
    [sub |-> a, exp |-> clock + Expires, refreshExp |-> refreshExp, since |-> since]

\* getJwtToken: the user of the account is read again, enabled or not.
Sign(l) ==
    /\ pc[l] = "sign"
    /\ \/ /\ sub[l] \in Users
          /\ LET refreshExp == IF RefreshExpires = 0 THEN 0
                               ELSE ToInt32(clock) + RefreshExpires
             IN tokens' = tokens \cup {NewToken(sub[l], refreshExp, clock)}
          /\ Goto(l, "done")
       \/ /\ sub[l] \notin Users
          /\ Goto(l, "rejected")
          /\ UNCHANGED tokens
    /\ UNCHANGED <<clock, user, sub, token, time, shut>>

-----------------------------------------------------------------------------
\* refresh-token and verify-token

\* Mutant: a refresh in the last second is refused.
RefreshableStrict(t) == t.refreshExp = 0 \/ t.refreshExp > ToInt32(clock)

\* Mutant: refreshing counts from the exchange, not from the login.
RefreshableAnew(t) == t.exp - Expires + RefreshExpires >= clock

\* The signature is verified, the expiry ignored; 0 stands for no limit.
Refreshable(t) == t.refreshExp = 0 \/ ~(t.refreshExp < ToInt32(clock))

\* The new token keeps the account and the limit of the old one.  The user
\* is not looked at.
Refresh(r) ==
    /\ pc[r] = "idle"
    /\ \E t \in tokens :
         /\ token' = [token EXCEPT ![r] = {t}]
         /\ \/ /\ Refreshable(t)
               /\ tokens' = tokens \cup {NewToken(t.sub, t.refreshExp, t.since)}
               /\ Goto(r, "done")
            \/ /\ ~Refreshable(t)
               /\ Goto(r, "rejected")
               /\ UNCHANGED tokens
    /\ time' = [time EXCEPT ![r] = clock]
    /\ Begin(r)
    /\ UNCHANGED <<clock, user, sub>>

\* verifyJwtToken, also behind verify-token.
Unexpired(t) == clock < t.exp

-----------------------------------------------------------------------------
\* UserAuthGuard and the handler behind it

GuardVerify(c) ==
    /\ pc[c] = "idle"
    /\ \E t \in tokens :
         /\ token' = [token EXCEPT ![c] = {t}]
         /\ sub' = [sub EXCEPT ![c] = t.sub]
         /\ Goto(c, IF Unexpired(t) THEN "verified" ELSE "rejected")
    /\ time' = [time EXCEPT ![c] = clock]
    /\ Begin(c)
    /\ UNCHANGED <<clock, user, tokens>>

\* Mutant: the guard trusts the token for the user.
GuardTrust(c) ==
    /\ pc[c] = "verified"
    /\ Goto(c, "passed")
    /\ UNCHANGED <<clock, user, tokens, sub, token, time, shut>>

\* findByAccountIdOrThrow, and the user has to be enabled.
GuardRead(c) ==
    /\ pc[c] = "verified"
    /\ Goto(c, IF user[sub[c]] = "enabled" THEN "passed" ELSE "rejected")
    /\ UNCHANGED <<clock, user, tokens, sub, token, time, shut>>

\* The handler acts for the account, whatever has become of its user: it
\* only fails if the account is gone.
Handle(c) ==
    /\ pc[c] = "passed"
    /\ Goto(c, IF sub[c] \in Users THEN "done" ELSE "failed")
    /\ UNCHANGED <<clock, user, tokens, sub, token, time, shut>>

-----------------------------------------------------------------------------
\* the environment

\* An administrator edits a user: isEnabled is what the body says, and true
\* if it does not say.
Edit(a) ==
    /\ user[a] # "gone"
    /\ \E e \in {"enabled", "disabled"} :
         /\ user' = [user EXCEPT ![a] = e]
         /\ shut' = [r \in Requests |-> IF e = "enabled" THEN shut[r] \ {a} ELSE shut[r]]
    /\ UNCHANGED <<clock, tokens, pc, sub, token, time>>

Remove(a) ==
    /\ user[a] # "gone"
    /\ user' = [user EXCEPT ![a] = "gone"]
    /\ UNCHANGED <<clock, tokens, pc, sub, token, time, shut>>

Tick ==
    /\ clock < MaxTime
    /\ clock' = clock + 1
    /\ UNCHANGED <<user, tokens, pc, sub, token, time, shut>>

Next ==
    \/ \E l \in Logins : LoginRead(l) \/ LoginMatch(l) \/ LoginTouch(l)
    \/ \E g \in Grants : GrantBegin(g)
    \/ \E l \in Logins \cup Grants : Sign(l)
    \/ \E r \in Refreshes : Refresh(r)
    \/ \E c \in Calls : GuardVerify(c) \/ GuardRead(c) \/ Handle(c)
    \/ \E a \in Accounts : Edit(a) \/ Remove(a)
    \/ Tick

Spec == Init /\ [][Next]_vars

-----------------------------------------------------------------------------
\* Properties

States == {"idle", "enabled", "matched", "sign", "verified", "passed",
           "done", "rejected", "failed"}
Tokens == [sub : Accounts, exp : Nat, since : Nat,
           refreshExp : (-Half) .. (Half - 1 + RefreshExpires)]

\* The variables keep their types, the limit of a token is a wrapped second
\* plus refreshExpires, and no call has a token nobody signed.
TypeOK ==
    /\ clock \in Nat
    /\ user \in [Accounts -> {"enabled", "disabled", "gone"}]
    /\ tokens \subseteq Tokens
    /\ pc \in [Requests -> States]
    /\ sub \in [Requests -> Accounts \cup {None}]
    /\ \A r \in Requests : token[r] = {} \/ \E t \in tokens : token[r] = {t}
    /\ token \in [Requests -> SUBSET tokens] /\ time \in [Requests -> Nat]
    /\ shut \in [Requests -> SUBSET Accounts]

\* A login in second s sets a limit.  0 stands for none: refreshExpires may
\* say so, and in one second of each turn the wrapped limit is 0 as well.
Limited(s) == RefreshExpires # 0 /\ ToInt32(s) + RefreshExpires # 0

\* How often the integer has wrapped around by second n.
Era(n) == (n + Half) \div Modulus

\* What the integer has added by second n to a limit set in second s: a whole
\* turn each time it wrapped around.
Overrun(s, n) == (Era(n) - Era(s)) * Modulus

\* However often a token is exchanged, what a login that set a limit began
\* ends refreshExpires and expires later, with a turn for each wrap around.
SessionEnds ==
    \A c \in Calls : pc[c] \in {"verified", "passed", "done"} =>
        \A t \in token[c] : Limited(t.since) =>
            time[c] < t.since + RefreshExpires + Expires + Overrun(t.since, time[c])

\* A refresh is refused only after refreshExpires is over, wrap or no wrap,
\* and granted only before that, with a turn for each wrap around.
RefreshedInTime ==
    \A r \in Refreshes : \A t \in token[r] :
        /\ pc[r] = "rejected" => RefreshExpires # 0 /\ time[r] > t.since + RefreshExpires
        /\ pc[r] = "done" /\ Limited(t.since) =>
              time[r] <= t.since + RefreshExpires + Overrun(t.since, time[r])

\* A lock-out takes effect on the next call.  No handler acts for an account
\* that has had no enabled user ever since the call began, however its token
\* was come by; a login gives a token for such an account only if the name
\* belongs to another account too, whose user was enabled.
LockedOut ==
    /\ \A c \in Calls : pc[c] = "done" => sub[c] \notin shut[c]
    /\ \A l \in Logins : pc[l] = "done" /\ sub[l] \in shut[l] =>
          \E a \in Accounts \ {sub[l]} : a \notin shut[l]
=============================================================================
