------------------------------ MODULE Accounts ------------------------------
(***************************************************************************)
(* How accounts, their users and their REGISTER tokens come to be:         *)
(* UserAuthController.register and verify, UserController.create and       *)
(* createRoot, thirdPartyLogin, updateProfile, update and remove.          *)
(*                                                                         *)
(* A request moves from await to await.  The interactive transactions of   *)
(* these handlers cover only the statements sent through tx: the account   *)
(* row, written through this.prisma, is committed at once and outlives a   *)
(* rollback, while the user row and the token show at the commit.  A       *)
(* statement is READ COMMITTED; an updated row stays locked to the commit. *)
(***************************************************************************)
EXTENDS Naturals, FiniteSets

CONSTANTS
    Registers,    \* calls of POST user-auth/register
    Creations,    \* calls of POST user and user/root by an administrator
    Socials,      \* calls of POST user-auth/third-party-login
    Verifies,     \* calls of POST user-auth/verify
    Profiles,     \* calls of PUT user-auth/profile
    Edits,        \* calls of PATCH user/:userId by an administrator
    Names,        \* login names, and subjects of the third parties
    None          \* no token, no name

Requests == Registers \cup Creations \cup Socials \cup Verifies \cup Profiles \cup Edits

\* A row is named by the number of its insertion, never by a request.
ASSUME NoneAssumption == None \notin Names \cup Requests \cup Nat
\* A call is of one endpoint.
ASSUME KindsAssumption ==
    /\ Registers \cap Creations = {} /\ Socials \cap (Registers \cup Creations) = {}
    /\ Verifies \cap (Registers \cup Creations \cup Socials) = {}
    /\ Profiles \cap (Registers \cup Creations \cup Socials \cup Verifies) = {}
    /\ Edits \cap (Registers \cup Creations \cup Socials \cup Verifies \cup Profiles) = {}

VARIABLES
    accounts,     \* table user_account: by is the request whose password it has
    users,        \* table user: by inserted it, info is whose data it shows
    tokens,       \* table verify_token, type register; id is its creator
    lastAccount, lastUser,   \* the sequences behind the two ids
    pc,           \* where each request is
    arg,          \* the login name it was given, the isValid of an edit
    acct, user,   \* the ids it has read, 0 for null
    tok,          \* the token it has read
    before        \* history: the requests answered with success when it began

tables == <<accounts, users, tokens, lastAccount, lastUser>>
locals == <<arg, acct, user, tok, before>>
vars == <<tables, pc, locals>>

Named(n) == {a \in accounts : a.name = n}
UsersOf(i) == {u \in users : u.account = i}
TokensOf(i) == {t \in tokens : t.account = i}
AccountIds == {a.id : a \in accounts}
UserIds == {u.id : u \in users}
Succeeded == {r \in Requests : pc[r] = "done"}

\* Transactions that have written the user and not yet committed.
Writing == {r \in Requests : pc[r] \in {"token", "commit"}}
UserLocked(i) == \E r \in Writing : user[r] = i
AccountLocked(i) == \E r \in Writing : acct[r] = i

Goto(r, l) == pc' = [pc EXCEPT ![r] = l]

Init ==
    /\ accounts = {} /\ users = {} /\ tokens = {}
    /\ lastAccount = 0 /\ lastUser = 0
    /\ pc = [r \in Requests |-> "idle"]
    /\ arg = [r \in Requests |-> None]
    /\ acct = [r \in Requests |-> 0]
    /\ user = [r \in Requests |-> 0]
    /\ tok = [r \in Requests |-> None]
    /\ before = [r \in Requests |-> {}]

-----------------------------------------------------------------------------
\* checkAccountExists: an account of that name, then a user of the account.

CheckAccount(r) ==
    /\ pc[r] = "idle"
    /\ \E n \in Names :
         /\ arg' = [arg EXCEPT ![r] = n]
         /\ \/ \E a \in Named(n) : acct' = [acct EXCEPT ![r] = a.id]
            \/ Named(n) = {} /\ UNCHANGED acct
    /\ before' = [before EXCEPT ![r] = Succeeded]
    /\ Goto(r, "check")
    /\ UNCHANGED <<tables, user, tok>>

\* A valid user ends the call; otherwise register looks for the account
\* again and create goes straight to inserting one.
CheckUser(r) ==
    /\ pc[r] = "check"
    /\ \/ (\E u \in UsersOf(acct[r]) : u.valid) /\ Goto(r, "rejected")
       \/ /\ UsersOf(acct[r]) = {} \/ \E u \in UsersOf(acct[r]) : ~u.valid
          /\ Goto(r, IF r \in Registers THEN "get" ELSE "make")
    /\ acct' = [acct EXCEPT ![r] = 0]
    /\ UNCHANGED <<tables, arg, user, tok, before>>

-----------------------------------------------------------------------------
\* The account row, outside the transaction.

Found(r, n) ==
    \/ /\ \E a \in Named(n) : acct' = [acct EXCEPT ![r] = a.id]
       /\ Goto(r, IF r \in Registers THEN "user" ELSE "touch")
    \/ Named(n) = {} /\ Goto(r, "make") /\ UNCHANGED acct

\* Mutant: register trusts its check and does not look for the account again.
RegisterGetNothing(r) ==
    /\ pc[r] = "get"
    /\ Goto(r, "make")
    /\ UNCHANGED <<tables, locals>>

\* getUser in registerWithVerification: existsByAccount, findByAccount.
RegisterGet(r) ==
    /\ pc[r] = "get"
    /\ Found(r, arg[r])
    /\ UNCHANGED <<tables, arg, user, tok, before>>

\* The third party names the account; findFirstOrCreate looks for it.
SocialGet(r) ==
    /\ pc[r] = "idle"
    /\ \E n \in Names : arg' = [arg EXCEPT ![r] = n] /\ Found(r, n)
    /\ before' = [before EXCEPT ![r] = Succeeded]
    /\ UNCHANGED <<tables, user, tok>>

InsertAccount(r) ==
    /\ lastAccount' = lastAccount + 1
    /\ accounts' = accounts \cup {[id |-> lastAccount', name |-> arg[r], by |-> r]}

\* create assigns a role, createRoot does not.
AfterAccount(r) ==
    CASE r \in Registers -> {"user"}
      [] r \in Creations -> {"role", "write"}
      [] OTHER -> {"touch"}

MakeAccount(r) ==
    /\ pc[r] = "make"
    /\ InsertAccount(r)
    /\ acct' = [acct EXCEPT ![r] = lastAccount']
    /\ \E l \in AfterAccount(r) : Goto(r, l)
    /\ UNCHANGED <<users, tokens, lastUser, arg, user, tok, before>>

\* The upsert of lastLoginAt: an account removed meanwhile is inserted anew,
\* under another id, and the login goes on with the old one.
Touch(r) ==
    /\ pc[r] = "touch"
    /\ \/ acct[r] \in AccountIds /\ UNCHANGED <<accounts, lastAccount>>
       \/ acct[r] \notin AccountIds /\ InsertAccount(r)
    /\ Goto(r, "user")
    /\ UNCHANGED <<users, tokens, lastUser, locals>>

\* updateRole, for the account just inserted.
SetRole(r) ==
    /\ pc[r] = "role"
    /\ acct[r] \in AccountIds
    /\ Goto(r, "write")
    /\ UNCHANGED <<tables, locals>>

-----------------------------------------------------------------------------
\* The user row and the token, inside the transaction.

\* Mutant: register inserts a user without looking for one.
FindNoUser(r) ==
    /\ pc[r] = "user"
    /\ Goto(r, "write")
    /\ UNCHANGED <<tables, locals>>

\* A user that exists is what a third-party login wanted.
FindUser(r) ==
    /\ pc[r] = "user"
    /\ \/ /\ \E u \in UsersOf(acct[r]) : user' = [user EXCEPT ![r] = u.id]
          /\ Goto(r, IF r \in Registers THEN "write" ELSE "done")
       \/ UsersOf(acct[r]) = {} /\ Goto(r, "write") /\ UNCHANGED user
    /\ UNCHANGED <<tables, arg, acct, tok, before>>

\* The insert asks for the account, the update for the user and its lock.
WriteUser(r) ==
    /\ pc[r] = "write"
    /\ IF user[r] = 0 THEN acct[r] \in AccountIds
                      ELSE user[r] \in UserIds /\ ~UserLocked(user[r])
    /\ Goto(r, IF r \in Registers THEN "token" ELSE "commit")
    /\ UNCHANGED <<tables, locals>>

FindToken(r) ==
    /\ pc[r] = "token"
    /\ \/ \E t \in TokensOf(acct[r]) : tok' = [tok EXCEPT ![r] = t.id]
       \/ TokensOf(acct[r]) = {} /\ UNCHANGED tok
    /\ Goto(r, "commit")
    /\ UNCHANGED <<tables, arg, acct, user, before>>

\* Mutant: the user who registers is valid before it has verified.
ValidAtOnce(r) == {TRUE}

\* isValid of a new user: a creation says it, a third-party login sets it, a
\* register leaves it at the default of the column.
Validity(r) == IF r \in Creations THEN BOOLEAN ELSE {r \notin Registers}

\* The user updated takes the new data and keeps the rest.
NewUser(r, b) ==
    [id |-> lastUser + 1, account |-> acct[r], valid |-> b, by |-> r, info |-> r]

\* Mutant: the data a register updates a user with resets isValid.
InvalidUser(u, r) == [u EXCEPT !.info = r, !.valid = FALSE]

UpdatedUser(u, r) == [u EXCEPT !.info = r]

\* The answer may still be lost.
Commit(r) ==
    /\ pc[r] = "commit"
    /\ \/ /\ user[r] = 0
          /\ \E b \in Validity(r) : users' = users \cup {NewUser(r, b)}
          /\ lastUser' = lastUser + 1
       \/ /\ user[r] # 0
          /\ users' = {IF u.id = user[r] THEN UpdatedUser(u, r) ELSE u : u \in users}
          /\ UNCHANGED lastUser
    /\ tokens' = IF r \in Registers /\ tok[r] = None
                 THEN tokens \cup {[id |-> r, account |-> acct[r]]} ELSE tokens
    /\ \E l \in {"done", "failed"} : Goto(r, IF r \in Registers THEN "send" ELSE l)
    /\ UNCHANGED <<accounts, lastAccount, locals>>

\* generateVerificationAndSend has delivered a code; the token is looked up.
Deliver(r) ==
    /\ pc[r] = "send"
    /\ UsersOf(acct[r]) # {}
    /\ \E t \in TokensOf(acct[r]) : tok' = [tok EXCEPT ![r] = t.id]
    /\ Goto(r, "done")
    /\ UNCHANGED <<tables, arg, acct, user, before>>

\* Whatever fails on the way, a timeout, a role or a row that is gone, the
\* mail: a transaction under way is rolled back, the account row stays.
Abort(r) ==
    /\ pc[r] \in {"check", "get", "make", "touch", "user", "role", "write", "token",
                  "commit", "send", "mark"}
    /\ Goto(r, "failed")
    /\ UNCHANGED <<tables, locals>>

-----------------------------------------------------------------------------
\* verify, updateProfile, update and remove

\* Mutant: findFirst in place of findFirstOrThrow.
VerifyReadNull(v) ==
    /\ pc[v] = "idle"
    /\ \E t \in tokens :
         /\ acct' = [acct EXCEPT ![v] = t.account]
         /\ tok' = [tok EXCEPT ![v] = t.id]
         /\ user' = [user EXCEPT ![v] = None]
    /\ before' = [before EXCEPT ![v] = Succeeded]
    /\ Goto(v, "mark")
    /\ UNCHANGED <<tables, arg>>

\* The code sent for the token's account has been accepted; some user of the
\* account is read.
VerifyRead(v) ==
    /\ pc[v] = "idle"
    /\ \E t \in tokens :
         /\ acct' = [acct EXCEPT ![v] = t.account]
         /\ tok' = [tok EXCEPT ![v] = t.id]
         /\ \/ /\ \E u \in UsersOf(t.account) : user' = [user EXCEPT ![v] = u.id]
               /\ Goto(v, "mark")
            \/ UsersOf(t.account) = {} /\ Goto(v, "rejected") /\ UNCHANGED user
    /\ before' = [before EXCEPT ![v] = Succeeded]
    /\ UNCHANGED <<tables, arg>>

\* isValid is set; getJwtToken may still fail.
VerifyMark(v) ==
    /\ pc[v] = "mark"
    /\ user[v] \in UserIds /\ ~UserLocked(user[v])
    /\ users' = {IF u.id = user[v] THEN [u EXCEPT !.valid = TRUE] ELSE u : u \in users}
    /\ \E l \in {"done", "failed"} : Goto(v, l)
    /\ UNCHANGED <<accounts, tokens, lastAccount, lastUser, locals>>

\* What getProfile and updateProfile look up for a caller: the user whose id
\* is sub, and sub is the id of the account that logged in.
ProfileOf(sub) == {u \in users : u.id = sub}

UpdateProfile(p) ==
    /\ pc[p] = "idle"
    /\ \E a \in accounts :
         /\ UsersOf(a.id) # {}
         /\ acct' = [acct EXCEPT ![p] = a.id]
         /\ \A u \in ProfileOf(a.id) : ~UserLocked(u.id)
         /\ users' = {IF u \in ProfileOf(a.id) THEN [u EXCEPT !.info = p] ELSE u :
                         u \in users}
         /\ Goto(p, IF ProfileOf(a.id) = {} THEN "rejected" ELSE "done")
    /\ before' = [before EXCEPT ![p] = Succeeded]
    /\ UNCHANGED <<accounts, tokens, lastAccount, lastUser, arg, user, tok>>

\* UpdateUserDto inherits isValid = true for the body that does not set it.
UpdateUser(e) ==
    /\ pc[e] = "idle"
    /\ \E u \in users, b \in BOOLEAN \cup {None} :
         /\ ~UserLocked(u.id)
         /\ user' = [user EXCEPT ![e] = u.id]
         /\ arg' = [arg EXCEPT ![e] = b]
         /\ users' = (users \ {u}) \cup
                        {[u EXCEPT !.info = e, !.valid = IF b = None THEN TRUE ELSE b]}
    /\ before' = [before EXCEPT ![e] = Succeeded]
    /\ Goto(e, "done")
    /\ UNCHANGED <<accounts, tokens, lastAccount, lastUser, acct, tok>>

\* Mutant: remove deletes the user and leaves the account.
RemoveOnlyUser(u) ==
    /\ ~UserLocked(u.id)
    /\ users' = users \ {u}
    /\ UNCHANGED <<accounts, tokens, lastAccount, lastUser, pc, locals>>

\* The account is deleted and the rows that hang on it, once no transaction
\* holds any of them.
RemoveUser(u) ==
    /\ ~AccountLocked(u.account)
    /\ accounts' = {a \in accounts : a.id # u.account}
    /\ users' = users \ UsersOf(u.account)
    /\ tokens' = tokens \ TokensOf(u.account)
    /\ UNCHANGED <<lastAccount, lastUser, pc, locals>>

-----------------------------------------------------------------------------

InsertSteps(r) ==
    \/ CheckUser(r) \/ RegisterGet(r) \/ MakeAccount(r) \/ Touch(r) \/ SetRole(r)
    \/ FindUser(r) \/ WriteUser(r) \/ FindToken(r) \/ Commit(r) \/ Deliver(r)

Next ==
    \/ \E r \in Registers \cup Creations : CheckAccount(r)
    \/ \E r \in Socials : SocialGet(r)
    \/ \E r \in Registers \cup Creations \cup Socials : InsertSteps(r)
    \/ \E v \in Verifies : VerifyRead(v) \/ VerifyMark(v)
    \/ \E p \in Profiles : UpdateProfile(p)
    \/ \E e \in Edits : UpdateUser(e)
    \/ \E r \in Requests : Abort(r)
    \/ \E u \in users : RemoveUser(u)

Spec == Init /\ [][Next]_vars

-----------------------------------------------------------------------------
\* Properties

States == {"idle", "check", "get", "make", "touch", "user", "role", "write", "token",
           "commit", "send", "mark", "done", "rejected", "failed"}

\* The tables and the requests hold what their columns and variables can,
\* and an id names one row.
TypeOK ==
    /\ accounts \subseteq [id : 1..lastAccount, name : Names, by : Requests]
    /\ users \subseteq [id : 1..lastUser, account : 1..lastAccount, valid : BOOLEAN,
                        by : Requests, info : Requests]
    /\ tokens \subseteq [id : Registers, account : 1..lastAccount]
    /\ lastAccount \in Nat /\ lastUser \in Nat
    /\ \A a, b \in accounts : a.id = b.id => a = b
    /\ \A u, w \in users : u.id = w.id => u = w
    /\ pc \in [Requests -> States]
    /\ arg \in [Requests -> Names \cup BOOLEAN \cup {None}]
    /\ acct \in [Requests -> 0..lastAccount]
    /\ user \in [Requests -> 0..lastUser]
    /\ tok \in [Requests -> Requests \cup {None}]
    /\ before \in [Requests -> SUBSET Requests]

\* An account without a user was inserted by a call that has not been
\* answered with success: only failure leaves one behind.
OrphansUnanswered ==
    \A a \in accounts : UsersOf(a.id) = {} => pc[a.by] # "done"

\* A register that begins after a call for the same name was answered does
\* not insert a second account for the name.
RegisterReusesAccount ==
    \A a, b \in accounts :
        a # b /\ a.name = b.name /\ b.by \in Registers => a.by \notin before[b.by]

\* Two users of one account were inserted by calls that overlapped.
OneUserPerAccountInOrder ==
    \A u, w \in users :
        u # w /\ u.account = w.account => u.by \notin before[w.by]

\* A user who registered is valid only after some verify was given a token
\* of its account, or after an edit.
ValidAfterVerify ==
    \A u \in users :
        u.by \in Registers /\ u.valid =>
            \/ \E e \in Edits : user[e] = u.id
            \/ \E v \in Verifies :
                  pc[v] \in {"done", "failed"} /\ acct[v] = u.account /\ user[v] = u.id

\* A register that was answered has left a user to verify and the token its
\* caller was given, until the account is removed.
RegisteredCanVerify ==
    \A r \in Registers :
        pc[r] = "done" /\ acct[r] \in AccountIds =>
            /\ UsersOf(acct[r]) # {}
            /\ \E t \in TokensOf(acct[r]) : t.id = tok[r]

\* A user row once valid stays valid through every register of the account
\* that was already on its way; only an edit makes it invalid.
ValidStays ==
    [][\A u \in users : u.valid =>
          \A w \in users' : w.id = u.id =>
             w.valid \/ \E e \in Edits : w.info = e /\ arg'[e] = FALSE]_vars

\* What the documents say of these handlers and the code does not do.

\* user-sa.md:978 (BR-001): one valid user per account name.
OneValidUserPerName ==
    \A u, w \in users : \A a, b \in accounts :
        /\ u.valid /\ w.valid /\ a.id = u.account /\ b.id = w.account
        /\ a.name = b.name
        => u = w

\* user-sd.md:724: the profile a caller updates is the caller's own.
OwnProfile ==
    [][\A p \in Profiles : pc'[p] = "done" =>
          \A u \in users' : u.info = p => u.account = acct'[p]]_vars
=============================================================================
