---------------------------- MODULE Verification ----------------------------
(***************************************************************************)
(* One-time verification codes: VerificationService.create and .verify     *)
(* (src/src/verification/verification.service.ts) over the PostgreSQL      *)
(* table "verification" (src/prisma/schema.prisma).                        *)
(*                                                                         *)
(* A request is one call of create or of verify.  Its steps are the        *)
(* statements it sends to the database, so that two requests interleave    *)
(* wherever the code awaits.  The database runs at its default isolation   *)
(* level, READ COMMITTED: a statement sees the rows committed when it      *)
(* starts, an UPDATE waits for the rows another transaction has locked and *)
(* then evaluates its WHERE again on what it finds.                        *)
(*                                                                         *)
(* A create inserts at most one row, so the row is named by the create     *)
(* that inserts it: stored is the set of rows in the table, account, code  *)
(* and expireAt are the columns that never change, isValid and used        *)
(* (usedAt is not null) the ones that do.                                  *)
(***************************************************************************)
EXTENDS Naturals, FiniteSets

CONSTANTS
    Creates,      \* the calls of create
    Verifies,     \* the calls of verify
    Accounts,     \* the user accounts
    Codes,        \* the codes generateRandomString can return
    Lifetimes,    \* the values of expireMinutes
    MaxTime,      \* bound of the clock
    None          \* an argument not yet given

Requests == Creates \cup Verifies

\* The two kinds of call are told apart; expireMinutes is validated as positive.
ASSUME RequestsAssumption == Creates \cap Verifies = {}
ASSUME TimeAssumption == MaxTime \in Nat /\ Lifetimes \subseteq Nat \ {0}
ASSUME NoneAssumption == None \notin Accounts \cup Codes

VARIABLES
    clock,        \* the time, in the unit of expireMinutes
    users,        \* the accounts that have a user
    stored,       \* the rows of the table
    isValid,      \* the rows whose column is_valid is true
    used,         \* the rows whose column used_at is set
    pc,           \* where each request is
    account,      \* argument userAccountId of each request
    code,         \* code of each request: generated by create, given to verify
    expireAt,     \* column expire_at of the row a create inserts
    now,          \* the request's own reading of the clock
    hit,          \* the rows its query matched
    before        \* history: the requests answered with success when it read

columns == <<stored, isValid, used>>
vars == <<clock, users, columns, pc, account, code, expireAt, now, hit, before>>

-----------------------------------------------------------------------------

\* Mutants: the updateMany forgets the account, or looks for expired rows.
RetirableOfAnyone(d, a, t) ==
    d \in stored /\ d \in isValid /\ d \notin used /\ expireAt[d] > t
RetirableExpired(d, a, t) ==
    d \in stored /\ account[d] = a /\ d \in isValid /\ d \notin used /\ expireAt[d] < t

\* WHERE of the updateMany in create, for account a at time t.
Retirable(d, a, t) ==
    /\ d \in stored /\ account[d] = a
    /\ d \in isValid /\ d \notin used
    /\ expireAt[d] > t

\* Mutants of the WHERE of verify: without userAccountId, isValid or usedAt.
FindableOfAnyone(d, a, k) ==
    d \in stored /\ code[d] = k /\ d \in isValid /\ d \notin used
FindableInvalid(d, a, k) ==
    d \in stored /\ account[d] = a /\ code[d] = k /\ d \notin used
FindableUsed(d, a, k) ==
    d \in stored /\ account[d] = a /\ code[d] = k /\ d \in isValid

\* WHERE of the findFirst in verify.
Findable(d, a, k) ==
    /\ d \in stored /\ account[d] = a /\ code[d] = k
    /\ d \in isValid /\ d \notin used

\* Mutants: the expiry is not checked, or excludes the last instant.
UnexpiredUnchecked(v, t) == hit[v] # {}
UnexpiredStrict(v, t) == \E d \in hit[v] : expireAt[d] > t

\* What abortIf lets pass: the row was found and not (expireAt < time).
Unexpired(v, t) == \E d \in hit[v] : expireAt[d] >= t

\* Mutant: the locks outlive the transaction.
LockedForGood(c) == IF pc[c] \in {"locked", "done", "failed"} THEN hit[c] ELSE {}

\* The rows a transaction has updated and not yet committed.
LockedBy(c) == IF pc[c] = "locked" THEN hit[c] ELSE {}
Unlocked(R) == \A c \in Creates : LockedBy(c) \cap R = {}

\* The requests whose caller has been answered with success.
Succeeded == {r \in Requests : pc[r] = "done"}

Goto(r, l) == pc' = [pc EXCEPT ![r] = l]

Init ==
    /\ clock = 0
    /\ users \in SUBSET Accounts
    /\ stored = {} /\ isValid = {} /\ used = {}
    /\ pc = [r \in Requests |-> "idle"]
    /\ account = [r \in Requests |-> None]
    /\ code = [r \in Requests |-> None]
    /\ expireAt = [c \in Creates |-> 0]
    /\ now = [r \in Requests |-> 0]
    /\ hit = [r \in Requests |-> {}]
    /\ before = [r \in Requests |-> {}]

-----------------------------------------------------------------------------
\* create

\* The user of the account is looked up; without one the call ends with 404.
\* Otherwise the code is drawn and its expiry computed in the same tick.
CreateStart(c) ==
    /\ pc[c] = "idle"
    /\ \E a \in Accounts :
         /\ account' = [account EXCEPT ![c] = a]
         /\ \/ /\ a \notin users
               /\ Goto(c, "failed")
               /\ UNCHANGED <<code, expireAt>>
            \/ /\ a \in users
               /\ \E k \in Codes, t \in Lifetimes :
                    /\ code' = [code EXCEPT ![c] = k]
                    /\ expireAt' = [expireAt EXCEPT ![c] = clock + t]
               /\ Goto(c, "found")
    /\ UNCHANGED <<clock, users, columns, now, hit, before>>

\* The transaction starts: updateMany evaluates new Date() and takes the
\* snapshot of the rows it is going to invalidate.
CreateMatch(c) ==
    /\ pc[c] = "found"
    /\ now' = [now EXCEPT ![c] = clock]
    /\ hit' = [hit EXCEPT ![c] = {d \in Creates : Retirable(d, account[c], clock)}]
    /\ before' = [before EXCEPT ![c] = Succeeded]
    /\ Goto(c, "matched")
    /\ UNCHANGED <<clock, users, columns, account, code, expireAt>>

\* updateMany has got the lock of every row it matched and keeps those that
\* still satisfy its WHERE.
CreateLock(c) ==
    /\ pc[c] = "matched"
    /\ Unlocked(hit[c])
    /\ hit' = [hit EXCEPT ![c] = {d \in @ : Retirable(d, account[c], now[c])}]
    /\ Goto(c, "locked")
    /\ UNCHANGED <<clock, users, columns, account, code, expireAt, now, before>>

\* The new row is inserted and the transaction commits.  The foreign key
\* asks for the account.  The answer may be lost after the commit.
CreateCommit(c) ==
    /\ pc[c] = "locked"
    /\ account[c] \in users
    /\ stored' = stored \cup {c}
    /\ isValid' = (isValid \ hit[c]) \cup {c}
    /\ \E l \in {"done", "failed"} : Goto(c, l)
    /\ UNCHANGED <<clock, users, used, account, code, expireAt, now, hit, before>>

\* The account is gone: the insert violates the foreign key and the
\* transaction rolls back.
CreateReject(c) ==
    /\ pc[c] = "locked"
    /\ account[c] \notin users
    /\ Goto(c, "failed")
    /\ UNCHANGED <<clock, users, columns, account, code, expireAt, now, hit, before>>

\* Mutant: no transaction; a failure is undone by resetting the account's rows.
CreateUndo(c) ==
    /\ pc[c] \in {"found", "matched", "locked"}
    /\ LET mine == {d \in stored : account[d] = account[c]}
       IN isValid' = isValid \cup mine /\ used' = used \ mine
    /\ Goto(c, "failed")
    /\ UNCHANGED <<clock, users, stored, account, code, expireAt, now, hit, before>>

\* Any other error rolls the transaction back: its timeout, a deadlock it is
\* the victim of, a lost connection, the end of the process.
CreateAbort(c) ==
    /\ pc[c] \in {"found", "matched", "locked"}
    /\ Goto(c, "failed")
    /\ UNCHANGED <<clock, users, columns, account, code, expireAt, now, hit, before>>

-----------------------------------------------------------------------------
\* verify

\* findFirst without an order returns any one of the rows that match, or null.
VerifyRead(v) ==
    /\ pc[v] = "idle"
    /\ \E a \in Accounts, k \in Codes :
         /\ account' = [account EXCEPT ![v] = a]
         /\ code' = [code EXCEPT ![v] = k]
         /\ \/ \E d \in Creates : Findable(d, a, k) /\ hit' = [hit EXCEPT ![v] = {d}]
            \/ ~(\E d \in Creates : Findable(d, a, k)) /\ hit' = [hit EXCEPT ![v] = {}]
    /\ before' = [before EXCEPT ![v] = Succeeded]
    /\ Goto(v, "read")
    /\ UNCHANGED <<clock, users, columns, expireAt, now>>

\* Once the row has arrived the clock is read and the expiry checked.
VerifyCheck(v) ==
    /\ pc[v] = "read"
    /\ now' = [now EXCEPT ![v] = clock]
    /\ \/ Unexpired(v, clock) /\ Goto(v, "passed")
       \/ ~Unexpired(v, clock) /\ Goto(v, "rejected")
    /\ UNCHANGED <<clock, users, columns, account, code, expireAt, hit, before>>

\* update by id sets usedAt whatever the row has become; a row that is gone
\* is an error.  The answer may be lost after the update.
VerifyMark(v) ==
    /\ pc[v] = "passed"
    /\ Unlocked(hit[v])
    /\ \/ /\ hit[v] \subseteq stored
          /\ used' = used \cup hit[v]
          /\ \E l \in {"done", "failed"} : Goto(v, l)
       \/ /\ ~(hit[v] \subseteq stored)
          /\ Goto(v, "failed")
          /\ UNCHANGED used
    /\ UNCHANGED <<clock, users, stored, isValid, account, code, expireAt, now, hit,
                   before>>

-----------------------------------------------------------------------------
\* the environment

\* An administrator removes the user through its account; the database
\* deletes the user and the codes with it, after waiting for their locks.
RemoveAccount(a) ==
    /\ a \in users
    /\ Unlocked({d \in stored : account[d] = a})
    /\ users' = users \ {a}
    /\ stored' = {d \in stored : account[d] # a}
    /\ UNCHANGED <<clock, isValid, used, pc, account, code, expireAt, now, hit, before>>

Tick ==
    /\ clock < MaxTime
    /\ clock' = clock + 1
    /\ UNCHANGED <<users, columns, pc, account, code, expireAt, now, hit, before>>

\* The steps a running process and database keep taking.
CreateStep(c) ==
    \/ CreateMatch(c) \/ CreateLock(c) \/ CreateCommit(c) \/ CreateReject(c)
VerifyStep(v) == VerifyCheck(v) \/ VerifyMark(v)

Next ==
    \/ \E c \in Creates : CreateStart(c) \/ CreateStep(c) \/ CreateAbort(c)
    \/ \E v \in Verifies : VerifyRead(v) \/ VerifyStep(v)
    \/ \E a \in Accounts : RemoveAccount(a)
    \/ Tick

Spec == Init /\ [][Next]_vars

\* A statement sent is executed once its locks are free; nothing obliges a
\* caller to call, an administrator to remove or a transaction to fail.
FairSpec ==
    /\ Spec
    /\ \A c \in Creates : WF_vars(CreateStep(c))
    /\ \A v \in Verifies : WF_vars(VerifyStep(v))

-----------------------------------------------------------------------------
\* Properties

States == {"idle", "found", "matched", "locked", "read", "passed",
           "done", "rejected", "failed"}

\* Every variable keeps its type: what the table and the requests of
\* verification.service.ts can hold.
TypeOK ==
    /\ clock \in Nat
    /\ users \subseteq Accounts
    /\ stored \subseteq Creates /\ isValid \subseteq Creates /\ used \subseteq Creates
    /\ pc \in [Requests -> States]
    /\ account \in [Requests -> Accounts \cup {None}]
    /\ code \in [Requests -> Codes \cup {None}]
    /\ expireAt \in [Creates -> Nat]
    /\ now \in [Requests -> Nat]
    /\ hit \in [Requests -> SUBSET Creates]
    /\ before \in [Requests -> SUBSET Requests]

\* A code that verify would accept if it were asked now.
Live(d) == d \in stored /\ d \in isValid /\ d \notin used

\* After create has answered, no code answered before its transaction read
\* is still live, unless it had expired (or expired that very instant): the
\* row locks and the second evaluation of WHERE make updateMany complete.
SupersededRetired ==
    \A c, d \in Creates :
        /\ pc[c] = "done"
        /\ d \in before[c] /\ account[d] = account[c]
        => ~Live(d) \/ expireAt[d] <= now[c]

\* A verify that starts after create has answered does not accept a code
\* superseded by it.  The one exception is the instant of expiry: create
\* leaves a code with expireAt = now alone and verify accepts it.
SupersededNeverAccepted ==
    \A v \in Verifies, c, d \in Creates :
        /\ pc[v] = "done" /\ c \in before[v]
        /\ d \in before[c] /\ account[d] = account[c] /\ d \in hit[v]
        => expireAt[d] = now[c] /\ now[v] = now[c]

\* A verify that starts after another has been answered with success does
\* not accept the same code: usedAt, once set, is seen by every later read.
AcceptedOnceInOrder ==
    \A v, w \in Verifies :
        pc[v] = "done" /\ w \in before[v] => hit[v] \cap hit[w] = {}

\* What verify accepts is one code that a create issued for that account,
\* that the caller presented and that had not expired when it was checked.
AcceptedIsGenuine ==
    \A v \in Verifies : pc[v] = "done" =>
        \E d \in Creates :
            /\ hit[v] = {d}
            /\ account[d] = account[v] /\ code[d] = code[v]
            /\ now[v] <= expireAt[d]

\* Why a code that was issued is not live for v: its account was removed, a
\* create of the account matched it, or another verify was given its code
\* and matched it.
Withdrawn(c, v) ==
    \/ account[c] \notin users
    \/ \E d \in Creates \ {c} :
          pc[d] \in {"done", "failed"} /\ account[d] = account[c] /\ c \in hit[d]
    \/ \E w \in Verifies \ {v} :
          pc[w] \in {"done", "failed"} /\ code[w] = code[c] /\ c \in hit[w]

\* An unexpired code whose issue was answered before verify read is only
\* rejected for a reason: it has been withdrawn, or an expired row of the
\* account with the same code, which create never invalidates, was found
\* in its place.
RejectionHasReason ==
    \A v \in Verifies, c \in Creates :
        /\ pc[v] = "rejected" /\ c \in before[v]
        /\ account[c] = account[v] /\ code[c] = code[v] /\ now[v] <= expireAt[c]
        => Withdrawn(c, v) \/ \E d \in hit[v] \ {c} : expireAt[d] < now[v]

\* A row that has been used, invalidated or deleted never becomes
\* acceptable again, whatever requests are still on their way.
RetiredForGood ==
    [][\A d \in Creates : pc[d] \in {"done", "failed"} /\ ~Live(d) => ~Live(d)']_vars

\* A call that has reached the database is answered: no request waits for a
\* row lock for ever.
AllAnswered ==
    \A r \in Requests :
        pc[r] # "idle" ~> pc[r] \in {"done", "rejected", "failed"}

-----------------------------------------------------------------------------
\* What the documents say of the service and the code does not do:
\* verification-sa.md:386, a code cannot be used twice.
UsedOnce ==
    \A v, w \in Verifies :
        v # w /\ pc[v] = "done" /\ pc[w] = "done" => hit[v] \cap hit[w] = {}

=============================================================================
