# Verification of nestjs-admin-core-api

TLA+ models of the administration API in `src/`, checked with TLC and, in part, proved with TLAPS.
The API is a NestJS process (or several) in front of one PostgreSQL database. Handlers are `async`
functions: between two awaits a handler runs alone, at an await any other handler may run. The state
that outlives a request is in the tables of `src/prisma/schema.prisma`. What is hard in this code is
therefore what happens between two statements of a handler, and that is what the models keep:
every await that touches the database is a step, and everything else is abstracted.

## 1. Inventory

Paths are relative to `src/src/`.

| component | state | operations | talks to |
|---|---|---|---|
| verification codes (`verification/`) | table `verification` | `create`, `verify` | called by registration and by the forgotten password |
| registration, accounts, users (`user/`, `user-account/`) | tables `user_account`, `user`, `verify_token` | `register`, `resend-register-code`, `verify`, `third-party-login`, `create`, `createRoot`, `update`, `updateProfile`, `remove` | verification codes, roles, mail and SMS, Google and LINE |
| passwords (`user/user-auth.controller.ts`, `verify-token.service.ts`) | `verify_token`, `user_account.password` | `forget-password-token`, `-resend`, `-verify`, `-reset`, `change-password`, `action/reset-password` | verification codes, mail and SMS |
| login, JWT, guards (`user/user-auth.service.ts`, `user-auth.guard.ts`) | none on the server but `lastLoginAt`; the token holds `sub` and `refreshExp` | `login`, `verify-token`, `refresh-token`, `UserAuthGuard` | every guarded handler |
| roles, permissions (`role/`, `libs/permission/`) | `role`, `role_has_permission`, `user_account_has_role`, `user_account_has_permission` | role CRUD, `updateRole`, `checkByUser`, `PermissionGuard` | users |
| uploads (`upload/`, `third-party/file-storage/`) | `file_storage`, the disk or a bucket | `create`, `download`, `findAll` | local disk, Google Cloud Storage |
| Prisma client (`_libs/prisma/`) | the connection pool | `$transaction`, `findFirstOrCreate`, `pagination`, `softDelete`, `exists` | everything above |
| mail, SMS, OAuth (`third-party/`) | send logs | `sendMail`, `sendSms`, `login`, `getPayload` | external services |
| pure helpers (`libs/prisma`, `_libs/utils`, `_libs/gps`) | none | date ranges, sort strings, `pnpoly`, Excel, URLs | - |
| logging, DTO validation, configuration, bootstrap, seeds, `_examples/post`, queue and multi-tenant templates | none that a request shares | - | - |

The controllers of `user-account/`, `verification/`, `google-login/`, `line-login/`, `google-mail/` and `e8d-sms/` are commented out
of their modules, so the services behind them are reached only through the handlers above; the lists of accounts and of the two logs
(`Listing`) are what these services offer and no route asks for yet.

What is hard, component by component, and what makes each correct:

* **Codes.** Overlapping creates and verifies of one account; a row read, then updated by id after
  another await; READ COMMITTED and row locks; expiry at the boundary; removal of the account in
  between. Correct: an answered create retires what was issued before; a code is accepted once by
  verifies in sequence, only by its account, only in time; a rejection has a reason.
* **Registration.** Check, account row and transaction are separate; the account row is written
  outside the transaction that writes its user; `findFirstOrCreate` is a read and an insert; nothing is
  unique but ids. Correct: nothing dangles, only failures leave an account without a user, an
  answered register leaves what its caller needs, sequential calls do not duplicate.
* **Passwords.** Six statements without a transaction, a failure between any two. Correct: a used
  code is behind every reset token, one token yields one reset token, an answered step can be
  continued, the password that stands is one whose writer overlapped or came last.
* **Sessions.** The server keeps no session; a guard checks a user the handler then works without; seconds
  wrap at 32 bits. Correct: a session ends in time however often it is refreshed, but for what a wrap adds, is not ended early, and a lock-out holds
  from the next call on.
* **Roles.** A role checked, then connected by id; soft delete against assignment; links replaced by statements that lock
  only what they delete, inside a transaction that may time out without them. Correct: one role to an account, grants that
  were current, no assigned role deleted but by an overlap.
* **Uploads and messages.** File first, row second; a message sent before its log; promises that depend on stream events; the process ends and is
  started with another storage. Correct: a row names a whole file, a caller who was told so has sent its message.
* **Pool.** Transactions that hold a connection and wait for another. Correct: everyone is answered nevertheless.
* **Lists.** A page is two statements, a walk many. Correct: a walk misses and repeats no more than what was changed under it.
* **Pure functions.** Correct: each computes what its callers take it for, on every small input.

The full list, with lines, is in `PROJECT.json` under `hazards`.

## 2. Modules

| module | what it is |
|---|---|
| `Verification` | `VerificationService.create` and `verify`, statement by statement |
| `OneTimeCode` | what a code promises, without tables and statements |
| `VerificationRefinement` | the mapping under which `Verification` implements `OneTimeCode` |
| `VerificationInv` | the inductive invariant `IInv` of `Verification` |
| `VerificationProofs`, `VerificationRefinementProofs` | the theorems about it |
| `Accounts` | how accounts, users and REGISTER tokens come to be and go |
| `AccountsInv`, `AccountsProofs` | its inductive invariant and theorems |
| `PasswordReset` | the forgotten password and the other writers of the password |
| `PasswordResetInv`, `PasswordResetProofs` | its inductive invariant and theorems |
| `PasswordResetRefinement` | the mapping under which `PasswordReset` implements `OneTimeCode` |
| `Session` | login, third-party login, refresh, the guard and what is behind it |
| `SessionInv`, `SessionProofs` | its inductive invariant and theorems |
| `Roles` | roles, who has them and what they permit |
| `RolesInv`, `RolesProofs` | its inductive invariant and theorems |
| `Serving` | connections, storages, providers and restarts under every kind of request |
| `ServingInv`, `ServingProofs` | its inductive invariant and theorems |
| `Listing` | a client that walks a list while rows come and go |
| `ListingInv` | its inductive invariant |
| `Queries` | query parameters and the `where` built from them |
| `ListProofs` | the theorems about `Listing` and `Queries` |
| `Helpers` | the other pure functions, each with what it is for |
| `MCVerification`, `MCAccounts`, `MCPasswordReset`, `MCSession`, `MCRoles`, `MCServing`, `MCListing` | symmetry, bounds and the composition of the last three for TLC |

Conventions. A request is a member of a constant set, runs once, and its `pc` says which statement comes
next. A row is named by the request that inserts it (in `Accounts` by its id, because there the two
sequences of ids matter). `before[r]` is a history variable: the requests already answered with
success when `r` began; it lets a property say "one after the other" without saying how the two ran.
`Abort` (in `Verification`, `CreateAbort`) stands for everything that may end a handler early: an error, a
timeout, a lost connection, the end of the process. Operators named in a comment as a mutant are
plausible mistakes; `Next` does not use them, they show that each property can fail.

### Verification

| action | code (`verification/verification.service.ts`) |
|---|---|
| `CreateStart` | the user is looked up by the caller, the code drawn, the expiry computed (25-34) |
| `CreateMatch`, `CreateLock` | the `updateMany` of 37-46: its snapshot, then its locks and the second evaluation of WHERE |
| `CreateCommit`, `CreateReject`, `CreateAbort` | insert and commit; foreign key violation; any other end |
| `VerifyRead`, `VerifyCheck`, `VerifyMark` | `findFirst` (60), the check of the expiry (63-67), the update by id (69) |
| `RemoveAccount`, `Tick` | an administrator removes the user; the clock |

An `UPDATE` is two steps because under READ COMMITTED its rows are chosen by a snapshot and evaluated again
once their locks are free; everything `SupersededRetired` says rests on that. Two instants that are
the same clock value are as close as the program can tell. Reading `users` and drawing the code is one
step: what is read is only whether the account has a user, and the foreign key asks again at commit.

### Accounts

`CheckAccount`, `CheckUser` are `checkAccountExists`; `RegisterGet`, `SocialGet`, `MakeAccount`, `Touch` the account
row, outside the transaction (`this.prisma`, not `tx`); `SetRole` the role of a user created; `FindUser`, `WriteUser`,
`FindToken`, `Commit` the transaction, whose writes show at its commit and whose locks are `UserLocked` and
`AccountLocked`; a new user has the `isValid` its endpoint gives it (`Validity`: an administrator says either, a third-party login
sets it, a register leaves it false); `Deliver` sends the code and looks the token up. `VerifyRead` and `VerifyMark` are the handler `verify` once
the code has been accepted (`Verification` has that part), `UpdateProfile`, `UpdateUser` and `RemoveUser` the remaining
writers. The ids are the real sequences: `sub` is an account id and `updateProfile` uses it as a user id.

### PasswordReset

`AskStart`, `AskFind`, `AskMake` are `forget-password-token`, `ResendStart` the resend; `AskDraw` and `AskCommit` abstract
`Verification`'s create to the set of live codes: which ones it is going to invalidate, and the
commit. `VerifyToken`, `VerifyCode`, `VerifyMark`, `VerifyClear`, `VerifyFind`, `VerifyMake` are `forget-password-verify` statement by statement:
token, code, `usedAt`, delete of the token by its unique key, and `findFirstOrCreate` of the reset token.
`ResetStart`, `ChangeStart`, `OverrideStart`, `WritePassword`, `ResetClear` are the three writers of the password. A code that expires or
is mistyped is the rejecting disjunct of `VerifyCode`, so the model needs no clock.
`RegisterAsk`, `RegisterVerify` and `RegisterMark` are the calls of a registration that touch the same codes: a row of
`verification` does not record what it was sent for, so either flow may replace, find and use the codes of the other.

### OneTimeCode, VerificationRefinement and PasswordResetRefinement

A code of `OneTimeCode` goes from new to live to gone; a step may issue one and retire others of the same account, accept what a
call presented for the account it names (`caller`), or withdraw an account. It is what a caller of the service may rely on, and no more: it says nothing of
accepting a code once, because two overlapping verifies do accept it twice. The refinement maps a code to a `create` that has
ended, live as long as `verify` would find its row; `caller` to the account of a verify, `candidate` to the row it has read; its outcome to its `pc`.

`PasswordReset` implements the same promise, although two kinds of callers with two kinds of tokens share the codes there. A code is the ask that
has sent it; a call presents the code it finds live, and one that finds none (a wrong code, a token that is gone) has presented nothing. Marking is the
acceptance. A verify of the forgotten password goes on after that, deletes its token and inserts the reset token, and may fail on the way: its `pc` then no
longer says whether its code was accepted. `HSpec` therefore keeps in a history variable, `marked`, the verifies that have marked; it reads nothing of
it, so it adds and removes no behaviour of `Spec`. The runs of `PasswordReset` are runs of `HSpec`.

### Session

`LoginRead` is the handler's look at the user of the name (any account of it, `findFirst` has no order), `LoginMatch` and
`LoginTouch` are `UserAccountService.login`; `GrantBegin` stands for the two calls that reach `getJwtToken` without asking
`isEnabled`, third-party login and `verify`. `Sign` is `getJwtToken`, with `ToInt32` for `| 0`; a token carries, beside the claims, the time of the login
it goes back to. `Refresh` is `refreshJwtToken`, which never looks at the user. `GuardVerify`, `GuardRead` and `Handle` are `UserAuthGuard` and the
handler, with `Edit` and `Remove` of an administrator anywhere between. Integers lie in `-Half .. Half - 1` (`Half` is 2^31 in JavaScript). How often an integer has wrapped by a second is `Era`; what
that adds to a limit is `Overrun`, a whole turn each time, and `Limited` says that a login set a limit at all.

### Roles

`user_account_has_role` and `role_has_permission` are one set of links, because both are rewritten by the same nested
`deleteMany` and `create` of Prisma: `ReplaceMatch` (what exists is read), `ReplaceDelete` (deleted by key, with its locks), `ReplaceInsert` (a key
that is taken, or an account that is gone, is an error). Around it, for users, the interactive transaction, open from `EditUser` or `CreateAccount` to its commit, its timeout or its failure (`Open`): `EditUser` writes
and locks the row of the user, `CommitUser` commits, `Timeout` rolls back while the nested statement, sent through `this.prisma`, goes on (`late`).
`CreateAccount` inserts outside the transaction. `DeleteBegin`, `DeleteCheck`, `DeleteMark` are `DELETE role/:id`, `CheckRoles` and `CheckPermissions` the two
statements of `getByUser`; `GuardBegin` is `PermissionGuard`, which asks neither for a root nor for a handler that needs no permission.

### Serving

What requests share beside tables. `AcquireTx` and `Acquire` take a connection for a transaction or a statement, `Timeout` gives up waiting or ends a transaction,
`RunNested` is the statement through `this.prisma` inside a transaction (`register`, `POST` and `PATCH user`, third-party login).
`Save` (`SaveLocal`, which shows a part of the file at first, or `SaveBucket`), `SaveEnd` and `Commit` are an upload; `Answer` tells the caller of a commit or a log
that is there already, so that an error or the end of the process may leave a row or a log whose call was not answered with success; `MetadataFails` the error of `setMetadata` nobody catches, which ends a Node process; `DownloadFind` and
`DownloadRead` a download, by the driver its row names. `MessageFind`, `Post` and `Log` are `sendMail` and `sendSms`. `Restart` ends everything that is under way;
the container is started again, with the same storages and perhaps another driver.

### Listing, Queries, Helpers

`Listing` is the pagination extension under every `findAll`: `Count` and `Find` are its two statements, `Insertion` and `Removal` the commits of others. Rows take
their id and `createdAt` before they commit and so appear in any order. `Queries` and `Helpers` have no steps: a behaviour is one call of one function
with one of all small inputs, and the properties compare its result with a definition of what it is for. JavaScript values are told apart as far as the
functions do. Where a helper does less than its name says, the property says so (the errors of a parent with nested errors are lost in `dto-check`; a
`:name` is found in a longer one).

## 3. Runs

Calls run once and then nothing is left to do, so deadlock is not an error (`CHECK_DEADLOCK FALSE`); that no call waits
for ever is what the two `AllAnswered` check.

| run | instance | what it shows |
|---|---|---|
| `verification_verifies` | 2 creates, 2 verifies, 1 account, 2 codes, time 0..2 | `IInv` (types included), how often a code is accepted, and why one is rejected |
| `verification_creates` | 2 creates, 1 verify, 2 accounts drawing one code, time 0..2 | a create retires earlier codes for good, accounts neither touch each other's rows nor are let in with each other's codes, every call ends, and `OneTimeCode` is implemented |
| `verification_used_once` | 1 create, 2 verifies | violation, see section 6 |
| `accounts` | 2 registers, 1 creation, 1 third-party login, 1 verify, 1 profile, 1 edit, 1 name; `MaxLoad` 6 | `IInv`; what an answered call leaves behind; what overlap and failure cannot do |
| `accounts_one_valid`, `accounts_own_profile` | smallest instances | violations, see section 6 |
| `password_flow` | 2 accounts, 2 asks, 2 verifies, 1 reset | what backs a reset token; that an answered step can be continued; that `OneTimeCode` is implemented, so that a code counts only for its account |
| `password_writers` | 1 ask, 1 verify, 2 resets, 1 change, 1 override | which password stands, and whose it replaced |
| `roles` | 2 assignments, 1 creation, 1 update, 1 delete, 1 check; any 3 of them, of the removals of a user and of the timeouts | `IInv`; one role each, fresh grants, deleted roles stay assigned only through an overlap |
| `session` | 1 login, 1 grant, 2 refreshes, 1 guarded call, any 4 of them, each account without a user counted as one of the 4; 2 accounts of one name; integers from -2 to 1 (`Half` = 2), time 0..4 | `IInv`; when sessions end, across the wrap of the integer; that a lock-out takes effect |
| `serving` | 2 nested transactions, an upload, a download, a message, any 3 of them; 2 connections | `IInv`; rows have files, logs messages; under fairness everyone is answered |
| `listing` | lists of up to 4 ids and 3 instants, pages of 1 or 2; every pure function on every small input | what a walk misses, what a filter selects, what a helper returns |

Bounds. Every set of calls is one; `MaxTime` bounds the clock; `MaxBegun` (`MCRoles`, `MCSession`, `MCServing`) how many of the
calls begin in one behaviour, whichever they are (in `MCRoles` removals and timeouts count as calls, in `MCSession` accounts that have no user, from the start or by removal); `MaxLoad` (`MCAccounts`) the weight of what begins; `MaxRows` the ids of a list. Why
that is enough to mean something: each property relates two or three calls, and the instances have these and one to
interfere. Time 0..2 with lifetime 1 has a code before, at and after its expiry; with `Half` = 2 the integer wraps at 2, so that a session of `session` begins before
the wrap and is refreshed after it. That a limit which outlived a wrap is over a turn later is beyond time 4; the theorems of section 4 cover it. Two connections and two nested transactions are the smallest pool that can be all held and all waited for. Four rows in pages of two are
two pages that shift by one. Symmetry is declared only on sets of interchangeable calls or values, and not at all in the runs that check liveness.
Each property has a mutant in `PROJECT.json` that breaks it under the same cfg.

Fairness. `Verification`: weak fairness on the next statement of a call that has begun. The event loop runs every continuation whose promise has settled,
and the database grants a lock when it is free; nothing obliges a caller to call, an administrator to remove, a transaction to
fail or the clock to advance. `Serving`: weak fairness on the next step of a request that needs only the database or a storage, and on the timeouts, which
Prisma runs by timers; none on `Post`, because the calls of axios have no timeout: a request may wait for its provider for ever, and `AllAnswered` excepts just that.

## 4. Proofs

Every safety invariant and every action property that the runs check is a theorem, but `HelpersAgree`: it holds for all sets of requests, accounts,
roles, files and codes, every set of lifetimes, every size of the pool and of the integers, every number of rows and size of a page, and every bound of
the clock. The bounds that only the runs have
(`MaxBegun`, `MaxLoad`) are in the `MC` modules and not in what is proved. The assumptions, all of them evaluated by TLC:

* `RequestsAssumption`, `KindsAssumption`: a call is of one endpoint, an id of one table; only then does a `pc` say where in which handler a call is;
* `NoneAssumption`: null is not a value;
* `TimeAssumption`: lifetimes are positive (the DTO demands it of codes; of tokens `.env.example` gives 3600, and a token that expires as it is signed opens nothing), but `RefreshExpires` may be 0, which the code takes for no limit and
  `Limited` excepts, with the one second of each turn in which the wrapped limit is 0; `ConnectionsAssumption`: the pool is not empty; `LocalAssumption`: the accounts with a password are accounts;
* `BoundsAssumption`: ids and instants are counted, and a page has a row at least (`LimitParam` of `Queries` lets no other limit pass); `TimesAssumption`: the
  instants of a date filter are integers.

In each module with an invariant of its own (`...Inv`) the property alone is not inductive; `IInv` adds what makes it so. TLC checks `IInv` on the instances of
section 3; of `Listing` and `PasswordReset`, whose runs do not list it, it was checked by adding `IInv` (`HInv`) to the INVARIANTS of `Listing.cfg` and
`PasswordFlow.cfg`. The proof has the same shape everywhere: `Init => IInv`, one lemma per part of `IInv` with one step per action, and what the lemmas share (what
a step may do to a call, a row or a lock) in lemmas of its own.

*Verification.* `IInv` is `TypeOK` and seven parts. `HistoryInv`: what a request has read was committed before. `CreateInv`: a
live code that a create has to invalidate is among the rows it holds; this is what the second
evaluation of WHERE preserves and the reason `SupersededRetired` alone is not inductive. `ReadInv`, `CheckInv`: what a
verify has read was live, then unexpired. `UsedInv`: a code accepted is marked. `OutcomeInv`, `ReasonInv`: a missing,
invalid or used row has a request that made it so, hence a rejection has a reason. A lemma `FixedByNext` says that no
step changes what an ended request knows; each part is then preserved action by action. Theorems:
`TypeCorrect`, `Inductive`, `SupersededRetiredHolds`, `SupersededNeverAcceptedHolds`, `AcceptedOnceInOrderHolds`, `AcceptedIsGenuineHolds`, `RejectionHasReasonHolds`,
`RetiredForGoodHolds` (an action property).

*PasswordReset.* `RowsInv`: a row belongs to a request past its insert. `GivenInv`: what a request was given is such a row,
so the same token or code is never inserted again. `CodeInv`: a verify past its code has found one of its
account, then used it up. `ClearInv`: the verify that deletes a token is the last to find it. `ResetInv`: the same
of a reset and those that begin later. `AskedInv`, `SentInv`, `VerifiedInv`: the token, the code and the reset token a caller was told of are there, or
somebody has used or replaced them; the owner of a row (`acct[t.id] = t.account`) is what makes a removal of the account the only other
way to lose them. `WrittenInv`: from its own write on, or its read of the old password, a writer finds no password that was answered before it began, since who
writes has not been answered. Theorems: `TypeCorrect`, `Inductive`, `ResetBackedHolds`, `OneResetPerTokenHolds`, `ResetOnceInOrderHolds`, `AnsweredGoesOnHolds`,
`PasswordTakesEffectHolds`, `ChangesWhatItReadHolds` (an action property).

*Accounts.* `RowsInv` is the foreign keys and the locks: no user, token or open transaction is without its account. `CallsInv`: what a call has not read yet.
`InsertedInv`: an account is the one its call goes on with; the exception is a third-party login whose account was removed before its upsert, which inserts
another one under the same name and then comes to nothing, because its user would refer to the old id. `AnsweredInv`: an answered call has left its account a user.
`FreshInv`: a call about to insert has found nothing that was answered before it began. `OrphansUnansweredHolds` follows from `InsertedInv` and `AnsweredInv`;
`RegisterReusesAccountHolds`, `OneUserPerAccountInOrderHolds`, `ValidAfterVerifyHolds`, `RegisteredCanVerifyHolds` are parts of `IInv`; `ValidStaysHolds` is an
action property: only the commit of a register and an edit write `isValid`, and the first writes back what it finds.

*Session.* Lemmas about `ToInt32` (its range, that it differs from its argument by a whole turn for each wrap, that `Overrun` only grows) come first.
`LimitMeans` and `RefreshableMeans` say what the comparison of two wrapped integers means in seconds: a limit that was set in second s and is compared in second n is over at
s + `RefreshExpires` + `Overrun(s, n)`, so never before `RefreshExpires` has passed. The model thus covers the wrap and does not except it: each wrap since the login lets a session live one turn longer.
`TokensInv`: a token was signed between its login and now, when the limit computed at the login was not over by that account; it carries over a refresh because the refreshed token keeps
`refreshExp`. `CarriedInv`: what the guard let pass had not expired when it looked. `ShutInv`: whoever was seen enabled has had an enabled user since the call
began. Theorems: `TypeCorrect`, `Inductive`, `SessionEndsHolds`, `RefreshedInTimeHolds`, `LockedOutHolds`.

*Roles.* `LockInv`: two open transactions never write one user. `HandInv`: unless a transaction of the account has timed out, the statement that replaces
its roles has all of them in its hand; with `LockInv` this gives `OneRoleEach`, which is why the property names the timed-out update (`late`). `SupersededInv`:
a replacement takes every link it supersedes with it; `CheckInv`: what a check has read was not superseded by what it knows; both for `GrantIsFresh`. `DeleteInv`:
who knows of a deletion does not give the role, and what a deletion did not see came after it began. `RoleWrittenInv`: the link a call wrote is there, or another
statement beyond its match has taken it. Theorems: `TypeCorrect`, `Inductive`, `OneRoleEachHolds`, `GrantIsFreshHolds`, `DeletedNotAssignedHolds`, `DataHasRoleHolds`.

*Serving.* `PlacesInv`: a request is at a place of its own handler, and a statement or a transaction of it is open only where the handler has one. `FilesInv`: an upload
about to insert its row has its whole file in the storage of this process, so that a restart with another driver, which ends it, cannot come between; one about to be answered has its row. `ReadsInv`,
`MessagesInv`: a download reads the file of a row, a log is written with an answer to a message that was taken. Theorems: `TypeCorrect`, `Inductive`, `RowHasFileHolds`,
`DownloadFindsFileHolds`, `LogHasMessageHolds`.

*Refinement.* `Refines` says `Spec => Implements`: the initial states map to the initial state (`InitMaps`), and one lemma per action shows
under `IInv` that it maps to a step of `OneTimeCode` or changes none of its variables. The commit of a `create` is the only issue; what it retires is
what it has locked, and `CreateInv` with `OutcomeInv` say that these are codes of its account. A verify presents a code of its own account, because `Findable` asks for `userAccountId`. `RemoveAccount` is a `Withdraw` because a row belongs to the account that
drew it. Recording a rejected, lost or failed call is a `Refuse` or `Fail`. `Refines` of `PasswordResetProofs` says the same of the forgotten password,
`HSpec => Implements`, under `HInv`: `IInv` with `HitInv` (a create is going to invalidate codes of its own account, whoever drew them) and
`MarkedInv` (a verify that marks has found a code, and `marked` are those past it). Only the commit of an ask issues, only a mark accepts, only the removal of
a user withdraws; reset tokens, passwords and the deletes of tokens are stutters, whatever becomes of them.

*Listing.* `WalkSeesAll` counts, so the invariant does. Of a walk by pages let `Skipped` be the rows there all along that lie before the border of the pages
asked so far and were not given, and `Ahead` the rows given that lie behind it. `SkippedInv`: there are no more `Skipped` rows than removals; `AheadInv`: the
repetitions so far and the `Ahead` rows are together no more than the inserts. A commit moves every row by one position at most (`AtInsert`, `AtRemove`) and, where no rows
are tied, a position holds one row (`AtInjective`), so that one row at most crosses the border. A page moves the border and gives exactly the rows in between
(`SortedAt`, `PageSeq`): none of them joins `Skipped`, and those of `Ahead` among them become repetitions. `TotalInv`: what lies beyond the pages that the
client was told of came after the count and is still there. `AllInv` is the list that is asked for at once. When the walk is over, what it has missed is `Skipped` or beyond the last
page (`BeyondLast`), which gives the bound of `WalkSeesAllHolds`; `Inductive` and `TypeCorrect` are the other theorems. That no rows are tied is a hypothesis of the property:
the lists by `createdAt` have no second key.

*Queries.* `WhereMeansHolds` has one lemma per function: `TransformHolds` (a decorator without options registers both transforms, and each runs in its own direction),
`ParamsHold`, `UsersHold`, `DatesHold`; the last one says that two intervals have an instant in common exactly if neither ends before the other
begins (`Overlap`), and that this is what the members of the `OR` ask, with null for an open end (`RangeAsked`).

Only model-checked: the liveness of both `AllAnswered`, which is out of the prover's reach (fairness, ENABLED); and `HelpersAgree`, which is
checked by enumeration of its inputs: what folds and the recursive `MapChildren` compute for every input needs an induction that the prover cannot instantiate.

## 5. What is left out

* Data: the characters of codes, tokens and names, bcrypt (a password is the request that set it),
  message texts, response shapes, DTO validation (inputs are those it lets pass).
* `Accounts` leaves the code's life to `Verification`; composing the two would add no interleaving that the steps `send` and
  `VerifyRead` do not stand for, because they share no row but the account.
* The models of single components let a transaction fail at any moment, which covers pool timeouts as a cause of failure; waiting
  for a connection is `Serving`'s part, which in turn leaves out what the tables say.
* `isEnabled` and the name of a role, which no check asks; `user_account_has_permission`, which nothing writes; the signature of a token.
* `order-by-input` (renames keys), the decorators of single fields, dates, Excel but for `createOuterBorder`, floating point (trips and `pnpoly` are over integers,
  the division of `pnpoly` is multiplied out).
* Other isolation levels, replicas, a clock that runs backwards.
* The protocols of external services: they accept, refuse, fail or stay silent.
* Components not modelled, each with the reason, are listed in `PROJECT.json`.

What the code permits on failure is permitted by the models, and the properties bind the rest. A message that could not be sent leaves a code that nobody has; a
reset that fails after its write leaves its token; a file may be without a row; a message without a log; a request may be lost with the process; a bucket may answer
with a part; a call that the guard has let through is handled although its user is disabled meanwhile, and `isValid` is not asked; a deleted or disabled role goes on
granting. The notes of the hazards in `PROJECT.json` say this where it applies.

## 6. Disagreements with the documents

Shown by runs that TLC finds violated (quotations in `PROJECT.json`):

1. `UsedOnce`: two overlapping verifies accept one code; the document says `usedAt` excludes it.
2. `OneValidUserPerName`: a registration under way beside an administrator's creation of the same name ends with two valid users.
3. `OwnProfile`: a profile update reaches the user whose id equals the caller's account id.

Met while reading and modelling, and kept here without a run (all but the last show on the models as properties of
the smallest instance):

* two overlapping creates leave two valid codes (`verification-sa.md:758`); a code is accepted at `expireAt` = now
  (`:769`); a verify marks a row that a create has invalidated meanwhile (`:75`);
* the creation of account and user is not atomic and leaves an orphaned account (`user-sa.md:148`, `:1018`);
  a second register of an unverified name is answered with success and its password dropped (`:581`); a register
  overwrites the data of a user validated meanwhile (`:578`); an edit that does not mention `isValid` validates (`:981`);
* a second verification answers the reset token left by the first (`:434`); a failure after the password is
  written leaves the token usable (`:436`); of two overlapping resets the second writes with a token that is
  gone (`:733`); `updatePassword` may replace a password that its caller never presented (`user-account-sa.md:263`);
* an update of a user that fails or times out may leave its role assigned, since `updateRole` runs outside the transaction (`user-sd.md:1612`), and
  two updates may leave two roles once the first has timed out; `PermissionGuard` asks the roles of a root user too (`user-sa.md:1007`);
  a third-party login does not ask `isEnabled`, though the guard then refuses its token (`user-sa.md:285` has the check for the local login);
* a token whose limit was set before the seconds wrap around (2038-01-19) is refreshed after the limit is over (`user-sa.md:995`), by the term `Overrun` of
  `RefreshedInTime`;
* a file is saved outside the transaction of its row (`upload-sa.md:181`), so an upload that fails leaves a file without a row;
* the `catch` of `thirdPartyLogin` never runs, because the transaction is returned and not awaited (`user-auth.service.ts:386`).

## 7. Plan

Done: 1. `Verification` with proofs; 2. `Accounts` with proofs; 3. `PasswordReset` with proofs; 4. `OneTimeCode` and its refinement, proved; 5. `Roles` and `Session`
with proofs; 6. `Serving` with proofs; 7. `Listing`, `Queries` and `Helpers`; 8. `WalkSeesAll` and `WhereMeans` as theorems; 9. `PasswordReset` as a second
implementation of `OneTimeCode`, proved.

Left: the helpers of `Helpers` for inputs of any size, which needs induction; an abstract specification of the sessions of `Session` like `OneTimeCode`.
