--------------------------- MODULE AccountsProofs ---------------------------
(***************************************************************************)
(* Theorems about Accounts, for any calls and names.                       *)
(***************************************************************************)
EXTENDS AccountsInv, TLAPS

USE NoneAssumption, KindsAssumption DEF Goto, tables, locals

-----------------------------------------------------------------------------
\* What each step may change

\* TypeOK in two parts, the calls and the rows.
CallTypes ==
    /\ lastAccount \in Nat /\ lastUser \in Nat
    /\ pc \in [Requests -> States]
    /\ arg \in [Requests -> Names \cup BOOLEAN \cup {None}]
    /\ acct \in [Requests -> 0..lastAccount]
    /\ user \in [Requests -> 0..lastUser]
    /\ tok \in [Requests -> Requests \cup {None}]
    /\ before \in [Requests -> SUBSET Requests]

RowTypes ==
    /\ accounts \subseteq [id : 1..lastAccount, name : Names, by : Requests]
    /\ users \subseteq [id : 1..lastUser, account : 1..lastAccount, valid : BOOLEAN,
                        by : Requests, info : Requests]
    /\ tokens \subseteq [id : Registers, account : 1..lastAccount]
    /\ \A a, b \in accounts : a.id = b.id => a = b
    /\ \A u, w \in users : u.id = w.id => u = w

LEMMA TypeParts == TypeOK <=> CallTypes /\ RowTypes
  BY DEF TypeOK, CallTypes, RowTypes

LEMMA Kinds ==
    /\ Registers \subseteq Inserters /\ Creations \subseteq Inserters /\ Socials \subseteq Inserters
    /\ Inserters = Registers \cup Creations \cup Socials
    /\ Inserters \subseteq Requests /\ Verifies \subseteq Requests
    /\ Profiles \subseteq Requests /\ Edits \subseteq Requests
    /\ None \notin Requests
    /\ Succeeded \subseteq Requests
  BY DEF Inserters, Requests, Succeeded

LEMMA InitTypes == Init => TypeOK
  BY DEF Init, TypeOK, States, Requests

-----------------------------------------------------------------------------
\* Types

LEMMA CallTypesKept ==
    ASSUME CallTypes, RowTypes, [Next]_vars
    PROVE  CallTypes'
<1> USE Kinds
<1>1. CASE UNCHANGED vars
  BY <1>1 DEF CallTypes, vars
<1>2. ASSUME NEW r \in Inserters, CheckAccount(r) \/ RegisterGet(r) \/ SocialGet(r)
      PROVE  CallTypes'
  <2>1. \A n : \A a \in Named(n) : a.id \in 0..lastAccount
    BY DEF RowTypes, CallTypes, Named
  <2>2. QED
    BY <1>2, <2>1 DEF CallTypes, CheckAccount, RegisterGet, SocialGet, Found, States
<1>3. ASSUME NEW r \in Inserters, CheckUser(r) \/ SetRole(r) \/ WriteUser(r)
      PROVE  CallTypes'
  BY <1>3 DEF CallTypes, CheckUser, SetRole, WriteUser, States
<1>4. ASSUME NEW r \in Inserters, MakeAccount(r) \/ Touch(r)
      PROVE  CallTypes'
  BY <1>4 DEF CallTypes, MakeAccount, Touch, InsertAccount, AfterAccount, States
<1>5. ASSUME NEW r \in Inserters, FindUser(r)
      PROVE  CallTypes'
  BY <1>5 DEF CallTypes, RowTypes, FindUser, UsersOf, States
<1>6. ASSUME NEW r \in Inserters, FindToken(r) \/ Deliver(r)
      PROVE  CallTypes'
  BY <1>6 DEF CallTypes, RowTypes, FindToken, Deliver, TokensOf, States
<1>7. ASSUME NEW r \in Inserters, Commit(r)
      PROVE  CallTypes'
  BY <1>7 DEF CallTypes, Commit, States
<1>8. ASSUME NEW v \in Verifies, VerifyRead(v)
      PROVE  CallTypes'
  BY <1>8 DEF CallTypes, RowTypes, VerifyRead, UsersOf, States
<1>9. ASSUME NEW v \in Verifies, VerifyMark(v)
      PROVE  CallTypes'
  BY <1>9 DEF CallTypes, VerifyMark, States
<1>10. ASSUME NEW p \in Profiles, UpdateProfile(p)
       PROVE  CallTypes'
  BY <1>10 DEF CallTypes, RowTypes, UpdateProfile, States
<1>11. ASSUME NEW e \in Edits, UpdateUser(e)
       PROVE  CallTypes'
  BY <1>11 DEF CallTypes, RowTypes, UpdateUser, States
<1>12. ASSUME NEW r \in Requests, Abort(r)
       PROVE  CallTypes'
  BY <1>12 DEF CallTypes, Abort, States
<1>13. ASSUME NEW u \in users, RemoveUser(u)
       PROVE  CallTypes'
  BY <1>13 DEF CallTypes, RemoveUser
<1>14. QED
  BY <1>1, <1>2, <1>3, <1>4, <1>5, <1>6, <1>7, <1>8, <1>9, <1>10, <1>11, <1>12, <1>13
  DEF Next, InsertSteps

\* A user row as an update leaves it is a row of the same user.
Rows == [id : 1..lastUser, account : 1..lastAccount, valid : BOOLEAN, by : Requests, info : Requests]
SameRow(w, u) == w.id = u.id /\ w.account = u.account /\ w.by = u.by

LEMMA EditedRow ==
    ASSUME NEW u \in Rows, NEW b \in BOOLEAN, NEW i \in Requests
    PROVE  /\ [u EXCEPT !.valid = b] \in Rows /\ SameRow([u EXCEPT !.valid = b], u)
           /\ [u EXCEPT !.info = i] \in Rows /\ SameRow([u EXCEPT !.info = i], u)
           /\ [u EXCEPT !.info = i, !.valid = b] \in Rows
           /\ SameRow([u EXCEPT !.info = i, !.valid = b], u)
  BY DEF Rows, SameRow

\* Such updates: every user keeps its row.
Rewrites(f) ==
    /\ users' = {f[u] : u \in users}
    /\ \A u \in users : f[u] \in Rows /\ SameRow(f[u], u)
    /\ UNCHANGED <<accounts, lastAccount, lastUser>>

Edit(r) ==
    \/ r \in Verifies /\ VerifyMark(r)
    \/ r \in Profiles /\ UpdateProfile(r)
    \/ r \in Edits /\ UpdateUser(r)
    \/ r \in Inserters /\ Commit(r) /\ user[r] # 0

LEMMA Rewritten ==
    ASSUME RowTypes, NEW r \in Requests, Edit(r)
    PROVE  \E f : Rewrites(f)
<1> USE Kinds, EditedRow
<1>1. users \subseteq Rows
  BY DEF RowTypes, Rows
<1>2. CASE r \in Verifies /\ VerifyMark(r)
  <2> DEFINE f == [u \in users |-> IF u.id = user[r] THEN [u EXCEPT !.valid = TRUE] ELSE u]
  <2>1. users' = {f[u] : u \in users} /\ UNCHANGED <<accounts, lastAccount, lastUser>>
    BY <1>2 DEF VerifyMark
  <2>2. \A u \in users : f[u] \in Rows /\ SameRow(f[u], u)
    BY <1>1 DEF SameRow
  <2>3. QED
    BY <2>1, <2>2 DEF Rewrites
<1>3. CASE r \in Profiles /\ UpdateProfile(r)
  <2>1. PICK i : users' = {IF u \in ProfileOf(i) THEN [u EXCEPT !.info = r] ELSE u : u \in users}
    BY <1>3 DEF UpdateProfile
  <2> DEFINE f == [u \in users |-> IF u \in ProfileOf(i) THEN [u EXCEPT !.info = r] ELSE u]
  <2>2. users' = {f[u] : u \in users} /\ UNCHANGED <<accounts, lastAccount, lastUser>>
    BY <1>3, <2>1 DEF UpdateProfile
  <2>3. \A u \in users : f[u] \in Rows /\ SameRow(f[u], u)
    BY <1>1 DEF SameRow
  <2>4. QED
    BY <2>2, <2>3 DEF Rewrites
<1>4. CASE r \in Edits /\ UpdateUser(r)
  <2>1. PICK u \in users, b \in BOOLEAN :
          users' = (users \ {u}) \cup {[u EXCEPT !.info = r, !.valid = b]}
    BY <1>4 DEF UpdateUser
  <2> DEFINE g == [u EXCEPT !.info = r, !.valid = b]
             f == [w \in users |-> IF w = u THEN g ELSE w]
  <2>2. g \in Rows /\ SameRow(g, u)
    BY <1>1, <2>1
  <2>3. users' = (users \ {u}) \cup {g} /\ UNCHANGED <<accounts, lastAccount, lastUser>>
    BY <1>4, <2>1 DEF UpdateUser
  <2> HIDE DEF g
  <2>4. users' = {f[w] : w \in users}
    <3>1. f[u] = g /\ \A w \in users \ {u} : f[w] = w
      BY <2>1
    <3> HIDE DEF f
    <3>2. \A x \in users' : \E w \in users : x = f[w]
      BY <2>3, <3>1
    <3>3. \A w \in users : f[w] \in users'
      BY <2>3, <3>1
    <3>4. QED
      BY <3>2, <3>3
  <2>5. \A w \in users : f[w] \in Rows /\ SameRow(f[w], w)
    BY <1>1, <2>2 DEF SameRow
  <2>6. QED
    BY <2>3, <2>4, <2>5 DEF Rewrites
<1>5. CASE r \in Inserters /\ Commit(r) /\ user[r] # 0
  <2> DEFINE f == [u \in users |-> IF u.id = user[r] THEN UpdatedUser(u, r) ELSE u]
  <2>1. users' = {f[u] : u \in users} /\ UNCHANGED <<accounts, lastAccount, lastUser>>
    BY <1>5 DEF Commit
  <2>2. \A u \in users : f[u] \in Rows /\ SameRow(f[u], u)
    BY <1>1 DEF SameRow, UpdatedUser
  <2>3. QED
    BY <2>1, <2>2 DEF Rewrites
<1>6. QED
  BY <1>2, <1>3, <1>4, <1>5 DEF Edit

LEMMA RowTypesKept ==
    ASSUME TypeOK, CallsInv, RowsInv, [Next]_vars
    PROVE  RowTypes'
<1> USE Kinds, TypeParts
<1>1. CASE UNCHANGED tables
  BY <1>1 DEF RowTypes
<1>2. ASSUME NEW r \in Inserters, pc[r] # "idle", InsertAccount(r), UNCHANGED <<users, tokens, lastUser>>
      PROVE  RowTypes'
  <2>1. arg[r] \in Names
    BY <1>2 DEF CallsInv
  <2> DEFINE a == [id |-> lastAccount + 1, name |-> arg[r], by |-> r]
  <2>2. accounts' = accounts \cup {a} /\ lastAccount' = lastAccount + 1
    BY <1>2 DEF InsertAccount
  <2>3. a \in [id : 1..lastAccount', name : Names, by : Requests] /\ \A b \in accounts : b.id # a.id
    BY <2>1, <2>2 DEF CallTypes, RowTypes
  <2>4. 1..lastAccount \subseteq 1..lastAccount'
    BY <2>2 DEF CallTypes
  <2> HIDE DEF a
  <2>5. QED
    BY <1>2, <2>2, <2>3, <2>4 DEF RowTypes
<1>3. ASSUME NEW r \in Inserters, Commit(r)
      PROVE  RowTypes'
  <2>1. acct[r] \in 1..lastAccount
    BY <1>3 DEF RowsInv, Writing, AccountIds, Commit, RowTypes
  <2>2. tokens' \subseteq [id : Registers, account : 1..lastAccount']
    BY <1>3, <2>1 DEF Commit, RowTypes
  <2>3. ASSUME user[r] = 0, NEW b \in Validity(r), users' = users \cup {NewUser(r, b)},
               lastUser' = lastUser + 1
        PROVE  RowTypes'
    <3>0. b \in BOOLEAN
      BY <2>3 DEF Validity
    <3>1. NewUser(r, b) \in [id : 1..lastUser', account : 1..lastAccount, valid : BOOLEAN,
                             by : Requests, info : Requests]
      BY <2>1, <2>3, <3>0 DEF NewUser, CallTypes
    <3>2. \A u \in users : u.id # NewUser(r, b).id
      BY DEF NewUser, CallTypes, RowTypes
    <3>3. 1..lastUser \subseteq 1..lastUser'
      BY <2>3 DEF CallTypes
    <3>4. QED
      BY <1>3, <2>2, <2>3, <3>1, <3>2, <3>3 DEF RowTypes, Commit
  <2>4. CASE user[r] # 0
    <3>1. PICK f : Rewrites(f)
      BY <1>3, <2>4, Rewritten DEF Edit
    <3>2. QED
      BY <2>2, <3>1 DEF Rewrites, Rows, SameRow, RowTypes
  <2>5. QED
    BY <1>3, <2>3, <2>4 DEF Commit
<1>4. ASSUME NEW r \in Requests, Edit(r), UNCHANGED tokens
      PROVE  RowTypes'
  <2>1. PICK f : Rewrites(f)
    BY <1>4, Rewritten
  <2>2. QED
    BY <1>4, <2>1 DEF Rewrites, Rows, SameRow, RowTypes
<1>5. ASSUME NEW u \in users, RemoveUser(u)
      PROVE  RowTypes'
  BY <1>5 DEF RowTypes, RemoveUser, UsersOf, TokensOf
<1>6. QED
  BY <1>1, <1>2, <1>3, <1>4, <1>5
  DEF Next, InsertSteps, Edit, VerifyMark, UpdateProfile, UpdateUser, vars, CheckAccount, CheckUser,
      RegisterGet, SocialGet, MakeAccount, Touch, SetRole, FindUser, WriteUser, FindToken, Deliver, VerifyRead, Abort

-----------------------------------------------------------------------------
\* How a call moves: a step is its own or leaves it as it is

Kept(r) == acct'[r] = acct[r] /\ user'[r] = user[r]
           /\ arg'[r] = arg[r] /\ tok'[r] = tok[r] /\ before'[r] = before[r]
Same(r) == Kept(r) /\ pc'[r] = pc[r]
Begins(r) == pc[r] = "idle" /\ before'[r] = Succeeded

LEMMA AreFunctions == CallTypes =>
    /\ pc = [r \in Requests |-> pc[r]] /\ arg = [r \in Requests |-> arg[r]]
    /\ acct = [r \in Requests |-> acct[r]] /\ user = [r \in Requests |-> user[r]]
    /\ tok = [r \in Requests |-> tok[r]] /\ before = [r \in Requests |-> before[r]]
  BY DEF CallTypes

\* The step of a call of its kind.
Own(r) ==
    \/ r \in Registers \cup Creations /\ CheckAccount(r)
    \/ r \in Socials /\ SocialGet(r)
    \/ r \in Inserters /\ InsertSteps(r)
    \/ r \in Verifies /\ (VerifyRead(r) \/ VerifyMark(r))
    \/ r \in Profiles /\ UpdateProfile(r)
    \/ r \in Edits /\ UpdateUser(r)
    \/ Abort(r)

LEMMA Moves ==
    ASSUME CallTypes, [Next]_vars, NEW r \in Requests
    PROVE  Same(r) \/ Own(r)
<1> USE Kinds, AreFunctions
<1>1. CASE UNCHANGED vars
  BY <1>1 DEF vars, Same, Kept
<1>2. ASSUME NEW q \in Requests \ {r}, Own(q)
      PROVE  Same(r)
  <2>1. CASE CheckAccount(q) \/ SocialGet(q) \/ CheckUser(q) \/ RegisterGet(q)
    BY <1>2, <2>1 DEF CheckAccount, SocialGet, CheckUser, RegisterGet, Found, Same, Kept
  <2>2. CASE MakeAccount(q) \/ Touch(q) \/ SetRole(q) \/ FindUser(q)
    BY <1>2, <2>2 DEF MakeAccount, Touch, SetRole, FindUser, Same, Kept
  <2>3. CASE WriteUser(q) \/ FindToken(q) \/ Commit(q) \/ Deliver(q) \/ Abort(q)
    BY <1>2, <2>3 DEF WriteUser, FindToken, Commit, Deliver, Abort, Same, Kept
  <2>4. CASE VerifyRead(q) \/ VerifyMark(q) \/ UpdateProfile(q) \/ UpdateUser(q)
    BY <1>2, <2>4 DEF VerifyRead, VerifyMark, UpdateProfile, UpdateUser, Same, Kept
  <2>5. QED
    BY <1>2, <2>1, <2>2, <2>3, <2>4 DEF Own, InsertSteps
<1>3. ASSUME NEW u \in users, RemoveUser(u)
      PROVE  Same(r)
  BY <1>3 DEF RemoveUser, Same, Kept
<1>4. Next => (\E q \in Requests : Own(q)) \/ \E u \in users : RemoveUser(u)
  BY DEF Next, Own
<1>5. QED
  BY <1>1, <1>2, <1>3, <1>4

\* A call begins once and ends once.
LEMMA CallMoves ==
    ASSUME CallTypes, [Next]_vars, NEW r \in Requests
    PROVE  /\ pc'[r] = "idle" => Same(r)
           /\ pc[r] \in {"done", "rejected", "failed"} => Same(r)
           /\ before'[r] = before[r] \/ (pc[r] = "idle" /\ before'[r] = Succeeded)
<1> USE Kinds, AreFunctions
<1>1. CASE Same(r)
  BY <1>1 DEF Same, Kept
<1>2. CASE CheckAccount(r) \/ SocialGet(r) \/ CheckUser(r) \/ RegisterGet(r)
  BY <1>2 DEF CheckAccount, SocialGet, CheckUser, RegisterGet, Found
<1>3. CASE MakeAccount(r) \/ Touch(r) \/ SetRole(r) \/ FindUser(r)
  BY <1>3 DEF MakeAccount, Touch, SetRole, FindUser, AfterAccount
<1>4. CASE WriteUser(r) \/ FindToken(r) \/ Commit(r) \/ Deliver(r) \/ Abort(r)
  BY <1>4 DEF WriteUser, FindToken, Commit, Deliver, Abort
<1>5. CASE VerifyRead(r) \/ VerifyMark(r) \/ UpdateProfile(r) \/ UpdateUser(r)
  BY <1>5 DEF VerifyRead, VerifyMark, UpdateProfile, UpdateUser
<1>6. QED
  BY <1>1, <1>2, <1>3, <1>4, <1>5, Moves DEF Own, InsertSteps

\* The tables change by an account inserted, a commit, an update or a removal.
LEMMA TableMoves ==
    ASSUME [Next]_vars
    PROVE  \/ UNCHANGED tables
           \/ \E r \in Inserters : /\ InsertAccount(r) /\ UNCHANGED <<users, tokens, lastUser>>
                                   /\ MakeAccount(r) \/ (Touch(r) /\ acct[r] \notin AccountIds)
           \/ \E r \in Inserters : Commit(r)
           \/ \E r \in Requests : Edit(r) /\ UNCHANGED tokens
           \/ \E u \in users : RemoveUser(u)
<1> USE Kinds
<1>1. CASE \E r \in Inserters : CheckAccount(r) \/ SocialGet(r) \/ CheckUser(r) \/ RegisterGet(r)
                                \/ SetRole(r) \/ FindUser(r) \/ WriteUser(r) \/ FindToken(r)
                                \/ Deliver(r)
  BY <1>1 DEF CheckAccount, SocialGet, CheckUser, RegisterGet, SetRole, FindUser, WriteUser,
              FindToken, Deliver
<1>2. CASE \E r \in Inserters : MakeAccount(r) \/ Touch(r)
  BY <1>2 DEF MakeAccount, Touch
<1>3. CASE (\E v \in Verifies : VerifyRead(v)) \/ (\E r \in Requests : Abort(r)) \/ UNCHANGED vars
  BY <1>3 DEF VerifyRead, Abort, vars
<1>4. CASE \/ \E v \in Verifies : VerifyMark(v)
           \/ \E p \in Profiles : UpdateProfile(p)
           \/ \E e \in Edits : UpdateUser(e)
  BY <1>4 DEF VerifyMark, UpdateProfile, UpdateUser, Edit
<1>5. QED
  BY <1>1, <1>2, <1>3, <1>4 DEF Next, InsertSteps

-----------------------------------------------------------------------------
\* The calls

LEMMA CallsKept ==
    ASSUME TypeOK, CallsInv, [Next]_vars
    PROVE  CallsInv'
<1> USE Kinds, TypeParts
<1>1. ASSUME NEW r \in Requests
      PROVE  /\ pc'[r] \in Unread => user'[r] = 0
             /\ r \in Creations \cup Socials /\ pc'[r] \in {"write", "token", "commit"} => user'[r] = 0
             /\ r \in Inserters /\ pc'[r] # "idle" => arg'[r] \in Names
             /\ r \in Registers => pc'[r] # "touch"
  <2> USE DEF Unread, Seeking, CallsInv, CallTypes, States
  <2>1. CASE Same(r)
    BY <2>1 DEF Same, Kept
  <2>2. CASE CheckAccount(r) \/ (r \in Socials /\ SocialGet(r))
    BY <2>2 DEF CheckAccount, SocialGet, Found
  <2>3. CASE CheckUser(r) \/ RegisterGet(r) \/ MakeAccount(r) \/ Touch(r)
    BY <2>3 DEF CheckUser, RegisterGet, Found, MakeAccount, AfterAccount, Touch
  <2>4. CASE SetRole(r) \/ FindUser(r) \/ WriteUser(r)
    BY <2>4 DEF SetRole, FindUser, WriteUser
  <2>5. CASE FindToken(r) \/ Commit(r) \/ Deliver(r) \/ Abort(r)
    BY <2>5 DEF FindToken, Commit, Deliver, Abort
  <2>6. CASE r \in Verifies /\ (VerifyRead(r) \/ VerifyMark(r))
    BY <2>6 DEF VerifyRead, VerifyMark
  <2>7. CASE (r \in Profiles /\ UpdateProfile(r)) \/ (r \in Edits /\ UpdateUser(r))
    BY <2>7 DEF UpdateProfile, UpdateUser
  <2>8. QED
    BY <2>1, <2>2, <2>3, <2>4, <2>5, <2>6, <2>7, Moves DEF Own, InsertSteps
<1>2. Succeeded \subseteq Succeeded'
  BY CallMoves DEF Succeeded, Same
<1>3. \A r \in Requests : before'[r] \subseteq Succeeded'
  BY <1>2, CallMoves DEF CallsInv
<1>4. QED
  BY <1>1, <1>3 DEF CallsInv

-----------------------------------------------------------------------------
\* The rows

\* A user row comes of one that was there, or is inserted by a commit.
LEMMA UsersMove ==
    ASSUME TypeOK, [Next]_vars, NEW w \in users'
    PROVE  \/ \E u \in users : SameRow(w, u)
           \/ \E r \in Inserters : /\ Commit(r) /\ user[r] = 0
                                   /\ \E b \in Validity(r) : w = NewUser(r, b)
                                   /\ lastUser' = lastUser + 1
<1> USE Kinds, TypeParts
<1>1. ASSUME NEW r \in Requests, Edit(r)
      PROVE  \E u \in users : SameRow(w, u)
  BY <1>1, Rewritten DEF Rewrites
<1>2. ASSUME NEW r \in Inserters, Commit(r)
      PROVE  \/ \E u \in users : SameRow(w, u)
             \/ /\ user[r] = 0
                /\ \E b \in Validity(r) : w = NewUser(r, b)
                /\ lastUser' = lastUser + 1
  <2>1. CASE user[r] # 0
    BY <1>1, <1>2, <2>1 DEF Edit
  <2>2. CASE user[r] = 0
    BY <1>2, <2>2 DEF Commit, SameRow
  <2>3. QED
    BY <2>1, <2>2
<1>3. ASSUME NEW x \in users, RemoveUser(x)
      PROVE  w \in users
  BY <1>3 DEF RemoveUser
<1>4. QED
  BY <1>1, <1>2, <1>3, TableMoves DEF SameRow

\* It stays, unless its account is removed.
LEMMA UsersStay ==
    ASSUME TypeOK, [Next]_vars, NEW u \in users
    PROVE  \/ \E w \in users' : SameRow(w, u)
           \/ \E x \in users : RemoveUser(x) /\ x.account = u.account
<1> USE Kinds, TypeParts
<1>1. ASSUME NEW r \in Requests, Edit(r)
      PROVE  \E w \in users' : SameRow(w, u)
  BY <1>1, Rewritten DEF Rewrites
<1>2. ASSUME NEW r \in Inserters, Commit(r)
      PROVE  \E w \in users' : SameRow(w, u)
  <2>1. CASE user[r] # 0
    BY <1>1, <1>2, <2>1 DEF Edit
  <2>2. CASE user[r] = 0
    BY <1>2, <2>2 DEF Commit, SameRow
  <2>3. QED
    BY <2>1, <2>2
<1>3. ASSUME NEW x \in users, RemoveUser(x), x.account # u.account
      PROVE  u \in users'
  BY <1>3 DEF RemoveUser, UsersOf
<1>4. QED
  BY <1>1, <1>2, <1>3, TableMoves DEF SameRow

\* The same of accounts and of tokens.
LEMMA AccountsMove ==
    ASSUME [Next]_vars, NEW a \in accounts'
    PROVE  \/ a \in accounts
           \/ \E r \in Inserters :
                 /\ a = [id |-> lastAccount + 1, name |-> arg[r], by |-> r]
                 /\ MakeAccount(r) \/ (Touch(r) /\ acct[r] \notin AccountIds)
                 /\ accounts' = accounts \cup {a} /\ lastAccount' = lastAccount + 1
                 /\ UNCHANGED <<users, tokens, lastUser>>
<1>1. ASSUME NEW r \in Requests, Edit(r) \/ Commit(r)
      PROVE  a \in accounts
  BY <1>1 DEF Edit, VerifyMark, UpdateProfile, UpdateUser, Commit
<1>2. ASSUME NEW x \in users, RemoveUser(x)
      PROVE  a \in accounts
  BY <1>2 DEF RemoveUser
<1>3. QED
  BY <1>1, <1>2, TableMoves, Kinds DEF InsertAccount

LEMMA AccountsStay ==
    ASSUME [Next]_vars, NEW a \in accounts
    PROVE  a \in accounts' \/ \E x \in users : RemoveUser(x) /\ x.account = a.id
<1>1. ASSUME NEW r \in Requests, Edit(r) \/ Commit(r)
      PROVE  a \in accounts'
  BY <1>1 DEF Edit, VerifyMark, UpdateProfile, UpdateUser, Commit
<1>2. ASSUME NEW x \in users, RemoveUser(x), x.account # a.id
      PROVE  a \in accounts'
  BY <1>2 DEF RemoveUser
<1>3. QED
  BY <1>1, <1>2, TableMoves, Kinds DEF InsertAccount

LEMMA TokensMove ==
    ASSUME [Next]_vars, NEW t \in tokens'
    PROVE  t \in tokens \/ \E r \in Registers : Commit(r) /\ t = [id |-> r, account |-> acct[r]]
<1>1. ASSUME NEW r \in Inserters, Commit(r)
      PROVE  t \in tokens \/ (r \in Registers /\ t = [id |-> r, account |-> acct[r]])
  BY <1>1 DEF Commit
<1>2. ASSUME NEW x \in users, RemoveUser(x)
      PROVE  t \in tokens
  BY <1>2 DEF RemoveUser
<1>3. QED
  BY <1>1, <1>2, TableMoves

LEMMA TokensStay ==
    ASSUME [Next]_vars, NEW t \in tokens
    PROVE  t \in tokens' \/ \E x \in users : RemoveUser(x) /\ x.account = t.account
<1>1. ASSUME NEW r \in Inserters, Commit(r)
      PROVE  t \in tokens'
  BY <1>1 DEF Commit
<1>2. ASSUME NEW x \in users, RemoveUser(x), x.account # t.account
      PROVE  t \in tokens'
  BY <1>2 DEF RemoveUser, TokensOf
<1>3. QED
  BY <1>1, <1>2, TableMoves

\* An account id that is gone never comes back.
LEMMA IdsMove ==
    ASSUME TypeOK, [Next]_vars, NEW i \in 0..lastAccount
    PROVE  /\ i \in AccountIds' => i \in AccountIds
           /\ i \in AccountIds => \/ i \in AccountIds'
                                  \/ \E x \in users : RemoveUser(x) /\ x.account = i
<1>1. i # lastAccount + 1
  BY DEF TypeOK
<1>2. i \in AccountIds' => i \in AccountIds
  BY <1>1, AccountsMove DEF AccountIds
<1>3. QED
  BY <1>2, AccountsStay DEF AccountIds

LEMMA RowsKept ==
    ASSUME TypeOK, CallsInv, RowsInv, [Next]_vars
    PROVE  RowsInv'
<1> USE Kinds, TypeParts
<1>1. ASSUME NEW w \in users'
      PROVE  w.account \in AccountIds'
  <2>1. CASE \E u \in users : SameRow(w, u)
    <3>1. PICK u \in users : SameRow(w, u)
      BY <2>1
    <3>2. u.account \in AccountIds /\ u.account \in 0..lastAccount
      BY DEF RowsInv, RowTypes, CallTypes
    <3>3. \A x \in users : RemoveUser(x) => x.account # w.account
      BY DEF RemoveUser, UsersOf
    <3>4. QED
      BY <3>1, <3>2, <3>3, IdsMove DEF SameRow
  <2>2. ASSUME NEW r \in Inserters, Commit(r), NEW b \in Validity(r), w = NewUser(r, b)
        PROVE  w.account \in AccountIds'
    BY <2>2 DEF Commit, NewUser, RowsInv, Writing, AccountIds
  <2>3. QED
    BY <2>1, <2>2, UsersMove
<1>2. ASSUME NEW t \in tokens'
      PROVE  t.account \in AccountIds'
  <2>1. CASE t \in tokens
    <3>1. t.account \in AccountIds /\ t.account \in 0..lastAccount
      BY <2>1 DEF RowsInv, RowTypes, CallTypes
    <3>2. \A x \in users : RemoveUser(x) => x.account # t.account
      BY DEF RemoveUser, TokensOf
    <3>3. QED
      BY <3>1, <3>2, IdsMove
  <2>2. ASSUME NEW r \in Registers, Commit(r), t = [id |-> r, account |-> acct[r]]
        PROVE  t.account \in AccountIds'
    BY <2>2 DEF Commit, RowsInv, Writing, AccountIds
  <2>3. QED
    BY <2>1, <2>2, TokensMove
<1>3. ASSUME NEW r \in Writing'
      PROVE  acct'[r] \in AccountIds'
  <2>1. r \in Requests /\ pc'[r] \in {"token", "commit"} /\ acct[r] \in 0..lastAccount
    BY DEF Writing, CallTypes
  <2>2. CASE Same(r)
    <3>1. r \in Writing /\ acct[r] \in AccountIds
      BY <2>1, <2>2 DEF Same, RowsInv, Writing
    <3>2. \A x \in users : RemoveUser(x) => x.account # acct[r]
      BY <3>1 DEF RemoveUser, AccountLocked
    <3>3. QED
      BY <2>1, <2>2, <3>1, <3>2, IdsMove DEF Same, Kept
  <2>3. CASE Own(r)
    <3>1. WriteUser(r) \/ FindToken(r)
      <4>1. ~CheckAccount(r) /\ ~SocialGet(r) /\ ~CheckUser(r) /\ ~RegisterGet(r) /\ ~FindUser(r)
        BY <2>1 DEF CallTypes, CheckAccount, SocialGet, CheckUser, RegisterGet, Found, FindUser
      <4>2. ~MakeAccount(r) /\ ~Touch(r) /\ ~SetRole(r) /\ ~Commit(r) /\ ~Deliver(r) /\ ~Abort(r)
        BY <2>1 DEF CallTypes, MakeAccount, AfterAccount, Touch, SetRole, Commit, Deliver, Abort
      <4>3. ~VerifyMark(r) /\ ~UpdateProfile(r) /\ ~UpdateUser(r)
        BY <2>1 DEF CallTypes, VerifyMark, UpdateProfile, UpdateUser
      <4>4. ~VerifyRead(r)
        BY <2>1 DEF CallTypes, VerifyRead
      <4>5. QED
        BY <2>3, <4>1, <4>2, <4>3, <4>4 DEF Own, InsertSteps
    <3>2. acct'[r] = acct[r] /\ accounts' = accounts
      BY <3>1 DEF WriteUser, FindToken
    <3>3. acct[r] \in AccountIds
      BY <2>1, <3>1 DEF WriteUser, FindToken, RowsInv, Writing, UserIds
    <3>4. QED
      BY <3>2, <3>3 DEF AccountIds
  <2>4. QED
    BY <2>1, <2>2, <2>3, Moves
<1>4. ASSUME NEW r \in Requests, pc'[r] \in {"write", "token", "commit", "mark"}, NEW w \in users',
             w.id = user'[r]
      PROVE  w.account = acct'[r]
  <2>1. CASE Same(r)
    <3>1. user'[r] = user[r] /\ acct'[r] = acct[r] /\ user[r] # lastUser + 1
      BY <2>1 DEF Same, Kept, CallTypes
    <3>2. PICK u \in users : SameRow(w, u)
      BY <1>4, <3>1, UsersMove DEF NewUser
    <3>3. QED
      BY <1>4, <2>1, <3>1, <3>2 DEF Same, SameRow, RowsInv
  <2>2. CASE Own(r)
    <3>1. CASE MakeAccount(r) \/ SetRole(r)
      <4>1. users' = users /\ user'[r] = 0
        BY <3>1 DEF MakeAccount, SetRole, CallsInv, Unread, Seeking
      <4>2. QED
        BY <1>4, <4>1 DEF RowTypes
    <3>2. CASE FindUser(r) \/ VerifyRead(r)
      BY <1>4, <3>2 DEF FindUser, VerifyRead, UsersOf, CallTypes, RowTypes, CallsInv, Unread, Seeking
    <3>3. CASE WriteUser(r) \/ FindToken(r)
      BY <1>4, <3>3 DEF WriteUser, FindToken, RowsInv
    <3>4. MakeAccount(r) \/ SetRole(r) \/ FindUser(r) \/ VerifyRead(r) \/ WriteUser(r) \/ FindToken(r)
      <4>1. ~CheckAccount(r) /\ ~SocialGet(r) /\ ~CheckUser(r) /\ ~RegisterGet(r)
        BY <1>4 DEF CallTypes, CheckAccount, SocialGet, CheckUser, RegisterGet, Found
      <4>2. ~Touch(r) /\ ~Commit(r) /\ ~Deliver(r) /\ ~Abort(r)
        BY <1>4 DEF CallTypes, Touch, Commit, Deliver, Abort
      <4>3. ~VerifyMark(r) /\ ~UpdateProfile(r) /\ ~UpdateUser(r)
        BY <1>4 DEF CallTypes, VerifyMark, UpdateProfile, UpdateUser
      <4>4. QED
        BY <2>2, <4>1, <4>2, <4>3 DEF Own, InsertSteps
    <3>5. QED
      BY <3>1, <3>2, <3>3, <3>4
  <2>3. QED
    BY <2>1, <2>2, Moves
<1>5. QED
  BY <1>1, <1>2, <1>3, <1>4 DEF RowsInv

-----------------------------------------------------------------------------
\* Who has inserted what

\* A call past the insert of its account keeps to it.
LEMMA SettledMoves ==
    ASSUME TypeOK, CallsInv, [Next]_vars, NEW r \in Inserters, pc[r] \notin Seeking
    PROVE  /\ acct'[r] = acct[r] /\ pc'[r] \notin Seeking /\ before'[r] = before[r]
           /\ arg'[r] = arg[r]
           /\ \/ Same(r)
              \/ Touch(r) \/ SetRole(r) \/ FindUser(r) \/ WriteUser(r) \/ FindToken(r)
              \/ Commit(r) \/ Deliver(r) \/ Abort(r)
<1> USE Kinds, TypeParts, AreFunctions
<1>1. \/ Same(r)
      \/ Touch(r) \/ SetRole(r) \/ FindUser(r) \/ WriteUser(r) \/ FindToken(r)
      \/ Commit(r) \/ Deliver(r) \/ Abort(r)
  <2>1. ~CheckAccount(r) /\ ~SocialGet(r) /\ ~CheckUser(r) /\ ~RegisterGet(r) /\ ~MakeAccount(r)
    BY DEF Seeking, CheckAccount, SocialGet, CheckUser, RegisterGet, MakeAccount
  <2>2. QED
    BY <2>1, Moves DEF Own, InsertSteps
<1>2. CASE Same(r)
  BY <1>1, <1>2 DEF Same, Kept
<1>3. CASE Touch(r) \/ SetRole(r) \/ FindUser(r)
  BY <1>1, <1>3 DEF Touch, SetRole, FindUser, Seeking
<1>4. CASE WriteUser(r) \/ FindToken(r) \/ Commit(r) \/ Deliver(r) \/ Abort(r)
  BY <1>1, <1>4 DEF WriteUser, FindToken, Commit, Deliver, Abort, Seeking
<1>5. QED
  BY <1>1, <1>2, <1>3, <1>4

LEMMA InsertedKept ==
    ASSUME TypeOK, CallsInv, RowsInv, InsertedInv, [Next]_vars
    PROVE  InsertedInv'
<1> USE Kinds, TypeParts, AreFunctions
<1>1. ASSUME NEW a \in accounts'
      PROVE  /\ a.by \in Inserters /\ pc'[a.by] \notin Seeking
             /\ \/ acct'[a.by] = a.id
                \/ /\ acct'[a.by] \notin AccountIds'
                   /\ pc'[a.by] \in {"user", "write", "failed"}
                   /\ pc'[a.by] = "write" => user'[a.by] = 0
  <2>1. CASE a \in accounts
    <3> DEFINE r == a.by
    <3>1. r \in Inserters /\ pc[r] \notin Seeking /\ acct[r] \in 0..lastAccount
      BY <2>1 DEF InsertedInv, CallTypes
    <3> HIDE DEF r
    <3>2. acct'[r] = acct[r] /\ pc'[r] \notin Seeking
      BY <3>1, SettledMoves
    <3>3. ASSUME acct[r] \notin AccountIds, pc[r] \in {"user", "write", "failed"},
                 pc[r] = "write" => user[r] = 0
          PROVE  /\ acct'[r] \notin AccountIds'
                 /\ pc'[r] \in {"user", "write", "failed"}
                 /\ pc'[r] = "write" => user'[r] = 0
      <4>1. acct'[r] \notin AccountIds'
        BY <3>1, <3>2, <3>3, IdsMove
      <4>2. CASE Same(r)
        BY <3>3, <4>1, <4>2 DEF Same, Kept
      <4>3. CASE FindUser(r)
        <5>1. UsersOf(acct[r]) = {} /\ user[r] = 0
          BY <3>1, <3>3, <4>3 DEF UsersOf, RowsInv, FindUser, CallsInv, Unread
        <5>2. QED
          BY <3>1, <4>1, <4>3, <5>1 DEF FindUser, CallTypes
      <4>4. ~Touch(r) /\ ~SetRole(r) /\ ~WriteUser(r) /\ ~FindToken(r) /\ ~Commit(r) /\ ~Deliver(r)
        BY <3>3 DEF Touch, SetRole, WriteUser, FindToken, Commit, Deliver
      <4>5. CASE Abort(r)
        BY <3>1, <4>1, <4>5 DEF Abort, CallTypes
      <4>6. QED
        BY <3>1, <4>2, <4>3, <4>4, <4>5, SettledMoves
    <3>4. QED
      BY <2>1, <3>1, <3>2, <3>3 DEF InsertedInv, r
  <2>2. ASSUME NEW r \in Inserters, a = [id |-> lastAccount + 1, name |-> arg[r], by |-> r],
               MakeAccount(r)
        PROVE  acct'[r] = a.id /\ pc'[r] \notin Seeking
    BY <2>2 DEF MakeAccount, InsertAccount, AfterAccount, Seeking
  <2>3. ASSUME NEW r \in Inserters, Touch(r), acct[r] \notin AccountIds
        PROVE  acct'[r] \notin AccountIds' /\ pc'[r] = "user"
    <3>1. acct[r] \in 0..lastAccount /\ acct'[r] = acct[r] /\ pc'[r] = "user"
      BY <2>3 DEF CallTypes, Touch
    <3>2. QED
      BY <2>3, <3>1, IdsMove
  <2>4. QED
    BY <2>1, <2>2, <2>3, AccountsMove DEF Seeking
<1>2. ASSUME NEW w \in users'
      PROVE  w.by \in Inserters /\ pc'[w.by] \in {"send", "done", "failed"}
  <2>1. ASSUME NEW u \in users, SameRow(w, u)
        PROVE  w.by \in Inserters /\ pc'[w.by] \in {"send", "done", "failed"}
    <3> DEFINE r == w.by
    <3>1. r \in Inserters /\ pc[r] \in {"send", "done", "failed"}
      BY <2>1 DEF InsertedInv, SameRow
    <3> HIDE DEF r
    <3>2. ~Touch(r) /\ ~SetRole(r) /\ ~FindUser(r) /\ ~WriteUser(r) /\ ~FindToken(r) /\ ~Commit(r)
      BY <3>1 DEF Touch, SetRole, FindUser, WriteUser, FindToken, Commit
    <3>3. Same(r) \/ Deliver(r) \/ Abort(r)
      BY <3>1, <3>2, SettledMoves DEF Seeking
    <3>4. QED
      BY <3>1, <3>3 DEF Same, Deliver, Abort, r
  <2>2. ASSUME NEW r \in Inserters, Commit(r)
        PROVE  pc'[r] \in {"send", "done", "failed"}
    BY <2>2 DEF Commit
  <2>3. QED
    BY <2>1, <2>2, UsersMove DEF NewUser
<1>3. QED
  BY <1>1, <1>2 DEF InsertedInv

-----------------------------------------------------------------------------
\* What an answered call has left behind

\* As long as an account is there, so are its users.
LEMMA UsersOfStay ==
    ASSUME TypeOK, [Next]_vars, NEW i \in AccountIds', UsersOf(i) # {}
    PROVE  \E w \in users' : w.account = i
<1>1. PICK u \in users : u.account = i
  BY DEF UsersOf
<1>2. ASSUME NEW x \in users, RemoveUser(x)
      PROVE  x.account # i
  BY <1>2 DEF RemoveUser, AccountIds
<1>3. PICK w \in users' : SameRow(w, u)
  BY <1>1, <1>2, UsersStay
<1>4. QED
  BY <1>1, <1>3 DEF UsersOf, SameRow

LEMMA AnsweredKept ==
    ASSUME TypeOK, CallsInv, RowsInv, AnsweredInv, [Next]_vars
    PROVE  AnsweredInv'
<1> USE Kinds, TypeParts, AreFunctions
<1>1. SUFFICES ASSUME NEW r \in Inserters, pc'[r] = "done", acct'[r] \in AccountIds'
               PROVE  \E w \in users' : w.account = acct'[r]
  BY DEF AnsweredInv, UsersOf
<1>2. CASE pc[r] = "done"
  <2>1. Same(r) /\ acct[r] \in 0..lastAccount
    BY <1>2, CallMoves DEF CallTypes
  <2>2. acct'[r] = acct[r] /\ acct[r] \in AccountIds
    BY <1>1, <2>1, IdsMove DEF Same, Kept
  <2>3. QED
    BY <1>1, <1>2, <2>2, UsersOfStay DEF AnsweredInv
<1>3. CASE pc[r] # "done"
  <2>1. FindUser(r) \/ Commit(r) \/ Deliver(r)
    <3>1. ~CheckAccount(r) /\ ~SocialGet(r) /\ ~CheckUser(r) /\ ~RegisterGet(r) /\ ~MakeAccount(r)
      BY <1>1 DEF CheckAccount, SocialGet, CheckUser, RegisterGet, Found, MakeAccount, AfterAccount
    <3>2. ~Touch(r) /\ ~SetRole(r) /\ ~WriteUser(r) /\ ~FindToken(r) /\ ~Abort(r) /\ ~Same(r)
      BY <1>1, <1>3 DEF Touch, SetRole, WriteUser, FindToken, Abort, Same
    <3>3. QED
      BY <3>1, <3>2, Moves DEF Own, InsertSteps
  <2>2. CASE FindUser(r)
    BY <1>1, <2>2 DEF FindUser, UsersOf
  <2>3. CASE Commit(r)
    <3>1. r \notin Registers
      BY <1>1, <2>3 DEF Commit
    <3>2. user[r] = 0 /\ acct'[r] = acct[r]
      BY <2>3, <3>1 DEF Commit, CallsInv
    <3>3. PICK b \in Validity(r) : NewUser(r, b) \in users' /\ NewUser(r, b).account = acct[r]
      BY <2>3, <3>2 DEF Commit, NewUser
    <3>4. QED
      BY <3>2, <3>3 DEF UsersOf
  <2>4. CASE Deliver(r)
    BY <2>4 DEF Deliver, UsersOf
  <2>5. QED
    BY <2>1, <2>2, <2>3, <2>4
<1>4. QED
  BY <1>2, <1>3

\* It has left the token it answered with, too.
LEMMA RegisteredKept ==
    ASSUME TypeOK, CallsInv, RowsInv, AnsweredInv, RegisteredCanVerify, [Next]_vars
    PROVE  RegisteredCanVerify'
<1> USE Kinds, TypeParts, AreFunctions
<1>1. AnsweredInv'
  BY AnsweredKept
<1>2. SUFFICES ASSUME NEW r \in Registers, pc'[r] = "done", acct'[r] \in AccountIds'
               PROVE  \E t \in tokens' : t.account = acct'[r] /\ t.id = tok'[r]
  BY <1>1 DEF AnsweredInv, RegisteredCanVerify, UsersOf, TokensOf
<1>3. CASE pc[r] = "done"
  <2>1. Same(r) /\ acct[r] \in 0..lastAccount
    BY <1>3, CallMoves DEF CallTypes
  <2>2. acct'[r] = acct[r] /\ tok'[r] = tok[r] /\ acct[r] \in AccountIds
    BY <1>2, <2>1, IdsMove DEF Same, Kept
  <2>3. PICK t \in tokens : t.account = acct[r] /\ t.id = tok[r]
    BY <1>3, <2>2 DEF RegisteredCanVerify, TokensOf
  <2>4. ASSUME NEW x \in users, RemoveUser(x)
        PROVE  x.account # t.account
    BY <1>2, <2>2, <2>3, <2>4 DEF RemoveUser, AccountIds
  <2>5. QED
    BY <2>2, <2>3, <2>4, TokensStay
<1>4. CASE pc[r] # "done"
  <2>1. FindUser(r) \/ Commit(r) \/ Deliver(r)
    <3>1. ~CheckAccount(r) /\ ~SocialGet(r) /\ ~CheckUser(r) /\ ~RegisterGet(r) /\ ~MakeAccount(r)
      BY <1>2 DEF CheckAccount, SocialGet, CheckUser, RegisterGet, Found, MakeAccount, AfterAccount
    <3>2. ~Touch(r) /\ ~SetRole(r) /\ ~WriteUser(r) /\ ~FindToken(r) /\ ~Abort(r) /\ ~Same(r)
      BY <1>2, <1>4 DEF Touch, SetRole, WriteUser, FindToken, Abort, Same
    <3>3. QED
      BY <3>1, <3>2, Moves DEF Own, InsertSteps
  <2>2. ~FindUser(r) /\ ~Commit(r)
    BY <1>2 DEF FindUser, Commit
  <2>3. QED
    BY <1>2, <2>1, <2>2 DEF Deliver, TokensOf
<1>5. QED
  BY <1>3, <1>4

-----------------------------------------------------------------------------
\* Who comes first

\* A call that inserts a row is not yet answered, so that nobody knows it as
\* answered.
LEMMA InserterUnknown ==
    ASSUME CallsInv, NEW r \in Requests, pc[r] \in {"make", "touch", "commit"}, NEW q \in Requests
    PROVE  r \notin before[q]
  BY DEF CallsInv, Succeeded

LEMMA FreshKept ==
    ASSUME TypeOK, CallsInv, RowsInv, InsertedInv, FreshInv, [Next]_vars
    PROVE  FreshInv'
<1> USE Kinds, TypeParts, AreFunctions
<1>1. ASSUME NEW r \in Registers, pc'[r] = "make", NEW a \in accounts', a.name = arg'[r]
      PROVE  a.by \notin before'[r]
  <2>1. CASE Same(r)
    <3>1. pc[r] = "make" /\ arg'[r] = arg[r] /\ before'[r] = before[r]
      BY <1>1, <2>1 DEF Same, Kept
    <3>2. CASE a \in accounts
      BY <1>1, <3>1, <3>2 DEF FreshInv, Named
    <3>3. ASSUME NEW q \in Inserters, MakeAccount(q) \/ Touch(q)
          PROVE  q \notin before[r]
      BY <3>3, InserterUnknown DEF MakeAccount, Touch
    <3>4. QED
      BY <3>1, <3>2, <3>3, AccountsMove
  <2>2. CASE RegisterGet(r)
    BY <1>1, <2>2 DEF RegisterGet, Found, Named, CallTypes
  <2>3. Same(r) \/ RegisterGet(r)
    <3>1. ~CheckAccount(r) /\ ~CheckUser(r) /\ ~MakeAccount(r) /\ ~Touch(r) /\ ~SetRole(r)
      BY <1>1 DEF CheckAccount, CheckUser, MakeAccount, AfterAccount, Touch, SetRole
    <3>2. ~FindUser(r) /\ ~WriteUser(r) /\ ~FindToken(r) /\ ~Commit(r) /\ ~Deliver(r) /\ ~Abort(r)
      BY <1>1 DEF FindUser, WriteUser, FindToken, Commit, Deliver, Abort
    <3>3. QED
      BY <3>1, <3>2, Moves DEF Own, InsertSteps
  <2>4. QED
    BY <2>1, <2>2, <2>3
<1>2. ASSUME NEW r \in Inserters, pc'[r] \in {"role", "write", "token", "commit"}, user'[r] = 0,
             NEW w \in users', w.account = acct'[r]
      PROVE  w.by \notin before'[r]
  <2>1. CASE Same(r)
    <3>1. pc'[r] = pc[r] /\ user[r] = 0 /\ acct'[r] = acct[r] /\ before'[r] = before[r]
      BY <1>2, <2>1 DEF Same, Kept
    <3>2. ASSUME NEW u \in users, SameRow(w, u)
          PROVE  w.by \notin before[r]
      BY <1>2, <3>1, <3>2 DEF FreshInv, UsersOf, SameRow
    <3>3. ASSUME NEW q \in Inserters, Commit(q)
          PROVE  q \notin before[r]
      BY <3>3, InserterUnknown DEF Commit
    <3>4. QED
      BY <3>1, <3>2, <3>3, UsersMove DEF NewUser
  <2>2. CASE MakeAccount(r)
    BY <1>2, <2>2 DEF MakeAccount, InsertAccount, CallTypes, RowTypes
  <2>3. CASE SetRole(r) \/ WriteUser(r) \/ FindToken(r)
    BY <1>2, <2>3 DEF SetRole, WriteUser, FindToken, FreshInv, UsersOf
  <2>4. CASE FindUser(r)
    BY <1>2, <2>4 DEF FindUser, UsersOf, CallTypes, RowTypes
  <2>5. ~CheckAccount(r) /\ ~SocialGet(r) /\ ~CheckUser(r) /\ ~RegisterGet(r)
    BY <1>2 DEF CheckAccount, SocialGet, CheckUser, RegisterGet, Found
  <2>6. ~Touch(r) /\ ~Commit(r) /\ ~Deliver(r) /\ ~Abort(r)
    BY <1>2 DEF Touch, Commit, Deliver, Abort
  <2>7. QED
    BY <2>1, <2>2, <2>3, <2>4, <2>5, <2>6, Moves DEF Own, InsertSteps
<1>3. QED
  BY <1>1, <1>2 DEF FreshInv, Named, UsersOf

LEMMA ReusesKept ==
    ASSUME TypeOK, CallsInv, InsertedInv, FreshInv, RegisterReusesAccount, [Next]_vars
    PROVE  RegisterReusesAccount'
<1> USE Kinds, TypeParts
<1>1. SUFFICES ASSUME NEW a \in accounts', NEW b \in accounts',
                      a # b, a.name = b.name, b.by \in Registers
               PROVE  a.by \notin before'[b.by]
  BY DEF RegisterReusesAccount
<1>2. CASE b \in accounts
  <2>1. pc[b.by] \notin Seeking /\ before'[b.by] = before[b.by]
    BY <1>1, <1>2, SettledMoves DEF InsertedInv
  <2>2. CASE a \in accounts
    BY <1>1, <1>2, <2>1, <2>2 DEF RegisterReusesAccount
  <2>3. ASSUME NEW q \in Inserters, MakeAccount(q) \/ Touch(q)
        PROVE  q \notin before[b.by]
    BY <1>1, <2>3, InserterUnknown DEF MakeAccount, Touch
  <2>4. QED
    BY <2>1, <2>2, <2>3, AccountsMove
<1>3. ASSUME NEW r \in Inserters, b = [id |-> lastAccount + 1, name |-> arg[r], by |-> r],
             MakeAccount(r) \/ Touch(r), accounts' = accounts \cup {b}
      PROVE  a.by \notin before'[b.by]
  <2>1. MakeAccount(r) /\ r \in Registers
    BY <1>1, <1>3 DEF CallsInv, Touch
  <2>2. a \in accounts /\ a.name = arg[r] /\ before'[r] = before[r]
    BY <1>1, <1>3, <2>1 DEF MakeAccount
  <2>3. QED
    BY <1>3, <2>1, <2>2 DEF FreshInv, Named, MakeAccount
<1>4. QED
  BY <1>2, <1>3, AccountsMove

LEMMA OneUserKept ==
    ASSUME TypeOK, CallsInv, InsertedInv, FreshInv, OneUserPerAccountInOrder, [Next]_vars, TypeOK'
    PROVE  OneUserPerAccountInOrder'
<1> USE Kinds, TypeParts
<1>1. SUFFICES ASSUME NEW u \in users', NEW w \in users', u # w, u.account = w.account
               PROVE  u.by \notin before'[w.by]
  BY DEF OneUserPerAccountInOrder
<1>2. u.id # w.id
  BY <1>1 DEF TypeOK
<1>3. ASSUME NEW x \in users, SameRow(w, x)
      PROVE  u.by \notin before'[w.by]
  <2>1. w.by \in Inserters /\ before'[w.by] = before[w.by]
    BY <1>3, SettledMoves DEF InsertedInv, SameRow, Seeking
  <2>2. ASSUME NEW y \in users, SameRow(u, y)
        PROVE  u.by \notin before[w.by]
    BY <1>1, <1>2, <1>3, <2>2 DEF OneUserPerAccountInOrder, SameRow
  <2>3. ASSUME NEW q \in Inserters, Commit(q)
        PROVE  q \notin before[w.by]
    BY <2>1, <2>3, InserterUnknown DEF Commit
  <2>4. QED
    BY <2>1, <2>2, <2>3, UsersMove DEF NewUser
<1>4. ASSUME NEW r \in Inserters, Commit(r), user[r] = 0, NEW b \in Validity(r),
             w = NewUser(r, b)
      PROVE  u.by \notin before'[w.by]
  <2>1. PICK y \in users : SameRow(u, y)
    BY <1>2, <1>4, UsersMove DEF NewUser
  <2>2. before'[r] = before[r] /\ pc[r] = "commit" /\ w.by = r /\ w.account = acct[r]
    BY <1>4 DEF Commit, NewUser
  <2>3. QED
    BY <1>1, <1>4, <2>1, <2>2 DEF FreshInv, UsersOf, SameRow
<1>5. QED
  BY <1>3, <1>4, UsersMove

-----------------------------------------------------------------------------
\* Valid users

\* A user who is valid was valid, has just been verified or edited, or is
\* inserted by a call that is not a register.
LEMMA ValidMoves ==
    ASSUME TypeOK, [Next]_vars, NEW w \in users', w.valid
    PROVE  \/ \E u \in users :
                 /\ SameRow(w, u)
                 /\ \/ u.valid
                    \/ \E v \in Verifies : VerifyMark(v) /\ user[v] = u.id
                    \/ \E e \in Edits : UpdateUser(e) /\ user'[e] = u.id
           \/ \E r \in Inserters \ Registers : w.by = r
<1> USE Kinds, TypeParts
<1>1. ASSUME NEW v \in Verifies, VerifyMark(v)
      PROVE  \E u \in users : SameRow(w, u) /\ (u.valid \/ user[v] = u.id)
  BY <1>1 DEF VerifyMark, SameRow, RowTypes
<1>2. ASSUME NEW p \in Profiles, UpdateProfile(p)
      PROVE  \E u \in users : SameRow(w, u) /\ u.valid
  BY <1>2 DEF UpdateProfile, SameRow, RowTypes
<1>3. ASSUME NEW e \in Edits, UpdateUser(e)
      PROVE  \E u \in users : SameRow(w, u) /\ (u.valid \/ user'[e] = u.id)
  <2>1. PICK u \in users, b \in BOOLEAN :
          /\ users' = (users \ {u}) \cup {[u EXCEPT !.info = e, !.valid = b]}
          /\ user' = [user EXCEPT ![e] = u.id]
    BY <1>3 DEF UpdateUser
  <2>2. user'[e] = u.id
    BY <2>1 DEF CallTypes
  <2>3. SameRow([u EXCEPT !.info = e, !.valid = b], u)
    BY EditedRow DEF RowTypes, Rows
  <2>4. w = [u EXCEPT !.info = e, !.valid = b] \/ w \in users
    BY <2>1
  <2>5. QED
    BY <2>2, <2>3, <2>4 DEF SameRow
<1>4. ASSUME NEW r \in Inserters, Commit(r)
      PROVE  \/ \E u \in users : SameRow(w, u) /\ u.valid
             \/ r \notin Registers /\ w.by = r
  <2>1. CASE w \in users
    BY <2>1 DEF SameRow
  <2>2. CASE user[r] # 0
    <3>1. PICK u \in users : w = IF u.id = user[r] THEN UpdatedUser(u, r) ELSE u
      BY <1>4, <2>2 DEF Commit
    <3>2. u \in Rows
      BY DEF RowTypes, Rows
    <3>3. w.valid = u.valid /\ SameRow(w, u)
      BY <3>1, <3>2, EditedRow DEF UpdatedUser, SameRow, Rows
    <3>4. QED
      BY <3>3
  <2>3. CASE \E b \in Validity(r) : w = NewUser(r, b)
    <3>1. PICK b \in Validity(r) : w = NewUser(r, b)
      BY <2>3
    <3>2. w.by = r /\ w.valid = b
      BY <3>1 DEF NewUser
    <3>3. r \in Registers => b = FALSE
      BY DEF Validity
    <3>4. QED
      BY <3>2, <3>3
  <2>4. QED
    BY <1>4, <2>1, <2>2, <2>3 DEF Commit
<1>5. ASSUME NEW x \in users, RemoveUser(x)
      PROVE  w \in users
  BY <1>5 DEF RemoveUser
<1>6. QED
  BY <1>1, <1>2, <1>3, <1>4, <1>5, TableMoves DEF Edit, SameRow

LEMMA VerifiedKept ==
    ASSUME TypeOK, CallsInv, RowsInv, ValidAfterVerify, [Next]_vars
    PROVE  ValidAfterVerify'
<1> USE Kinds, TypeParts, AreFunctions
<1>1. SUFFICES ASSUME NEW w \in users', w.by \in Registers, w.valid
               PROVE  \/ \E e \in Edits : user'[e] = w.id
                      \/ \E v \in Verifies : /\ pc'[v] \in {"done", "failed"}
                                             /\ acct'[v] = w.account /\ user'[v] = w.id
  BY DEF ValidAfterVerify
<1>2. PICK u \in users : /\ SameRow(w, u)
                         /\ \/ u.valid
                            \/ \E v \in Verifies : VerifyMark(v) /\ user[v] = u.id
                            \/ \E e \in Edits : UpdateUser(e) /\ user'[e] = u.id
  BY <1>1, ValidMoves
<1>3. CASE u.valid
  <2>1. ASSUME NEW e \in Edits, user[e] = u.id
        PROVE  user'[e] = w.id
    <3>1. user[e] # 0
      BY <2>1 DEF RowTypes
    <3>2. Same(e) \/ Abort(e)
      BY <3>1, Moves DEF Own, UpdateUser, CallsInv, Unread, Seeking
    <3>3. QED
      BY <1>2, <2>1, <3>2 DEF Same, Kept, Abort, SameRow
  <2>2. ASSUME NEW v \in Verifies, pc[v] \in {"done", "failed"}, acct[v] = u.account, user[v] = u.id
        PROVE  pc'[v] \in {"done", "failed"} /\ acct'[v] = w.account /\ user'[v] = w.id
    BY <1>2, <2>2, CallMoves DEF Same, Kept, SameRow
  <2>3. QED
    BY <1>1, <1>2, <1>3, <2>1, <2>2 DEF ValidAfterVerify, SameRow
<1>4. ASSUME NEW v \in Verifies, VerifyMark(v), user[v] = u.id
      PROVE  pc'[v] \in {"done", "failed"} /\ acct'[v] = w.account /\ user'[v] = w.id
  <2>1. acct[v] = u.account
    BY <1>4 DEF VerifyMark, RowsInv
  <2>2. QED
    BY <1>2, <1>4, <2>1 DEF VerifyMark, SameRow
<1>5. QED
  BY <1>2, <1>3, <1>4 DEF SameRow

-----------------------------------------------------------------------------
\* The theorems

LEMMA InitInv == Init => IInv
<1> SUFFICES ASSUME Init PROVE IInv
  OBVIOUS
<1>1. TypeOK
  BY InitTypes
<1>2. CallsInv /\ RowsInv /\ InsertedInv
  BY Kinds DEF Init, CallsInv, RowsInv, InsertedInv, Writing
<1>3. AnsweredInv /\ FreshInv /\ RegisterReusesAccount /\ OneUserPerAccountInOrder
  BY Kinds DEF Init, AnsweredInv, FreshInv, RegisterReusesAccount, OneUserPerAccountInOrder
<1>4. ValidAfterVerify /\ RegisteredCanVerify
  BY Kinds DEF Init, ValidAfterVerify, RegisteredCanVerify
<1>5. QED
  BY <1>1, <1>2, <1>3, <1>4 DEF IInv

LEMMA NextInv == IInv /\ [Next]_vars => IInv'
<1> SUFFICES ASSUME IInv, [Next]_vars PROVE IInv'
  OBVIOUS
<1> USE DEF IInv
<1>1. TypeOK'
  BY CallTypesKept, RowTypesKept, TypeParts DEF TypeOK, CallTypes, RowTypes
<1>2. CallsInv' /\ RowsInv' /\ InsertedInv'
  BY CallsKept, RowsKept, InsertedKept
<1>3. AnsweredInv' /\ RegisteredCanVerify'
  BY AnsweredKept, RegisteredKept
<1>4. FreshInv' /\ RegisterReusesAccount'
  BY FreshKept, ReusesKept
<1>5. OneUserPerAccountInOrder' /\ ValidAfterVerify'
  BY <1>1, OneUserKept, VerifiedKept
<1>6. QED
  BY <1>1, <1>2, <1>3, <1>4, <1>5

\* Every reachable state satisfies the inductive invariant.
THEOREM Inductive == Spec => []IInv
  BY InitInv, NextInv, PTL DEF Spec

\* The tables and the variables of the handlers keep their types, and an id
\* names one row.
THEOREM TypeCorrect == Spec => []TypeOK
<1>1. IInv => TypeOK
  BY DEF IInv
<1>2. QED
  BY <1>1, Inductive, PTL

\* An account that was left without a user belongs to no call of register,
\* create or third-party-login that was answered with success.
THEOREM OrphansUnansweredHolds == Spec => []OrphansUnanswered
<1>1. ASSUME IInv, NEW a \in accounts, UsersOf(a.id) = {}
      PROVE  pc[a.by] # "done"
  <2>1. CASE acct[a.by] = a.id
    <3>1. a.by \in Inserters /\ acct[a.by] \in AccountIds
      BY <1>1, <2>1 DEF IInv, InsertedInv, AccountIds
    <3>2. QED
      BY <1>1, <2>1, <3>1 DEF IInv, AnsweredInv
  <2>2. CASE pc[a.by] \in {"user", "write", "failed"}
    BY <2>2
  <2>3. QED
    BY <1>1, <2>1, <2>2 DEF IInv, InsertedInv
<1>2. IInv => OrphansUnanswered
  BY <1>1 DEF OrphansUnanswered
<1>3. QED
  BY <1>2, Inductive, PTL

\* A register does not insert a second account for a name that an answered
\* call has given one before it began.
THEOREM RegisterReusesAccountHolds == Spec => []RegisterReusesAccount
<1>1. IInv => RegisterReusesAccount
  BY DEF IInv
<1>2. QED
  BY <1>1, Inductive, PTL

\* Two users of one account were inserted by calls that overlapped.
THEOREM OneUserPerAccountInOrderHolds == Spec => []OneUserPerAccountInOrder
<1>1. IInv => OneUserPerAccountInOrder
  BY DEF IInv
<1>2. QED
  BY <1>1, Inductive, PTL

\* Who has registered and is valid was verified or edited.
THEOREM ValidAfterVerifyHolds == Spec => []ValidAfterVerify
<1>1. IInv => ValidAfterVerify
  BY DEF IInv
<1>2. QED
  BY <1>1, Inductive, PTL

\* A register that was answered can be verified, as long as its account is
\* there.
THEOREM RegisteredCanVerifyHolds == Spec => []RegisteredCanVerify
<1>1. IInv => RegisteredCanVerify
  BY DEF IInv
<1>2. QED
  BY <1>1, Inductive, PTL

\* No step but an edit that says so makes a valid user invalid.
LEMMA ValidKept ==
    ASSUME TypeOK, [Next]_vars, NEW u \in users, u.valid, NEW w \in users', w.id = u.id
    PROVE  w.valid \/ \E e \in Edits : w.info = e /\ arg'[e] = FALSE
<1> USE Kinds, TypeParts
<1>1. ASSUME NEW v \in Verifies, VerifyMark(v)
      PROVE  w.valid
  BY <1>1 DEF VerifyMark, RowTypes
<1>2. ASSUME NEW p \in Profiles, UpdateProfile(p)
      PROVE  w.valid
  BY <1>2 DEF UpdateProfile, RowTypes
<1>3. ASSUME NEW e \in Edits, UpdateUser(e)
      PROVE  w.valid \/ (w.info = e /\ arg'[e] = FALSE)
  <2>1. PICK x \in users, b \in BOOLEAN \cup {None} :
          /\ users' = (users \ {x}) \cup
                         {[x EXCEPT !.info = e, !.valid = IF b = None THEN TRUE ELSE b]}
          /\ arg' = [arg EXCEPT ![e] = b]
    BY <1>3 DEF UpdateUser
  <2>2. CASE w \in users
    BY <2>2 DEF RowTypes
  <2>3. CASE w = [x EXCEPT !.info = e, !.valid = IF b = None THEN TRUE ELSE b]
    <3>1. w.info = e /\ w.valid = IF b = None THEN TRUE ELSE b
      BY <2>3 DEF RowTypes
    <3>2. arg'[e] = b
      BY <2>1 DEF CallTypes
    <3>3. QED
      BY <3>1, <3>2
  <2>4. QED
    BY <2>1, <2>2, <2>3
<1>4. ASSUME NEW r \in Inserters, Commit(r)
      PROVE  w.valid
  BY <1>4 DEF Commit, NewUser, UpdatedUser, RowTypes, CallTypes
<1>5. ASSUME NEW x \in users, RemoveUser(x)
      PROVE  w.valid
  BY <1>5 DEF RemoveUser, RowTypes
<1>6. CASE UNCHANGED users
  BY <1>6 DEF RowTypes
<1>7. QED
  BY <1>1, <1>2, <1>3, <1>4, <1>5, <1>6, TableMoves DEF Edit

\* A user who is valid stays so through every register on its way, and only
\* an edit takes it back.
THEOREM ValidStaysHolds == Spec => ValidStays
<1>1. IInv /\ [Next]_vars =>
        [\A u \in users : u.valid =>
            \A w \in users' : w.id = u.id =>
               w.valid \/ \E e \in Edits : w.info = e /\ arg'[e] = FALSE]_vars
  BY ValidKept DEF IInv
<1>2. QED
  BY <1>1, Inductive, PTL DEF Spec, ValidStays
=============================================================================
