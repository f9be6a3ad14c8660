---------------------------- MODULE SessionProofs ----------------------------
(***************************************************************************)
(* Theorems about Session, for any accounts and requests, any lifetimes    *)
(* and any width of the integer the seconds go through.                    *)
(***************************************************************************)
EXTENDS SessionInv, TLAPS

USE KindsAssumption, TimeAssumption DEF Requests, Goto

-----------------------------------------------------------------------------
\* The seconds as a wrapped integer

\* n | 0 stays between -Half and Half.
LEMMA ToInt32Range ==
    ASSUME NEW n \in Nat PROVE ToInt32(n) \in (-Half) .. (Half - 1)
  BY DEF ToInt32, Modulus

\* n | 0 differs from n by one whole turn for every era.
LEMMA ToInt32Turns ==
    ASSUME NEW n \in Nat
    PROVE  Era(n) \in Nat /\ ToInt32(n) = n - Era(n) * Modulus
  BY DEF ToInt32, Modulus, Era

\* Eras never go back.
LEMMA EraMonotone ==
    ASSUME NEW m \in Nat, NEW n \in Nat, m <= n PROVE Era(m) <= Era(n)
<1> SUFFICES ASSUME NEW k \in Nat, Era(m) = Era(n) + 1 + k PROVE FALSE
  <2>1. Era(m) \in Nat /\ Era(n) \in Nat
    BY ToInt32Turns
  <2>2. Era(n) < Era(m) => Era(m) - Era(n) - 1 \in Nat
    BY <2>1
  <2>3. Era(n) < Era(m) => Era(m) = Era(n) + 1 + (Era(m) - Era(n) - 1)
    BY <2>1
  <2>4. QED
    BY <2>1, <2>2, <2>3
<1> Modulus \in Nat /\ Modulus = 2 * Half
  BY DEF Modulus
<1>1. k * Modulus \in Nat /\ Era(n) * Modulus \in Nat
  BY ToInt32Turns
<1>2. Era(m) * Modulus = Era(n) * Modulus + Modulus + k * Modulus
  <2>1. \A e \in Nat : (e + 1 + k) * Modulus = e * Modulus + Modulus + k * Modulus
    OBVIOUS
  <2>2. QED
    BY <2>1, ToInt32Turns
<1>3. ToInt32(m) = m - Era(m) * Modulus /\ ToInt32(n) = n - Era(n) * Modulus
  BY ToInt32Turns
<1>4. ToInt32(m) \in (-Half) .. (Half - 1) /\ ToInt32(n) \in (-Half) .. (Half - 1)
  BY ToInt32Range
<1>5. m - n >= 1
  BY <1>1, <1>2, <1>3, <1>4
<1>6. QED
  BY <1>5

\* What the wrap adds to a limit is a number of whole turns and only grows.
LEMMA OverrunGrows ==
    ASSUME NEW s \in Nat, NEW m \in Nat, NEW n \in Nat, s <= m, m <= n
    PROVE  /\ Overrun(s, m) \in Nat /\ Overrun(s, n) \in Nat
           /\ Overrun(s, m) <= Overrun(s, n)
<1>1. Era(s) \in Nat /\ Era(m) \in Nat /\ Era(n) \in Nat
  BY ToInt32Turns
<1>2. Era(s) <= Era(m) /\ Era(m) <= Era(n)
  BY EraMonotone
<1>3. PICK i \in Nat, j \in Nat : Era(m) - Era(s) = i /\ Era(n) - Era(s) = i + j
  <2>1. Era(m) - Era(s) \in Nat /\ Era(n) - Era(m) \in Nat
    BY <1>1, <1>2
  <2>2. Era(n) - Era(s) = (Era(m) - Era(s)) + (Era(n) - Era(m))
    BY <1>1
  <2>3. QED
    BY <2>1, <2>2
<1>4. Modulus \in Nat
  BY DEF Modulus
<1>5. /\ i * Modulus \in Nat /\ j * Modulus \in Nat
      /\ (i + j) * Modulus = i * Modulus + j * Modulus
  BY <1>4
<1>6. QED
  BY <1>3, <1>5 DEF Overrun

\* The comparison of wrapped seconds says whether a limit is over, with a
\* turn for each wrap around.
LEMMA LimitMeans ==
    ASSUME NEW s \in Nat, NEW n \in Nat
    PROVE  ToInt32(s) + RefreshExpires < ToInt32(n) <=>
              s + RefreshExpires + Overrun(s, n) < n
<1>1. Era(s) \in Nat /\ Era(n) \in Nat /\ Modulus \in Nat
  BY ToInt32Turns DEF Modulus
<1>2. /\ Era(s) * Modulus \in Int /\ Era(n) * Modulus \in Int
      /\ Overrun(s, n) = Era(n) * Modulus - Era(s) * Modulus
  BY <1>1 DEF Overrun
<1>3. QED
  BY <1>2, ToInt32Turns

-----------------------------------------------------------------------------
\* Type correctness

\* The tables and the requests start with their types.
LEMMA InitTypeOK == Init => TypeOK
  BY DEF Init, TypeOK, States, Tokens

\* Every step of a handler and of the environment keeps the types.
LEMMA NextTypeOK == TypeOK /\ [Next]_vars => TypeOK'
<1> SUFFICES ASSUME TypeOK, [Next]_vars PROVE TypeOK'
  OBVIOUS
<1> USE DEF TypeOK, States, Begin, Users, Shut
<1>1. ASSUME NEW l \in Logins, LoginRead(l) \/ LoginMatch(l) \/ LoginTouch(l) PROVE TypeOK'
  BY <1>1, LocalAssumption DEF LoginRead, LoginMatch, LoginTouch
<1>2. ASSUME NEW g \in Grants, GrantBegin(g) PROVE TypeOK'
  BY <1>2 DEF GrantBegin
<1>3. ASSUME NEW l \in Logins \cup Grants, Sign(l) PROVE TypeOK'
  <2>1. CASE sub[l] \in Users
    <3> DEFINE refreshExp == IF RefreshExpires = 0 THEN 0 ELSE ToInt32(clock) + RefreshExpires
    <3>1. refreshExp \in (-Half) .. (Half - 1 + RefreshExpires)
      BY ToInt32Range
    <3>2. NewToken(sub[l], refreshExp, clock) \in Tokens
      BY <2>1, <3>1 DEF NewToken, Tokens
    <3>3. tokens' = tokens \cup {NewToken(sub[l], refreshExp, clock)}
      BY <1>3, <2>1 DEF Sign
    <3>4. QED
      BY <1>3, <3>2, <3>3 DEF Sign
  <2>2. CASE sub[l] \notin Users
    BY <1>3, <2>2 DEF Sign
  <2>3. QED
    BY <2>1, <2>2
<1>4. ASSUME NEW r \in Refreshes, Refresh(r) PROVE TypeOK'
  <2>1. PICK t \in tokens :
           /\ token' = [token EXCEPT ![r] = {t}]
           /\ \/ tokens' = tokens \cup {NewToken(t.sub, t.refreshExp, t.since)} /\ Goto(r, "done")
              \/ tokens' = tokens /\ Goto(r, "rejected")
    BY <1>4 DEF Refresh
  <2>2. NewToken(t.sub, t.refreshExp, t.since) \in Tokens
    BY DEF NewToken, Tokens
  <2>3. tokens' \subseteq Tokens /\ tokens \subseteq tokens' /\ pc' \in [Requests -> States]
    BY <2>1, <2>2
  <2>4. QED
    BY <1>4, <2>1, <2>3 DEF Refresh
<1>5. ASSUME NEW c \in Calls, GuardVerify(c) PROVE TypeOK'
  BY <1>5 DEF GuardVerify, Tokens
<1>6. ASSUME NEW c \in Calls, GuardRead(c) \/ Handle(c) PROVE TypeOK'
  BY <1>6 DEF GuardRead, Handle
<1>7. ASSUME NEW a \in Accounts, Edit(a) \/ Remove(a) PROVE TypeOK'
  BY <1>7 DEF Edit, Remove
<1>8. CASE Tick
  BY <1>8 DEF Tick
<1>9. CASE UNCHANGED vars
  BY <1>9 DEF vars
<1>10. QED
  BY <1>1, <1>2, <1>3, <1>4, <1>5, <1>6, <1>7, <1>8, <1>9 DEF Next

\* The state of users, tokens and requests is always well typed.
THEOREM TypeCorrect == Spec => []TypeOK
  BY InitTypeOK, NextTypeOK, PTL DEF Spec

-----------------------------------------------------------------------------
\* The inductive invariant

\* Before any token is signed and any request has begun, IInv holds.
LEMMA InitIInv == Init => IInv
<1> SUFFICES ASSUME Init PROVE IInv
  OBVIOUS
<1>1. TypeOK
  BY InitTypeOK
<1>2. TokensInv /\ CarriedInv /\ ShutInv /\ RefreshedInTime
  BY DEF Init, TokensInv, CarriedInv, ShutInv, RefreshedInTime
<1>3. QED
  BY <1>1, <1>2 DEF IInv

\* The times of a token are instants, its signing among them.
LEMMA TokenTypes ==
    ASSUME TypeOK, TokensInv, NEW t \in tokens
    PROVE  /\ t.since \in Nat /\ t.exp \in Nat /\ Signed(t) \in Nat
           /\ t.sub \in Accounts /\ t.refreshExp \in Int
<1>1. t \in Tokens
  BY DEF TypeOK
<1>2. t.since \in Nat /\ t.exp \in Nat /\ t.sub \in Accounts /\ t.refreshExp \in Int
  BY <1>1 DEF Tokens
<1>3. QED
  BY <1>2 DEF TokensInv, Signed

\* refreshJwtToken refuses what is over, with a turn for each wrap around,
\* and nothing if there is no limit.
LEMMA RefreshableMeans ==
    ASSUME TypeOK, TokensInv, NEW t \in tokens
    PROVE  Refreshable(t) <=>
              (Limited(t.since) =>
                  clock <= t.since + RefreshExpires + Overrun(t.since, clock))
<1>1. t.since \in Nat /\ clock \in Nat
  BY TokenTypes DEF TypeOK
<1>2. t.since <= clock
  BY TokenTypes DEF TokensInv, TypeOK
<1>3. Overrun(t.since, clock) \in Nat /\ ToInt32(t.since) \in Int /\ ToInt32(clock) \in Int
  BY <1>1, <1>2, OverrunGrows, ToInt32Range
<1>4. CASE Limited(t.since)
  <2>1. t.refreshExp = ToInt32(t.since) + RefreshExpires /\ t.refreshExp # 0
    BY <1>4 DEF TokensInv, Limited
  <2>2. Refreshable(t) <=> ~(t.since + RefreshExpires + Overrun(t.since, clock) < clock)
    BY <1>1, <2>1, LimitMeans DEF Refreshable
  <2>3. QED
    BY <1>1, <1>3, <1>4, <2>2
<1>5. CASE ~Limited(t.since)
  <2>1. t.refreshExp = 0
    BY <1>3, <1>5 DEF TokensInv, Limited
  <2>2. QED
    BY <1>5, <2>1 DEF Refreshable
<1>6. QED
  BY <1>4, <1>5

\* A token is signed for a login now, or in exchange for one whose limit is
\* not over; time only adds to what has passed.
LEMMA NextTokensInv == TypeOK /\ TokensInv /\ [Next]_vars => TokensInv'
<1> SUFFICES ASSUME TypeOK, TokensInv, [Next]_vars PROVE TokensInv'
  OBVIOUS
<1> clock \in Nat /\ tokens \subseteq Tokens
  BY DEF TypeOK
<1>a. ASSUME UNCHANGED <<clock, tokens>> PROVE TokensInv'
  BY <1>a DEF TokensInv, Signed
<1>1. ASSUME NEW l \in Logins, LoginRead(l) \/ LoginMatch(l) \/ LoginTouch(l)
      PROVE  TokensInv'
  BY <1>1, <1>a DEF LoginRead, LoginMatch, LoginTouch
<1>2. ASSUME NEW g \in Grants, GrantBegin(g) PROVE TokensInv'
  BY <1>2, <1>a DEF GrantBegin
<1>3. ASSUME NEW l \in Logins \cup Grants, Sign(l) PROVE TokensInv'
  <2>1. CASE sub[l] \in Users
    <3> DEFINE refreshExp == IF RefreshExpires = 0 THEN 0 ELSE ToInt32(clock) + RefreshExpires
               t == NewToken(sub[l], refreshExp, clock)
    <3>1. tokens' = tokens \cup {t} /\ clock' = clock
      BY <1>3, <2>1 DEF Sign
    <3>2. t.since = clock /\ Signed(t) = clock /\ t.refreshExp = refreshExp
      BY DEF NewToken, Signed
    <3>3. Overrun(clock, clock) \in Nat /\ Overrun(clock, clock)' = Overrun(clock, clock)
      BY <3>1, OverrunGrows
    <3> HIDE DEF t
    <3>4. QED
      BY <3>1, <3>2, <3>3 DEF TokensInv, Signed, refreshExp
  <2>2. CASE sub[l] \notin Users
    BY <1>3, <2>2, <1>a DEF Sign
  <2>3. QED
    BY <2>1, <2>2
<1>4. ASSUME NEW r \in Refreshes, Refresh(r) PROVE TokensInv'
  <2>1. PICK t \in tokens :
           \/ /\ Refreshable(t)
              /\ tokens' = tokens \cup {NewToken(t.sub, t.refreshExp, t.since)}
           \/ tokens' = tokens
    BY <1>4 DEF Refresh
  <2>2. clock' = clock
    BY <1>4 DEF Refresh
  <2>3. CASE tokens' = tokens
    BY <2>2, <2>3, <1>a
  <2>4. CASE /\ Refreshable(t)
             /\ tokens' = tokens \cup {NewToken(t.sub, t.refreshExp, t.since)}
    <3> DEFINE u == NewToken(t.sub, t.refreshExp, t.since)
    <3>1. u.since = t.since /\ Signed(u) = clock /\ u.refreshExp = t.refreshExp
      BY DEF NewToken, Signed
    <3>2. t.since <= clock
      BY TokenTypes DEF TokensInv
    <3>3. Limited(t.since) => clock <= t.since + RefreshExpires + Overrun(t.since, clock)
      BY <2>4, RefreshableMeans
    <3> HIDE DEF u
    <3>4. QED
      BY <2>2, <2>4, <3>1, <3>2, <3>3 DEF TokensInv, Signed, u
  <2>5. QED
    BY <2>1, <2>3, <2>4
<1>5. ASSUME NEW c \in Calls, GuardVerify(c) \/ GuardRead(c) \/ Handle(c) PROVE TokensInv'
  BY <1>5, <1>a DEF GuardVerify, GuardRead, Handle
<1>6. ASSUME NEW a \in Accounts, Edit(a) \/ Remove(a) PROVE TokensInv'
  BY <1>6, <1>a DEF Edit, Remove
<1>7. CASE Tick
  <2>1. \A t \in tokens : Signed(t) \in Nat
    BY TokenTypes
  <2>2. QED
    BY <1>7, <2>1 DEF Tick, TokensInv, Signed
<1>8. CASE UNCHANGED vars
  BY <1>8, <1>a DEF vars
<1>9. QED
  BY <1>1, <1>2, <1>3, <1>4, <1>5, <1>6, <1>7, <1>8 DEF Next

\* A request looks at a token that exists by then, and the guard lets only
\* what has not expired past its first check.
LEMMA NextCarriedInv == TypeOK /\ TokensInv /\ CarriedInv /\ [Next]_vars => CarriedInv'
<1> SUFFICES ASSUME TypeOK, TokensInv, CarriedInv, [Next]_vars PROVE CarriedInv'
  OBVIOUS
<1> USE DEF CarriedInv
<1> TypeOK
  OBVIOUS
<1>1. ASSUME NEW l \in Logins, LoginRead(l) \/ LoginMatch(l) \/ LoginTouch(l)
      PROVE  CarriedInv'
  BY <1>1 DEF LoginRead, LoginMatch, LoginTouch, Begin, TypeOK
<1>2. ASSUME NEW g \in Grants, GrantBegin(g) PROVE CarriedInv'
  BY <1>2 DEF GrantBegin, Begin, TypeOK
<1>3. ASSUME NEW l \in Logins \cup Grants, Sign(l) PROVE CarriedInv'
  BY <1>3 DEF Sign, TypeOK
<1>4. ASSUME NEW r \in Refreshes, Refresh(r) PROVE CarriedInv'
  BY <1>4 DEF Refresh, Begin, TypeOK
<1>5. ASSUME NEW c \in Calls, GuardVerify(c) PROVE CarriedInv'
  <2>1. PICK t \in tokens :
           /\ token' = [token EXCEPT ![c] = {t}]
           /\ Goto(c, IF Unexpired(t) THEN "verified" ELSE "rejected")
    BY <1>5 DEF GuardVerify
  <2>2. Signed(t) <= clock
    BY DEF TokensInv
  <2>3. clock' = clock /\ time' = [time EXCEPT ![c] = clock]
    BY <1>5 DEF GuardVerify
  <2>4. pc'[c] # "rejected" => clock < t.exp
    BY <2>1 DEF Unexpired, TypeOK
  <2>5. token'[c] = {t} /\ time'[c] = clock /\ pc'[c] \in {"verified", "rejected"}
    BY <2>1, <2>3 DEF TypeOK
  <2>6. \A r \in Requests \ {c} : UNCHANGED <<pc[r], token[r], time[r]>>
    BY <2>1, <2>3 DEF TypeOK
  <2>7. \A r \in Requests : time'[r] <= clock'
    BY <2>3, <2>5, <2>6 DEF TypeOK
  <2>8. ASSUME NEW d \in Calls, NEW u \in token'[d]
        PROVE  /\ Signed(u) <= time'[d]
               /\ pc'[d] \in {"verified", "passed", "done"} => time'[d] < u.exp
    BY <2>2, <2>4, <2>5, <2>6, <2>8
  <2>9. QED
    BY <2>7, <2>8 DEF Signed
<1>6. ASSUME NEW c \in Calls, GuardRead(c) \/ Handle(c) PROVE CarriedInv'
  BY <1>6 DEF GuardRead, Handle, TypeOK
<1>7. ASSUME NEW a \in Accounts, Edit(a) \/ Remove(a) PROVE CarriedInv'
  BY <1>7 DEF Edit, Remove
<1>8. CASE Tick
  BY <1>8 DEF Tick, TypeOK
<1>9. CASE UNCHANGED vars
  BY <1>9 DEF vars
<1>10. QED
  BY <1>1, <1>2, <1>3, <1>4, <1>5, <1>6, <1>7, <1>8, <1>9 DEF Next

\* An account leaves shut when its user is enabled, and only then.
LEMMA NextShutInv == TypeOK /\ ShutInv /\ [Next]_vars => ShutInv'
<1> SUFFICES ASSUME TypeOK, ShutInv, [Next]_vars PROVE ShutInv'
  OBVIOUS
<1> USE DEF ShutInv, Shut, Begin, Users, TypeOK
<1>1. ASSUME NEW l \in Logins, LoginRead(l) \/ LoginMatch(l) \/ LoginTouch(l)
      PROVE  ShutInv'
  BY <1>1 DEF LoginRead, LoginMatch, LoginTouch
<1>2. ASSUME NEW g \in Grants, GrantBegin(g) PROVE ShutInv'
  BY <1>2 DEF GrantBegin
<1>3. ASSUME NEW l \in Logins \cup Grants, Sign(l) PROVE ShutInv'
  BY <1>3 DEF Sign
<1>4. ASSUME NEW r \in Refreshes, Refresh(r) PROVE ShutInv'
  BY <1>4 DEF Refresh
<1>5. ASSUME NEW c \in Calls, GuardVerify(c) PROVE ShutInv'
  BY <1>5 DEF GuardVerify, Tokens
<1>6. ASSUME NEW c \in Calls, GuardRead(c) \/ Handle(c) PROVE ShutInv'
  BY <1>6 DEF GuardRead, Handle
<1>7. ASSUME NEW a \in Accounts, Edit(a) PROVE ShutInv'
  BY <1>7 DEF Edit
<1>8. ASSUME NEW a \in Accounts, Remove(a) PROVE ShutInv'
  BY <1>8 DEF Remove
<1>9. CASE Tick
  BY <1>9 DEF Tick
<1>10. CASE UNCHANGED vars
  BY <1>10 DEF vars
<1>11. QED
  BY <1>1, <1>2, <1>3, <1>4, <1>5, <1>6, <1>7, <1>8, <1>9, <1>10 DEF Next

\* A refresh is granted or refused when it is looked at, and not again.
LEMMA NextRefreshedInTime ==
    TypeOK /\ TokensInv /\ RefreshedInTime /\ [Next]_vars => RefreshedInTime'
<1> SUFFICES ASSUME TypeOK, TokensInv, RefreshedInTime, [Next]_vars PROVE RefreshedInTime'
  OBVIOUS
<1>a. ASSUME \A r \in Refreshes : UNCHANGED <<pc[r], token[r], time[r]>>
      PROVE  RefreshedInTime'
  BY <1>a DEF RefreshedInTime
<1> USE DEF TypeOK
<1>1. ASSUME NEW l \in Logins, LoginRead(l) \/ LoginMatch(l) \/ LoginTouch(l)
      PROVE  RefreshedInTime'
  BY <1>1, <1>a DEF LoginRead, LoginMatch, LoginTouch
<1>2. ASSUME NEW g \in Grants, GrantBegin(g) PROVE RefreshedInTime'
  BY <1>2, <1>a DEF GrantBegin
<1>3. ASSUME NEW l \in Logins \cup Grants, Sign(l) PROVE RefreshedInTime'
  BY <1>3, <1>a DEF Sign
<1>4. ASSUME NEW r \in Refreshes, Refresh(r) PROVE RefreshedInTime'
  <2>1. PICK t \in tokens :
           /\ token' = [token EXCEPT ![r] = {t}]
           /\ \/ pc' = [pc EXCEPT ![r] = "done"] /\ Refreshable(t)
              \/ pc' = [pc EXCEPT ![r] = "rejected"] /\ ~Refreshable(t)
    BY <1>4 DEF Refresh
  <2>2. token'[r] = {t} /\ time'[r] = clock
    BY <1>4, <2>1 DEF Refresh
  <2>3. ~Refreshable(t) => RefreshExpires # 0 /\ clock > t.since + RefreshExpires
    <3>1. t.since \in Nat /\ t.since <= clock
      BY TokenTypes DEF TokensInv
    <3>2. Overrun(t.since, clock) \in Nat
      BY <3>1, OverrunGrows
    <3>3. ~Refreshable(t) =>
             /\ Limited(t.since)
             /\ ~(clock <= t.since + RefreshExpires + Overrun(t.since, clock))
      BY RefreshableMeans
    <3>4. Limited(t.since) => RefreshExpires # 0
      BY DEF Limited
    <3>5. QED
      BY <3>1, <3>2, <3>3, <3>4
  <2>4. Refreshable(t) /\ Limited(t.since) =>
           clock <= t.since + RefreshExpires + Overrun(t.since, clock)
    BY RefreshableMeans
  <2>5. /\ pc'[r] = "rejected" => ~Refreshable(t)
        /\ pc'[r] = "done" => Refreshable(t)
    BY <2>1
  <2>6. \A s \in Refreshes \ {r} : UNCHANGED <<pc[s], token[s], time[s]>>
    BY <1>4, <2>1 DEF Refresh
  <2>7. ASSUME NEW s \in Refreshes, NEW u \in token'[s]
        PROVE  /\ pc'[s] = "rejected" =>
                     RefreshExpires # 0 /\ time'[s] > u.since + RefreshExpires
               /\ pc'[s] = "done" /\ Limited(u.since) =>
                     time'[s] <= u.since + RefreshExpires + Overrun(u.since, time'[s])
    <3>1. CASE s = r
      BY <2>2, <2>3, <2>4, <2>5, <2>7, <3>1
    <3>2. CASE s # r
      BY <2>6, <2>7, <3>2 DEF RefreshedInTime
    <3>3. QED
      BY <3>1, <3>2
  <2>8. QED
    BY <2>7 DEF RefreshedInTime
<1>5. ASSUME NEW c \in Calls, GuardVerify(c) \/ GuardRead(c) \/ Handle(c)
      PROVE  RefreshedInTime'
  BY <1>5, <1>a DEF GuardVerify, GuardRead, Handle
<1>6. ASSUME NEW a \in Accounts, Edit(a) \/ Remove(a) PROVE RefreshedInTime'
  BY <1>6, <1>a DEF Edit, Remove
<1>7. CASE Tick
  BY <1>7, <1>a DEF Tick
<1>8. CASE UNCHANGED vars
  BY <1>8, <1>a DEF vars
<1>9. QED
  BY <1>1, <1>2, <1>3, <1>4, <1>5, <1>6, <1>7, <1>8 DEF Next

-----------------------------------------------------------------------------
\* Theorems

\* IInv is an invariant of sessions.
THEOREM Inductive == Spec => []IInv
<1>1. Init => IInv
  BY InitIInv
<1>2. IInv /\ [Next]_vars => IInv'
  BY NextTypeOK, NextTokensInv, NextCarriedInv, NextShutInv, NextRefreshedInTime DEF IInv
<1>3. QED
  BY <1>1, <1>2, PTL DEF Spec

\* However often its tokens are exchanged, and however often the integer
\* wraps around meanwhile, no session for which a limit was set outlives it
\* by more than the life of one token and a turn for each wrap.
THEOREM SessionEndsHolds == Spec => []SessionEnds
<1>1. IInv => SessionEnds
  <2> SUFFICES ASSUME IInv, NEW c \in Calls, pc[c] \in {"verified", "passed", "done"},
                      NEW t \in token[c], Limited(t.since)
               PROVE  time[c] < t.since + RefreshExpires + Expires + Overrun(t.since, time[c])
    BY DEF SessionEnds
  <2>1. t \in tokens /\ time[c] \in Nat
    BY DEF IInv, TypeOK
  <2>2. t.since \in Nat /\ t.exp \in Nat /\ Signed(t) \in Nat
    BY <2>1, TokenTypes DEF IInv
  <2>3. t.since <= Signed(t) /\ Signed(t) <= time[c] /\ time[c] < t.exp
    BY <2>1 DEF IInv, TokensInv, CarriedInv
  <2>4. /\ Overrun(t.since, Signed(t)) \in Nat /\ Overrun(t.since, time[c]) \in Nat
        /\ Overrun(t.since, Signed(t)) <= Overrun(t.since, time[c])
    BY <2>1, <2>2, <2>3, OverrunGrows
  <2>5. Signed(t) <= t.since + RefreshExpires + Overrun(t.since, Signed(t))
    BY <2>1 DEF IInv, TokensInv
  <2>6. t.exp = Signed(t) + Expires
    BY <2>2 DEF Signed
  <2> HIDE DEF Signed
  <2>7. QED
    BY <2>1, <2>2, <2>3, <2>4, <2>5, <2>6
<1>2. QED
  BY <1>1, Inductive, PTL

\* No refresh is refused before its limit is over, and none is granted after
\* it, but for a turn for each wrap around.
THEOREM RefreshedInTimeHolds == Spec => []RefreshedInTime
<1>1. IInv => RefreshedInTime
  BY DEF IInv
<1>2. QED
  BY <1>1, Inductive, PTL

\* Once a user is disabled or removed, no call that begins later acts for
\* its account, and no login ends in a token unless another account of the
\* name was open.
THEOREM LockedOutHolds == Spec => []LockedOut
<1>1. IInv => LockedOut
  <2> SUFFICES ASSUME IInv PROVE LockedOut
    OBVIOUS
  <2>1. \A c \in Calls : pc[c] = "done" => sub[c] \notin shut[c]
    BY DEF IInv, ShutInv
  <2>2. ASSUME NEW l \in Logins, pc[l] = "done", sub[l] \in shut[l]
        PROVE  \E a \in Accounts \ {sub[l]} : a \notin shut[l]
    BY <2>2 DEF IInv, ShutInv
  <2>3. QED
    BY <2>1, <2>2 DEF LockedOut
<1>2. QED
  BY <1>1, Inductive, PTL
=============================================================================
