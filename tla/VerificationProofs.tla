------------------------- MODULE VerificationProofs -------------------------
(***************************************************************************)
(* Theorems about Verification, for any sets of requests, accounts, codes  *)
(* and lifetimes and any bound of the clock.                               *)
(***************************************************************************)
EXTENDS VerificationInv, TLAPS

USE RequestsAssumption, TimeAssumption DEF Requests

-----------------------------------------------------------------------------
\* Type correctness

\* Every variable starts with its type (Init of the service's state).
LEMMA InitTypeOK == Init => TypeOK
  BY DEF Init, TypeOK, States

\* Every statement of create and verify, removal and tick keeps the types.
LEMMA NextTypeOK == TypeOK /\ [Next]_vars => TypeOK'
<1> SUFFICES ASSUME TypeOK, [Next]_vars PROVE TypeOK'
  OBVIOUS
<1> USE DEF TypeOK, States, Goto, columns
<1>1. ASSUME NEW c \in Creates, CreateStart(c) PROVE TypeOK'
  BY <1>1 DEF CreateStart
<1>2. ASSUME NEW c \in Creates, CreateMatch(c) PROVE TypeOK'
  BY <1>2 DEF CreateMatch, Succeeded
<1>3. ASSUME NEW c \in Creates, CreateLock(c) PROVE TypeOK'
  BY <1>3 DEF CreateLock
<1>4. ASSUME NEW c \in Creates, CreateCommit(c) PROVE TypeOK'
  BY <1>4 DEF CreateCommit
<1>5. ASSUME NEW c \in Creates, CreateReject(c) PROVE TypeOK'
  BY <1>5 DEF CreateReject
<1>6. ASSUME NEW c \in Creates, CreateAbort(c) PROVE TypeOK'
  BY <1>6 DEF CreateAbort
<1>7. ASSUME NEW v \in Verifies, VerifyRead(v) PROVE TypeOK'
  BY <1>7 DEF VerifyRead, Succeeded
<1>8. ASSUME NEW v \in Verifies, VerifyCheck(v) PROVE TypeOK'
  BY <1>8 DEF VerifyCheck
<1>9. ASSUME NEW v \in Verifies, VerifyMark(v) PROVE TypeOK'
  BY <1>9 DEF VerifyMark
<1>10. ASSUME NEW a \in Accounts, RemoveAccount(a) PROVE TypeOK'
  BY <1>10 DEF RemoveAccount
<1>11. CASE Tick
  BY <1>11 DEF Tick
<1>12. CASE UNCHANGED vars
  BY <1>12 DEF vars
<1>13. QED
  BY <1>1, <1>2, <1>3, <1>4, <1>5, <1>6, <1>7, <1>8, <1>9, <1>10, <1>11, <1>12
     DEF Next, CreateStep, VerifyStep

\* The state of the service is always well typed.
THEOREM TypeCorrect == Spec => []TypeOK
<1>1. Init => TypeOK
  BY InitTypeOK
<1>2. TypeOK /\ [Next]_vars => TypeOK'
  BY NextTypeOK
<1>3. QED
  BY <1>1, <1>2, PTL DEF Spec

-----------------------------------------------------------------------------
\* What is known of an answered request never changes

Fixed ==
    /\ \A r \in Requests : pc[r] = "done" =>
          /\ pc'[r] = "done" /\ account'[r] = account[r]
          /\ now'[r] = now[r] /\ hit'[r] = hit[r] /\ before'[r] = before[r]
    /\ \A c \in Creates : pc[c] \in {"done", "failed"} =>
          /\ pc'[c] = pc[c] /\ account'[c] = account[c]
          /\ code'[c] = code[c] /\ expireAt'[c] = expireAt[c]
    /\ used \subseteq used'
    /\ clock <= clock'

\* The columns of an inserted row and the results of a request answered with
\* success are final: no handler writes to another request's state.
LEMMA FixedByNext == TypeOK /\ [Next]_vars => Fixed
<1> SUFFICES ASSUME TypeOK, [Next]_vars PROVE Fixed
  OBVIOUS
<1> USE DEF TypeOK, States, Goto, columns, Fixed
<1>1. ASSUME NEW c \in Creates, CreateStart(c) \/ CreateStep(c) \/ CreateAbort(c)
      PROVE  Fixed
  BY <1>1 DEF CreateStart, CreateStep, CreateMatch, CreateLock, CreateCommit,
              CreateReject, CreateAbort
<1>2. ASSUME NEW v \in Verifies, VerifyRead(v) \/ VerifyStep(v) PROVE Fixed
  BY <1>2 DEF VerifyRead, VerifyStep, VerifyCheck, VerifyMark
<1>3. ASSUME NEW a \in Accounts, RemoveAccount(a) PROVE Fixed
  BY <1>3 DEF RemoveAccount
<1>4. CASE Tick
  BY <1>4 DEF Tick
<1>5. CASE UNCHANGED vars
  BY <1>5 DEF vars
<1>6. QED
  BY <1>1, <1>2, <1>3, <1>4, <1>5 DEF Next

-----------------------------------------------------------------------------
\* The inductive invariant

\* The service starts with an empty table and no call, which satisfies IInv.
LEMMA InitIInv == Init => IInv
  BY InitTypeOK
     DEF Init, IInv, HistoryInv, CreateInv, ReadInv, CheckInv, UsedInv,
         OutcomeInv, ReasonInv, Live, Succeeded

\* Times read are past, histories hold answered requests, rows read and rows
\* stored were inserted by a create whose transaction has committed.
LEMMA NextHistoryInv == TypeOK /\ HistoryInv /\ [Next]_vars => HistoryInv'
<1> SUFFICES ASSUME TypeOK, HistoryInv, [Next]_vars PROVE HistoryInv'
  OBVIOUS
<1> USE DEF TypeOK, States, Goto, columns, HistoryInv, Succeeded
<1>1. ASSUME NEW c \in Creates, CreateStart(c) PROVE HistoryInv'
  BY <1>1 DEF CreateStart
<1>2. ASSUME NEW c \in Creates, CreateMatch(c) PROVE HistoryInv'
  BY <1>2 DEF CreateMatch, Retirable
<1>3. ASSUME NEW c \in Creates, CreateLock(c) PROVE HistoryInv'
  BY <1>3 DEF CreateLock
<1>4. ASSUME NEW c \in Creates, CreateCommit(c) PROVE HistoryInv'
  BY <1>4 DEF CreateCommit
<1>5. ASSUME NEW c \in Creates, CreateReject(c) \/ CreateAbort(c) PROVE HistoryInv'
  BY <1>5 DEF CreateReject, CreateAbort
<1>6. ASSUME NEW v \in Verifies, VerifyRead(v) PROVE HistoryInv'
  BY <1>6 DEF VerifyRead, Findable
<1>7. ASSUME NEW v \in Verifies, VerifyCheck(v) PROVE HistoryInv'
  BY <1>7 DEF VerifyCheck
<1>8. ASSUME NEW v \in Verifies, VerifyMark(v) PROVE HistoryInv'
  BY <1>8 DEF VerifyMark
<1>9. ASSUME NEW a \in Accounts, RemoveAccount(a) PROVE HistoryInv'
  BY <1>9 DEF RemoveAccount
<1>10. CASE Tick
  BY <1>10 DEF Tick
<1>11. CASE UNCHANGED vars
  BY <1>11 DEF vars
<1>12. QED
  BY <1>1, <1>2, <1>3, <1>4, <1>5, <1>6, <1>7, <1>8, <1>9, <1>10, <1>11
     DEF Next, CreateStep, VerifyStep

\* A create that has read holds every live code it has to invalidate.  The
\* match takes them all, the second evaluation drops only rows that are no
\* longer live, the commit invalidates what is held, and the row that it
\* inserts is in no history yet.
LEMMA NextCreateInv ==
    TypeOK /\ HistoryInv /\ CreateInv /\ [Next]_vars => CreateInv'
<1> SUFFICES ASSUME TypeOK, HistoryInv, CreateInv, [Next]_vars PROVE CreateInv'
  OBVIOUS
<1> USE DEF TypeOK, States, Goto, columns, HistoryInv, Succeeded, CreateInv, Live
<1>1. ASSUME NEW c \in Creates, CreateStart(c) PROVE CreateInv'
  BY <1>1 DEF CreateStart
<1>2. ASSUME NEW c \in Creates, CreateMatch(c) PROVE CreateInv'
  BY <1>2 DEF CreateMatch, Retirable
<1>3. ASSUME NEW c \in Creates, CreateLock(c) PROVE CreateInv'
  BY <1>3 DEF CreateLock, Retirable
<1>4. ASSUME NEW c \in Creates, CreateCommit(c) PROVE CreateInv'
  BY <1>4 DEF CreateCommit
<1>5. ASSUME NEW c \in Creates, CreateReject(c) \/ CreateAbort(c) PROVE CreateInv'
  BY <1>5 DEF CreateReject, CreateAbort
<1>6. ASSUME NEW v \in Verifies, VerifyRead(v) PROVE CreateInv'
  BY <1>6 DEF VerifyRead
<1>7. ASSUME NEW v \in Verifies, VerifyStep(v) PROVE CreateInv'
  BY <1>7 DEF VerifyStep, VerifyCheck, VerifyMark
<1>8. ASSUME NEW a \in Accounts, RemoveAccount(a) PROVE CreateInv'
  BY <1>8 DEF RemoveAccount
<1>9. CASE Tick
  BY <1>9 DEF Tick
<1>10. CASE UNCHANGED vars
  BY <1>10 DEF vars
<1>11. QED
  BY <1>1, <1>2, <1>3, <1>4, <1>5, <1>6, <1>7, <1>8, <1>9, <1>10 DEF Next, CreateStep

\* What verify has read stays what it was, and a row found live was not
\* superseded by a create answered before, unless by its expiry.
LEMMA NextReadInv ==
    TypeOK /\ HistoryInv /\ CreateInv /\ ReadInv /\ [Next]_vars => ReadInv'
<1> SUFFICES ASSUME TypeOK, HistoryInv, CreateInv, ReadInv, [Next]_vars
             PROVE  ReadInv'
  OBVIOUS
<1>1. Fixed
  BY FixedByNext
<1> USE <1>1 DEF TypeOK, States, Goto, columns, HistoryInv, Succeeded, ReadInv, Fixed
<1>2. ASSUME NEW c \in Creates, CreateStart(c) \/ CreateStep(c) \/ CreateAbort(c)
      PROVE  ReadInv'
  BY <1>2 DEF CreateStart, CreateStep, CreateMatch, CreateLock, CreateCommit,
              CreateReject, CreateAbort
<1>3. ASSUME NEW v \in Verifies, VerifyRead(v) PROVE ReadInv'
  BY <1>3 DEF VerifyRead, Findable, CreateInv, Live
<1>4. ASSUME NEW v \in Verifies, VerifyStep(v) PROVE ReadInv'
  BY <1>4 DEF VerifyStep, VerifyCheck, VerifyMark
<1>5. ASSUME NEW a \in Accounts, RemoveAccount(a) PROVE ReadInv'
  BY <1>5 DEF RemoveAccount
<1>6. CASE Tick
  BY <1>6 DEF Tick
<1>7. CASE UNCHANGED vars
  BY <1>7 DEF vars
<1>8. QED
  BY <1>2, <1>3, <1>4, <1>5, <1>6, <1>7 DEF Next

\* The check is made after the read, at a time not later than the expiry.
LEMMA NextCheckInv ==
    TypeOK /\ HistoryInv /\ ReadInv /\ CheckInv /\ [Next]_vars => CheckInv'
<1> SUFFICES ASSUME TypeOK, HistoryInv, ReadInv, CheckInv, [Next]_vars
             PROVE  CheckInv'
  OBVIOUS
<1>1. Fixed
  BY FixedByNext
<1> USE <1>1 DEF TypeOK, States, Goto, columns, HistoryInv, Succeeded, CheckInv, Fixed
<1>2. ASSUME NEW c \in Creates, CreateStart(c) \/ CreateStep(c) \/ CreateAbort(c)
      PROVE  CheckInv'
  BY <1>2 DEF CreateStart, CreateStep, CreateMatch, CreateLock, CreateCommit,
              CreateReject, CreateAbort
<1>3. ASSUME NEW v \in Verifies, VerifyRead(v) PROVE CheckInv'
  BY <1>3 DEF VerifyRead
<1>4. ASSUME NEW v \in Verifies, VerifyCheck(v) PROVE CheckInv'
  <2>1. ASSUME NEW u \in Verifies \ {v}, pc'[u] \in {"passed", "done"}
        PROVE  /\ hit'[u] # {}
               /\ \A d \in hit'[u] : now'[u] <= expireAt'[d]
               /\ \A c \in before'[u] : now'[c] <= now'[u]
    BY <1>4, <2>1 DEF VerifyCheck
  <2>2. CASE pc'[v] = "passed"
    <3>1. Unexpired(v, clock) /\ now'[v] = clock /\ pc[v] = "read"
      BY <1>4, <2>2 DEF VerifyCheck
    <3>2. hit'[v] # {} /\ \A d \in hit'[v] : now'[v] <= expireAt'[d]
      BY <1>4, <3>1 DEF VerifyCheck, Unexpired, ReadInv
    <3>3. \A c \in before'[v] : now'[c] <= now'[v]
      BY <1>4, <3>1 DEF VerifyCheck
    <3>4. QED
      BY <2>1, <2>2, <3>2, <3>3
  <2>3. CASE pc'[v] = "rejected"
    BY <2>1, <2>3
  <2>4. QED
    BY <1>4, <2>2, <2>3 DEF VerifyCheck
<1>5. ASSUME NEW v \in Verifies, VerifyMark(v) PROVE CheckInv'
  BY <1>5 DEF VerifyMark
<1>6. ASSUME NEW a \in Accounts, RemoveAccount(a) PROVE CheckInv'
  BY <1>6 DEF RemoveAccount
<1>7. CASE Tick
  BY <1>7 DEF Tick
<1>8. CASE UNCHANGED vars
  BY <1>8 DEF vars
<1>9. QED
  BY <1>2, <1>3, <1>4, <1>5, <1>6, <1>7, <1>8 DEF Next, VerifyStep

\* A code accepted is marked when it is accepted and stays marked, so no
\* later read finds it.
LEMMA NextUsedInv ==
    TypeOK /\ HistoryInv /\ UsedInv /\ [Next]_vars => UsedInv'
<1> SUFFICES ASSUME TypeOK, HistoryInv, UsedInv, [Next]_vars PROVE UsedInv'
  OBVIOUS
<1>1. Fixed
  BY FixedByNext
<1> USE <1>1 DEF TypeOK, States, Goto, columns, HistoryInv, Succeeded, UsedInv, Fixed
<1>2. ASSUME NEW c \in Creates, CreateStart(c) \/ CreateStep(c) \/ CreateAbort(c)
      PROVE  UsedInv'
  BY <1>2 DEF CreateStart, CreateStep, CreateMatch, CreateLock, CreateCommit,
              CreateReject, CreateAbort
<1>3. ASSUME NEW v \in Verifies, VerifyRead(v) PROVE UsedInv'
  BY <1>3 DEF VerifyRead, Findable
<1>4. ASSUME NEW v \in Verifies, VerifyStep(v) PROVE UsedInv'
  BY <1>4 DEF VerifyStep, VerifyCheck, VerifyMark
<1>5. ASSUME NEW a \in Accounts, RemoveAccount(a) PROVE UsedInv'
  BY <1>5 DEF RemoveAccount
<1>6. CASE Tick
  BY <1>6 DEF Tick
<1>7. CASE UNCHANGED vars
  BY <1>7 DEF vars
<1>8. QED
  BY <1>2, <1>3, <1>4, <1>5, <1>6, <1>7 DEF Next

\* Only a removal deletes a row, only a create of its account invalidates it
\* and only a verify given its code marks it; each has ended when it shows.
LEMMA NextOutcomeInv ==
    TypeOK /\ HistoryInv /\ ReadInv /\ OutcomeInv /\ [Next]_vars => OutcomeInv'
<1> SUFFICES ASSUME TypeOK, HistoryInv, ReadInv, OutcomeInv, [Next]_vars
             PROVE  OutcomeInv'
  OBVIOUS
<1>1. Fixed
  BY FixedByNext
<1> USE <1>1 DEF TypeOK, States, Goto, columns, HistoryInv, Succeeded, OutcomeInv, Fixed
<1>2. ASSUME NEW c \in Creates, CreateStart(c) PROVE OutcomeInv'
  BY <1>2 DEF CreateStart
<1>3. ASSUME NEW c \in Creates, CreateMatch(c) PROVE OutcomeInv'
  BY <1>3 DEF CreateMatch, Retirable
<1>4. ASSUME NEW c \in Creates, CreateLock(c) PROVE OutcomeInv'
  BY <1>4 DEF CreateLock
<1>5. ASSUME NEW c \in Creates, CreateCommit(c) PROVE OutcomeInv'
  BY <1>5 DEF CreateCommit
<1>6. ASSUME NEW c \in Creates, CreateReject(c) \/ CreateAbort(c) PROVE OutcomeInv'
  BY <1>6 DEF CreateReject, CreateAbort
<1>7. ASSUME NEW v \in Verifies, VerifyRead(v) PROVE OutcomeInv'
  BY <1>7 DEF VerifyRead
<1>8. ASSUME NEW v \in Verifies, VerifyCheck(v) PROVE OutcomeInv'
  BY <1>8 DEF VerifyCheck
<1>9. ASSUME NEW v \in Verifies, VerifyMark(v) PROVE OutcomeInv'
  BY <1>9 DEF VerifyMark, ReadInv
<1>10. ASSUME NEW a \in Accounts, RemoveAccount(a) PROVE OutcomeInv'
  BY <1>10 DEF RemoveAccount
<1>11. CASE Tick
  BY <1>11 DEF Tick
<1>12. CASE UNCHANGED vars
  BY <1>12 DEF vars
<1>13. QED
  BY <1>2, <1>3, <1>4, <1>5, <1>6, <1>7, <1>8, <1>9, <1>10, <1>11, <1>12
     DEF Next, CreateStep, VerifyStep

\* The reason for which a code was not found remains one.
LEMMA WithdrawnStable ==
    ASSUME TypeOK, HistoryInv, [Next]_vars,
           NEW c \in Creates, pc[c] = "done", NEW v \in Verifies, Withdrawn(c, v)
    PROVE  Withdrawn(c, v)'
<1> USE DEF TypeOK, States, Goto, columns, Withdrawn
<1>1. ASSUME NEW d \in Creates, CreateStart(d) \/ CreateStep(d) \/ CreateAbort(d)
      PROVE  Withdrawn(c, v)'
  BY <1>1 DEF CreateStart, CreateStep, CreateMatch, CreateLock, CreateCommit,
              CreateReject, CreateAbort
<1>2. ASSUME NEW w \in Verifies, VerifyRead(w) \/ VerifyStep(w)
      PROVE  Withdrawn(c, v)'
  BY <1>2 DEF VerifyRead, VerifyStep, VerifyCheck, VerifyMark
<1>3. ASSUME NEW a \in Accounts, RemoveAccount(a) PROVE Withdrawn(c, v)'
  BY <1>3 DEF RemoveAccount
<1>4. CASE Tick
  BY <1>4 DEF Tick
<1>5. CASE UNCHANGED vars
  BY <1>5 DEF vars
<1>6. QED
  BY <1>1, <1>2, <1>3, <1>4, <1>5 DEF Next

\* A verify that has read no row did so because no row satisfied its WHERE.
LEMMA NothingFound ==
    ASSUME TypeOK, NEW v \in Verifies, VerifyRead(v), hit'[v] = {}, NEW c \in Creates
    PROVE  ~Findable(c, account'[v], code'[v])
<1>1. PICK a \in Accounts, k \in Codes :
         /\ account' = [account EXCEPT ![v] = a]
         /\ code' = [code EXCEPT ![v] = k]
         /\ \/ \E d \in Creates : Findable(d, a, k) /\ hit' = [hit EXCEPT ![v] = {d}]
            \/ ~(\E d \in Creates : Findable(d, a, k)) /\ hit' = [hit EXCEPT ![v] = {}]
  BY DEF VerifyRead
<1>2. account'[v] = a /\ code'[v] = k
  BY <1>1 DEF TypeOK
<1>3. \A d \in Creates : hit' # [hit EXCEPT ![v] = {d}]
  BY DEF TypeOK
<1>4. ~Findable(c, a, k)
  BY <1>1, <1>3
<1>5. QED
  BY <1>2, <1>4

\* When verify finds nothing, every code it might have found was withdrawn;
\* when it rejects what it has found, that had expired.
LEMMA NextReasonInv ==
    TypeOK /\ HistoryInv /\ ReadInv /\ OutcomeInv /\ ReasonInv /\ [Next]_vars
        => ReasonInv'
<1> SUFFICES ASSUME TypeOK, HistoryInv, ReadInv, OutcomeInv, ReasonInv, [Next]_vars
             PROVE  ReasonInv'
  OBVIOUS
<1>1. Fixed
  BY FixedByNext
<1>2. \A c \in Creates, v \in Verifies :
         pc[c] = "done" /\ Withdrawn(c, v) => Withdrawn(c, v)'
  BY WithdrawnStable
<1> USE <1>1, <1>2 DEF TypeOK, States, Goto, columns, HistoryInv, Succeeded, ReasonInv,
        Fixed
<1>3. ASSUME NEW c \in Creates, CreateStart(c) \/ CreateStep(c) \/ CreateAbort(c)
      PROVE  ReasonInv'
  BY <1>3 DEF CreateStart, CreateStep, CreateMatch, CreateLock, CreateCommit,
              CreateReject, CreateAbort
<1>4. ASSUME NEW v \in Verifies, VerifyRead(v) PROVE ReasonInv'
  <2>1. ASSUME NEW u \in Verifies \ {v}
        PROVE  /\ pc'[u] \in {"read", "rejected"} /\ hit'[u] = {} =>
                     \A c \in before'[u] \cap Creates :
                        account'[c] = account'[u] /\ code'[c] = code'[u]
                        => Withdrawn(c, u)'
               /\ pc'[u] = "rejected" => \A d \in hit'[u] : expireAt'[d] < now'[u]
    BY <1>4 DEF VerifyRead
  <2>2. ASSUME hit'[v] = {}, NEW c \in Succeeded \cap Creates,
               account'[c] = account'[v], code'[c] = code'[v]
        PROVE  Withdrawn(c, v)
    <3>1. ~Findable(c, account'[v], code'[v])
      BY <1>4, <2>2, NothingFound
    <3>2. pc[v] = "idle" /\ c # v /\ pc[c] = "done" /\ account'[c] = account[c]
          /\ code'[c] = code[c]
      BY <1>4, <2>2 DEF VerifyRead
    <3>3. c \notin stored \/ c \notin isValid \/ c \in used
      BY <2>2, <3>1, <3>2 DEF Findable
    <3>4. QED
      BY <3>2, <3>3 DEF OutcomeInv, Withdrawn
  <2>3. pc'[v] = "read" /\ before'[v] = Succeeded
    BY <1>4 DEF VerifyRead
  <2>4. QED
    BY <2>1, <2>2, <2>3
<1>5. ASSUME NEW v \in Verifies, VerifyCheck(v) PROVE ReasonInv'
  BY <1>5 DEF VerifyCheck, Unexpired
<1>6. ASSUME NEW v \in Verifies, VerifyMark(v) PROVE ReasonInv'
  BY <1>6 DEF VerifyMark
<1>7. ASSUME NEW a \in Accounts, RemoveAccount(a) PROVE ReasonInv'
  BY <1>7 DEF RemoveAccount
<1>8. CASE Tick
  BY <1>8 DEF Tick
<1>9. CASE UNCHANGED vars
  BY <1>9 DEF vars
<1>10. QED
  BY <1>3, <1>4, <1>5, <1>6, <1>7, <1>8, <1>9 DEF Next, VerifyStep

-----------------------------------------------------------------------------
\* Theorems

\* IInv is an invariant of the service.
THEOREM Inductive == Spec => []IInv
<1>1. Init => IInv
  BY InitIInv
<1>2. IInv /\ [Next]_vars => IInv'
  BY NextTypeOK, NextHistoryInv, NextCreateInv, NextReadInv, NextCheckInv, NextUsedInv,
     NextOutcomeInv, NextReasonInv DEF IInv
<1>3. QED
  BY <1>1, <1>2, PTL DEF Spec

\* After create has answered, every code issued before it read is retired.
THEOREM SupersededRetiredHolds == Spec => []SupersededRetired
<1>1. IInv => SupersededRetired
  BY DEF IInv, TypeOK, HistoryInv, CreateInv, SupersededRetired, Succeeded
<1>2. QED
  BY <1>1, Inductive, PTL

\* A code superseded before verify read is not accepted, except at the very
\* instant at which it expires.
THEOREM SupersededNeverAcceptedHolds == Spec => []SupersededNeverAccepted
<1>1. IInv => SupersededNeverAccepted
  BY DEF IInv, TypeOK, HistoryInv, ReadInv, CheckInv, SupersededNeverAccepted, Succeeded
<1>2. QED
  BY <1>1, Inductive, PTL

\* Of two verifies one after the other, at most one accepts a code.
THEOREM AcceptedOnceInOrderHolds == Spec => []AcceptedOnceInOrder
<1>1. IInv => AcceptedOnceInOrder
  BY DEF IInv, UsedInv, AcceptedOnceInOrder
<1>2. QED
  BY <1>1, Inductive, PTL

\* What verify accepts was issued for the account, presented, and unexpired.
THEOREM AcceptedIsGenuineHolds == Spec => []AcceptedIsGenuine
<1>1. IInv => AcceptedIsGenuine
  BY DEF IInv, TypeOK, HistoryInv, ReadInv, CheckInv, AcceptedIsGenuine
<1>2. QED
  BY <1>1, Inductive, PTL

\* A code that could have been accepted is rejected only for a reason.
THEOREM RejectionHasReasonHolds == Spec => []RejectionHasReason
<1>1. IInv => RejectionHasReason
  BY DEF IInv, TypeOK, HistoryInv, ReadInv, ReasonInv, RejectionHasReason
<1>2. QED
  BY <1>1, Inductive, PTL

\* A row that is used, invalid or deleted is so for good.
THEOREM RetiredForGoodHolds == Spec => RetiredForGood
<1>1. IInv /\ [Next]_vars =>
        [\A d \in Creates : pc[d] \in {"done", "failed"} /\ ~Live(d) => ~Live(d)']_vars
  <2> SUFFICES ASSUME TypeOK, [Next]_vars, NEW d \in Creates,
                      pc[d] \in {"done", "failed"}, ~Live(d)
               PROVE  ~Live(d)'
    BY DEF IInv
  <2> USE DEF TypeOK, States, Goto, columns, Live
  <2>1. ASSUME NEW c \in Creates, CreateStart(c) \/ CreateStep(c) \/ CreateAbort(c)
        PROVE  ~Live(d)'
    BY <2>1 DEF CreateStart, CreateStep, CreateMatch, CreateLock, CreateCommit,
                CreateReject, CreateAbort
  <2>2. ASSUME NEW v \in Verifies, VerifyRead(v) \/ VerifyStep(v) PROVE ~Live(d)'
    BY <2>2 DEF VerifyRead, VerifyStep, VerifyCheck, VerifyMark
  <2>3. ASSUME NEW a \in Accounts, RemoveAccount(a) PROVE ~Live(d)'
    BY <2>3 DEF RemoveAccount
  <2>4. CASE Tick \/ UNCHANGED vars
    BY <2>4 DEF Tick, vars
  <2>5. QED
    BY <2>1, <2>2, <2>3, <2>4 DEF Next
<1>2. QED
  BY <1>1, Inductive, PTL DEF Spec, RetiredForGood
=============================================================================
