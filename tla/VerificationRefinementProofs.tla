-------------------- MODULE VerificationRefinementProofs --------------------
(***************************************************************************)
(* Verification implements OneTimeCode, for every value of the constants:  *)
(* the initial states map to the initial state and, under the inductive    *)
(* invariant, every step maps to a step of the promise or to none.         *)
(***************************************************************************)
EXTENDS VerificationProofs, VerificationRefinement

USE RequestsAssumption DEF Requests, Goto, columns, Ended, Live

\* The initial table and requests map to the initial state of the promise.
LEMMA InitMaps == Init => OTC!Init
<1> SUFFICES ASSUME Init PROVE OTC!Init
  OBVIOUS
<1>1. Owner = [d \in Creates |-> None]
  BY DEF Init, Owner
<1>2. LiveIds = {} /\ GoneIds = {}
  BY DEF Init, LiveIds, GoneIds
<1>3. /\ Candidate = [v \in Verifies |-> {}] /\ Outcome = [v \in Verifies |-> "none"]
      /\ Caller = [v \in Verifies |-> None]
  BY DEF Init, Caller, Candidate, Outcome
<1>4. QED
  BY <1>1, <1>2, <1>3 DEF OTC!Init

\* Looking up the user is a stutter, unless there is none: then the issue
\* has failed.
LEMMA CreateStartMaps ==
    ASSUME IInv, NEW c \in Creates, CreateStart(c)
    PROVE  OTC!Next \/ UNCHANGED OTC!vars
<1> USE DEF IInv, TypeOK, HistoryInv, CreateStart
<1>1. PICK a \in Accounts :
         /\ account' = [account EXCEPT ![c] = a]
         /\ Goto(c, "failed") \/ Goto(c, "found")
  OBVIOUS
<1>2. UNCHANGED <<Caller, Candidate, Outcome, LiveIds>>
  BY <1>1 DEF Caller, Candidate, Outcome, LiveIds
<1>3. ~Ended(c) /\ ~Live(c)
  OBVIOUS
<1>4. CASE pc' = [pc EXCEPT ![c] = "found"]
  <2>1. UNCHANGED <<Owner, GoneIds>>
    BY <1>1, <1>3, <1>4 DEF Owner, GoneIds
  <2>2. QED
    BY <1>2, <2>1 DEF OTC!vars
<1>5. CASE pc' = [pc EXCEPT ![c] = "failed"]
  <2>1. Owner' = [Owner EXCEPT ![c] = a]
    BY <1>1, <1>3, <1>5 DEF Owner
  <2>2. GoneIds' = GoneIds \cup {c}
    BY <1>3, <1>5 DEF GoneIds
  <2>3. c \notin LiveIds \cup GoneIds
    BY <1>3 DEF LiveIds, GoneIds
  <2>4. OTC!Fail(c, a)
    BY <1>2, <2>1, <2>2, <2>3 DEF OTC!Fail
  <2>5. QED
    BY <2>4 DEF OTC!Next
<1>6. QED
  BY <1>1, <1>4, <1>5

\* Taking the snapshot and the locks shows nothing.
LEMMA CreateMatchMaps ==
    ASSUME IInv, NEW c \in Creates, CreateMatch(c) \/ CreateLock(c)
    PROVE  UNCHANGED OTC!vars
<1> USE DEF IInv, TypeOK, CreateMatch, CreateLock
<1>1. UNCHANGED <<Owner, LiveIds, GoneIds>>
  BY DEF Owner, LiveIds, GoneIds
<1>2. UNCHANGED <<Caller, Candidate, Outcome>>
  BY DEF Caller, Candidate, Outcome
<1>3. QED
  BY <1>1, <1>2 DEF OTC!vars

\* The commit is the issue; what it retires are the rows it holds.
LEMMA CreateCommitMaps ==
    ASSUME IInv, NEW c \in Creates, CreateCommit(c)
    PROVE  OTC!Next
<1> USE DEF IInv, TypeOK, HistoryInv, CreateCommit
<1> DEFINE R == hit[c] \cap LiveIds
<1>1. account[c] \in Accounts /\ ~Ended(c) /\ ~Live(c)
  OBVIOUS
<1>2. R \in SUBSET {d \in LiveIds : Owner[d] = account[c]}
  BY DEF OutcomeInv, Owner, LiveIds
<1>3. Owner' = [Owner EXCEPT ![c] = account[c]]
  BY <1>1 DEF Owner
<1>4. c \notin used /\ c \notin hit[c]
  BY DEF OutcomeInv
<1>5. LiveIds' = (LiveIds \ R) \cup {c}
  BY <1>4 DEF LiveIds
<1>6. GoneIds' = GoneIds \cup R
  <2>1. \A d \in Creates : Ended(d)' <=> Ended(d) \/ d = c
    OBVIOUS
  <2>2. \A d \in Creates : Live(d)' <=> d = c \/ (Live(d) /\ d \notin hit[c])
    BY <1>4
  <2>3. \A d \in LiveIds : Ended(d)
    BY DEF LiveIds
  <2>4. QED
    BY <1>1, <2>1, <2>2, <2>3 DEF GoneIds, LiveIds
<1>7. UNCHANGED <<Caller, Candidate, Outcome>>
  BY DEF Caller, Candidate, Outcome
<1>8. c \notin LiveIds \cup GoneIds
  BY <1>1 DEF LiveIds, GoneIds
<1>9. OTC!Issue(c, account[c])
  BY <1>2, <1>3, <1>5, <1>6, <1>7, <1>8 DEF OTC!Issue, OTC!Of
<1>10. QED
  BY <1>1, <1>9 DEF OTC!Next

\* A create that is rejected or aborted is an issue that failed.
LEMMA CreateFailMaps ==
    ASSUME IInv, NEW c \in Creates, CreateReject(c) \/ CreateAbort(c)
    PROVE  OTC!Next
<1> USE DEF IInv, TypeOK, HistoryInv, CreateReject, CreateAbort
<1>1. ~Ended(c) /\ ~Live(c)
  OBVIOUS
<1>2. account[c] \in Accounts \cup {None}
  OBVIOUS
<1>3. Owner' = [Owner EXCEPT ![c] = account[c]]
  BY <1>1 DEF Owner
<1>4. GoneIds' = GoneIds \cup {c} /\ c \notin LiveIds \cup GoneIds
  BY <1>1 DEF GoneIds, LiveIds
<1>5. UNCHANGED <<LiveIds, Caller, Candidate, Outcome>>
  BY DEF LiveIds, Caller, Candidate, Outcome
<1>6. OTC!Fail(c, account[c])
  BY <1>3, <1>4, <1>5 DEF OTC!Fail
<1>7. QED
  BY <1>2, <1>6 DEF OTC!Next

\* Finding the row is presenting a code of the account that is live now, or
\* none.
LEMMA VerifyReadMaps ==
    ASSUME IInv, NEW v \in Verifies, VerifyRead(v)
    PROVE  OTC!Next
<1> USE DEF IInv, TypeOK, VerifyRead
<1>1. PICK a \in Accounts, k \in Codes :
        /\ account' = [account EXCEPT ![v] = a]
        /\ \/ \E d \in Creates : Findable(d, a, k) /\ hit' = [hit EXCEPT ![v] = {d}]
           \/ hit' = [hit EXCEPT ![v] = {}]
  OBVIOUS
<1>a. PICK S \in {{}} \cup {{d} : d \in OTC!Of(a)} : hit' = [hit EXCEPT ![v] = S]
  <2>1. \A d \in Creates : Findable(d, a, k) => d \in LiveIds /\ Owner[d] = a
    BY DEF HistoryInv, Findable, LiveIds, Owner
  <2>2. QED
    BY <1>1, <2>1 DEF OTC!Of
<1>2. Candidate' = [Candidate EXCEPT ![v] = S] /\ Caller' = [Caller EXCEPT ![v] = a]
  BY <1>1, <1>a DEF Candidate, Caller
<1>3. Outcome[v] = "none" /\ Outcome' = [Outcome EXCEPT ![v] = "open"]
  BY DEF Outcome
<1>4. UNCHANGED <<Owner, LiveIds, GoneIds>>
  BY <1>1 DEF Owner, LiveIds, GoneIds
<1>5. OTC!Present(v, a)
  BY <1>2, <1>3, <1>4 DEF OTC!Present, OTC!Answer
<1>6. QED
  BY <1>5 DEF OTC!Next

\* The check of the expiry refuses the call or shows nothing.
LEMMA VerifyCheckMaps ==
    ASSUME IInv, NEW v \in Verifies, VerifyCheck(v)
    PROVE  OTC!Next \/ UNCHANGED OTC!vars
<1> USE DEF IInv, TypeOK, VerifyCheck
<1>1. UNCHANGED <<Owner, LiveIds, GoneIds, Caller, Candidate>>
  BY DEF Owner, LiveIds, GoneIds, Caller, Candidate
<1>2. CASE pc' = [pc EXCEPT ![v] = "passed"]
  <2>1. UNCHANGED Outcome
    BY <1>2 DEF Outcome
  <2>2. QED
    BY <1>1, <2>1 DEF OTC!vars
<1>3. CASE pc' = [pc EXCEPT ![v] = "rejected"]
  <2>1. Outcome[v] = "open" /\ Outcome' = [Outcome EXCEPT ![v] = "refused"]
    BY <1>3 DEF Outcome
  <2>2. OTC!Refuse(v)
    BY <1>1, <2>1 DEF OTC!Refuse, OTC!Answer
  <2>3. QED
    BY <2>2 DEF OTC!Next
<1>4. QED
  BY <1>2, <1>3

\* Marking the row is the acceptance, or a refusal that retires the code.
LEMMA VerifyMarkMaps ==
    ASSUME IInv, NEW v \in Verifies, VerifyMark(v)
    PROVE  OTC!Next
<1>1. \/ pc' = [pc EXCEPT ![v] = "done"] /\ used' = used \cup hit[v]
      \/ pc' = [pc EXCEPT ![v] = "failed"] /\ used' \in {used, used \cup hit[v]}
  BY DEF VerifyMark
<1>2. pc[v] = "passed" /\ UNCHANGED <<stored, isValid, account, hit>>
  BY DEF VerifyMark
<1>3. /\ hit[v] # {} /\ hit[v] \in SUBSET Creates /\ v \notin Creates
      /\ pc \in [Creates \cup Verifies -> States]
      /\ \A d \in hit[v] : Ended(d)
  BY <1>2 DEF IInv, TypeOK, HistoryInv, CheckInv
<1>4. \A d \in Creates : pc'[d] = pc[d]
  BY <1>1, <1>3
<1>5. UNCHANGED <<Owner, Caller, Candidate>> /\ Candidate[v] = hit[v]
  BY <1>2, <1>4 DEF Owner, Caller, Candidate
<1>6. ASSUME used' = used \cup hit[v] PROVE OTC!Retire(Candidate[v])
  <2>1. \A d \in Creates : Live(d)' <=> Live(d) /\ d \notin hit[v]
    BY <1>2, <1>6
  <2>2. LiveIds' = LiveIds \ hit[v]
    BY <2>1 DEF LiveIds
  <2>3. GoneIds' = GoneIds \cup hit[v]
    BY <1>3, <1>4, <2>1 DEF GoneIds
  <2>4. QED
    BY <1>5, <2>2, <2>3 DEF OTC!Retire
<1>7. ASSUME used' = used PROVE UNCHANGED <<LiveIds, GoneIds>>
  BY <1>2, <1>4, <1>7 DEF LiveIds, GoneIds
<1>8. Outcome[v] = "open"
  BY <1>2 DEF Outcome
<1>9. CASE pc' = [pc EXCEPT ![v] = "done"] /\ used' = used \cup hit[v]
  <2>1. Outcome' = [Outcome EXCEPT ![v] = "accepted"]
    BY <1>3, <1>9 DEF Outcome
  <2>2. OTC!Accept(v)
    BY <1>3, <1>5, <1>6, <1>8, <1>9, <2>1 DEF OTC!Accept, OTC!Answer
  <2>3. QED
    BY <2>2 DEF OTC!Next
<1>10. CASE pc' = [pc EXCEPT ![v] = "failed"] /\ used' \in {used, used \cup hit[v]}
  <2>1. Outcome' = [Outcome EXCEPT ![v] = "refused"]
    BY <1>3, <1>10 DEF Outcome
  <2>2. OTC!Refuse(v)
    BY <1>5, <1>6, <1>7, <1>8, <1>10, <2>1 DEF OTC!Refuse, OTC!Answer
  <2>3. QED
    BY <2>2 DEF OTC!Next
<1>11. QED
  BY <1>1, <1>9, <1>10

\* With the account its codes go.
LEMMA RemoveAccountMaps ==
    ASSUME IInv, NEW a \in Accounts, RemoveAccount(a)
    PROVE  OTC!Next
<1> USE DEF IInv, TypeOK, HistoryInv, RemoveAccount
<1>1. OTC!Of(a) = {d \in LiveIds : account[d] = a}
  BY DEF OTC!Of, Owner, LiveIds
<1>2. LiveIds' = LiveIds \ OTC!Of(a)
  BY <1>1 DEF LiveIds
<1>3. GoneIds' = GoneIds \cup OTC!Of(a)
  BY <1>1 DEF GoneIds, LiveIds
<1>4. UNCHANGED <<Owner, Caller, Candidate, Outcome>>
  BY DEF Owner, Caller, Candidate, Outcome
<1>5. OTC!Withdraw(a)
  BY <1>2, <1>3, <1>4 DEF OTC!Withdraw, OTC!Retire
<1>6. QED
  BY <1>5 DEF OTC!Next

\* A step of the service is a step of the promise or a stutter.
LEMMA NextMaps == IInv /\ [Next]_vars => [OTC!Next]_OTC!vars
<1> SUFFICES ASSUME IInv, [Next]_vars PROVE OTC!Next \/ UNCHANGED OTC!vars
  OBVIOUS
<1>1. CASE Tick \/ UNCHANGED vars
  <2>1. UNCHANGED <<Owner, LiveIds, GoneIds, Caller, Candidate, Outcome>>
    BY <1>1 DEF Tick, vars, Owner, LiveIds, GoneIds, Caller, Candidate, Outcome
  <2>2. QED
    BY <2>1 DEF OTC!vars
<1>2. QED
  BY <1>1, CreateStartMaps, CreateMatchMaps, CreateCommitMaps, CreateFailMaps,
     VerifyReadMaps, VerifyCheckMaps, VerifyMarkMaps, RemoveAccountMaps
     DEF Next, CreateStep, VerifyStep

\* The verification service keeps the promise of OneTimeCode.
THEOREM Refines == Spec => Implements
<1>1. Init => OTC!Init
  BY InitMaps
<1>2. IInv /\ [Next]_vars => [OTC!Next]_OTC!vars
  BY NextMaps
<1>3. QED
  BY <1>1, <1>2, Inductive, PTL DEF Spec, Implements, OTC!Spec
=============================================================================
