------------------------ MODULE PasswordResetProofs ------------------------
(***************************************************************************)
(* Theorems about PasswordReset, for any sets of accounts and requests.    *)
(***************************************************************************)
EXTENDS PasswordResetRefinement, TLAPS

USE KindsAssumption DEF Requests, Writers

-----------------------------------------------------------------------------
\* Type correctness

\* The tables and the requests start with their types.
LEMMA InitTypeOK == Init => TypeOK
  BY DEF Init, TypeOK, States

\* Every statement of every handler, failure and removal keeps the types.
LEMMA NextTypeOK == TypeOK /\ [Next]_vars => TypeOK'
<1> SUFFICES ASSUME TypeOK, [Next]_vars PROVE TypeOK'
  OBVIOUS
<1> USE DEF TypeOK, States, Goto, End, Begin, Succeeded, tables, Of
<1>1. ASSUME NEW q \in Asks, AskStart(q) \/ ResendStart(q) \/ RegisterAsk(q) \/ AskFind(q)
      PROVE  TypeOK'
  BY <1>1 DEF AskStart, ResendStart, RegisterAsk, AskFind
<1>2. ASSUME NEW q \in Asks, AskMake(q) PROVE TypeOK'
  BY <1>2 DEF AskMake
<1>3. ASSUME NEW q \in Asks, AskDraw(q) \/ AskCommit(q) PROVE TypeOK'
  BY <1>3 DEF AskDraw, AskCommit
<1>4. ASSUME NEW v \in Verifies, VerifyToken(v) \/ VerifyCode(v) \/ VerifyMark(v)
      PROVE  TypeOK'
  BY <1>4 DEF VerifyToken, VerifyCode, VerifyMark
<1>5. ASSUME NEW v \in Verifies, VerifyClear(v) \/ VerifyFind(v) \/ RegisterVerify(v)
                                  \/ RegisterMark(v)
      PROVE  TypeOK'
  BY <1>5 DEF VerifyClear, VerifyFind, RegisterVerify, RegisterMark
<1>6. ASSUME NEW v \in Verifies, VerifyMake(v) PROVE TypeOK'
  BY <1>6 DEF VerifyMake
<1>7. ASSUME NEW w \in Writers, WriteStep(w) PROVE TypeOK'
  <2>1. CASE w \in Resets /\ ResetStart(w)
    BY <2>1 DEF ResetStart
  <2>2. CASE w \in Changes /\ ChangeStart(w)
    BY <2>2 DEF ChangeStart
  <2>3. CASE w \in Overrides /\ OverrideStart(w)
    BY <2>3 DEF OverrideStart
  <2>4. CASE WritePassword(w)
    BY <2>4 DEF WritePassword
  <2>5. CASE w \in Resets /\ ResetClear(w)
    BY <2>5 DEF ResetClear
  <2>6. QED
    BY <1>7, <2>1, <2>2, <2>3, <2>4, <2>5 DEF WriteStep
<1>8. ASSUME NEW r \in Requests, Abort(r) PROVE TypeOK'
  BY <1>8 DEF Abort
<1>9. ASSUME NEW a \in Accounts, RemoveUser(a) PROVE TypeOK'
  BY <1>9 DEF RemoveUser
<1>10. CASE UNCHANGED vars
  BY <1>10 DEF vars
<1>11. QED
  BY <1>1, <1>2, <1>3, <1>4, <1>5, <1>6, <1>7, <1>8, <1>9, <1>10
     DEF Next, AskStep, VerifyStep

\* The state of the four tables and of every call is always well typed.
THEOREM TypeCorrect == Spec => []TypeOK
<1>1. Init => TypeOK
  BY InitTypeOK
<1>2. TypeOK /\ [Next]_vars => TypeOK'
  BY NextTypeOK
<1>3. QED
  BY <1>1, <1>2, PTL DEF Spec

-----------------------------------------------------------------------------
\* What a request has read never changes

Fixed ==
    /\ \A r \in Requests : pc[r] # "idle" =>
          pc'[r] # "idle" /\ acct'[r] = acct[r] /\ before'[r] = before[r]
    /\ \A r \in Requests : pc[r] \in {"done", "failed"} => pc'[r] = pc[r]
    /\ \A q \in Asks : pc[q] \notin {"idle", "find", "make"} =>
          pc'[q] \notin {"idle", "find", "make"}
    /\ \A r \in Verifies \cup Resets : pc[r] # "idle" => tok'[r] = tok[r]
    /\ \A v \in Verifies : pc[v] \notin {"idle", "code"} => code'[v] = code[v]

\* An argument is set when a request begins and a code when it is found; no
\* handler writes to another request's state.
LEMMA FixedByNext == TypeOK /\ [Next]_vars => Fixed
<1> SUFFICES ASSUME TypeOK, [Next]_vars PROVE Fixed
  OBVIOUS
<1> USE DEF TypeOK, States, Goto, End, Begin, tables, Fixed
<1>1. ASSUME NEW q \in Asks, AskStep(q) PROVE Fixed
  BY <1>1 DEF AskStep, AskStart, ResendStart, RegisterAsk, AskFind, AskMake,
              AskDraw, AskCommit
<1>2. ASSUME NEW v \in Verifies, VerifyStep(v) PROVE Fixed
  BY <1>2 DEF VerifyStep, VerifyToken, VerifyCode, VerifyMark, VerifyClear, VerifyFind,
              VerifyMake, RegisterVerify, RegisterMark
<1>3. ASSUME NEW w \in Writers, WriteStep(w) PROVE Fixed
  BY <1>3 DEF WriteStep, ResetStart, ChangeStart, OverrideStart, WritePassword,
              ResetClear
<1>4. ASSUME NEW r \in Requests, Abort(r) PROVE Fixed
  BY <1>4 DEF Abort
<1>5. ASSUME NEW a \in Accounts, RemoveUser(a) PROVE Fixed
  BY <1>5 DEF RemoveUser
<1>6. CASE UNCHANGED vars
  BY <1>6 DEF vars
<1>7. QED
  BY <1>1, <1>2, <1>3, <1>4, <1>5, <1>6 DEF Next

-----------------------------------------------------------------------------
\* The inductive invariant

\* With empty tables and no call begun, IInv holds.
LEMMA InitIInv == Init => IInv
  BY InitTypeOK
     DEF Init, IInv, RowsInv, GivenInv, CodeInv, ResetBacked, ClearInv, OneResetPerToken,
         ResetInv, UnreadInv, AskedInv, SentInv, VerifiedInv, WrittenInv, Ids, Succeeded

\* A row belongs to a request past its insert, and no request goes back.
LEMMA NextRowsInv ==
    TypeOK /\ RowsInv /\ [Next]_vars => RowsInv'
<1> SUFFICES ASSUME TypeOK, RowsInv, [Next]_vars PROVE RowsInv'
  OBVIOUS
<1> Fixed
  BY FixedByNext
<1> USE DEF TypeOK, States, Goto, End, Begin, Succeeded, tables, Of, Ids, Fixed,
        RowsInv
<1>1. ASSUME NEW q \in Asks, AskStart(q) \/ ResendStart(q) \/ RegisterAsk(q) \/ AskFind(q)
      PROVE  RowsInv'
  BY <1>1 DEF AskStart, ResendStart, RegisterAsk, AskFind
<1>2. ASSUME NEW q \in Asks, AskMake(q)
      PROVE  RowsInv'
  BY <1>2 DEF AskMake
<1>3. ASSUME NEW q \in Asks, AskDraw(q) \/ AskCommit(q)
      PROVE  RowsInv'
  BY <1>3 DEF AskDraw, AskCommit
<1>4. ASSUME NEW v \in Verifies, VerifyToken(v) \/ VerifyCode(v) \/ VerifyMark(v)
      PROVE  RowsInv'
  BY <1>4 DEF VerifyToken, VerifyCode, VerifyMark
<1>5. ASSUME NEW v \in Verifies, VerifyClear(v) \/ VerifyFind(v) \/ RegisterVerify(v)
                                  \/ RegisterMark(v)
      PROVE  RowsInv'
  BY <1>5 DEF VerifyClear, VerifyFind, RegisterVerify, RegisterMark
<1>6. ASSUME NEW v \in Verifies, VerifyMake(v)
      PROVE  RowsInv'
  BY <1>6 DEF VerifyMake
<1>7. ASSUME NEW w \in Writers, WriteStep(w)
      PROVE  RowsInv'
  BY <1>7 DEF WriteStep, ResetStart, ChangeStart, OverrideStart,
              WritePassword, ResetClear
<1>8. ASSUME NEW r \in Requests, Abort(r)
      PROVE  RowsInv'
  BY <1>8 DEF Abort
<1>9. ASSUME NEW a \in Accounts, RemoveUser(a)
      PROVE  RowsInv'
  BY <1>9 DEF RemoveUser
<1>10. CASE UNCHANGED vars
  BY <1>10 DEF vars
<1>11. QED
  BY <1>1, <1>2, <1>3, <1>4, <1>5, <1>6, <1>7, <1>8, <1>9, <1>10
     DEF Next, AskStep, VerifyStep

\* What a request is given or finds is a row, so the request that inserted it
\* is past its insert.
LEMMA NextGivenInv ==
    TypeOK /\ RowsInv /\ GivenInv /\ [Next]_vars => GivenInv'
<1> SUFFICES ASSUME TypeOK, RowsInv, GivenInv, [Next]_vars PROVE GivenInv'
  OBVIOUS
<1> Fixed
  BY FixedByNext
<1> USE DEF TypeOK, States, Goto, End, Begin, Succeeded, tables, Of, Ids, Fixed,
        RowsInv, GivenInv
<1>1. ASSUME NEW q \in Asks, AskStart(q) \/ ResendStart(q) \/ RegisterAsk(q) \/ AskFind(q)
      PROVE  GivenInv'
  BY <1>1 DEF AskStart, ResendStart, RegisterAsk, AskFind
<1>2. ASSUME NEW q \in Asks, AskMake(q)
      PROVE  GivenInv'
  BY <1>2 DEF AskMake
<1>3. ASSUME NEW q \in Asks, AskDraw(q) \/ AskCommit(q)
      PROVE  GivenInv'
  BY <1>3 DEF AskDraw, AskCommit
<1>4. ASSUME NEW v \in Verifies, VerifyToken(v) \/ VerifyCode(v) \/ VerifyMark(v)
      PROVE  GivenInv'
  BY <1>4 DEF VerifyToken, VerifyCode, VerifyMark
<1>5. ASSUME NEW v \in Verifies, VerifyClear(v) \/ VerifyFind(v) \/ RegisterVerify(v)
                                  \/ RegisterMark(v)
      PROVE  GivenInv'
  BY <1>5 DEF VerifyClear, VerifyFind, RegisterVerify, RegisterMark
<1>6. ASSUME NEW v \in Verifies, VerifyMake(v)
      PROVE  GivenInv'
  BY <1>6 DEF VerifyMake
<1>7. ASSUME NEW w \in Writers, WriteStep(w)
      PROVE  GivenInv'
  BY <1>7 DEF WriteStep, ResetStart, ChangeStart, OverrideStart,
              WritePassword, ResetClear
<1>8. ASSUME NEW r \in Requests, Abort(r)
      PROVE  GivenInv'
  BY <1>8 DEF Abort
<1>9. ASSUME NEW a \in Accounts, RemoveUser(a)
      PROVE  GivenInv'
  BY <1>9 DEF RemoveUser
<1>10. CASE UNCHANGED vars
  BY <1>10 DEF vars
<1>11. QED
  BY <1>1, <1>2, <1>3, <1>4, <1>5, <1>6, <1>7, <1>8, <1>9, <1>10
     DEF Next, AskStep, VerifyStep

\* VerifyCode finds a code of its account, VerifyMark takes it out of live,
\* and only the ask that drew it, which has ended, could put it there.
LEMMA NextCodeInv ==
    TypeOK /\ RowsInv /\ GivenInv /\ CodeInv /\ [Next]_vars => CodeInv'
<1> SUFFICES ASSUME TypeOK, RowsInv, GivenInv, CodeInv, [Next]_vars PROVE CodeInv'
  OBVIOUS
<1> Fixed
  BY FixedByNext
<1> USE DEF TypeOK, States, Goto, End, Begin, Succeeded, tables, Of, Ids, Fixed,
        RowsInv, GivenInv, CodeInv, Backed
<1>1. ASSUME NEW q \in Asks, AskStart(q) \/ ResendStart(q) \/ RegisterAsk(q) \/ AskFind(q)
      PROVE  CodeInv'
  BY <1>1 DEF AskStart, ResendStart, RegisterAsk, AskFind
<1>2. ASSUME NEW q \in Asks, AskMake(q)
      PROVE  CodeInv'
  BY <1>2 DEF AskMake
<1>3. ASSUME NEW q \in Asks, AskDraw(q) \/ AskCommit(q)
      PROVE  CodeInv'
  BY <1>3 DEF AskDraw, AskCommit
<1>4. ASSUME NEW v \in Verifies, VerifyToken(v) \/ VerifyCode(v) \/ VerifyMark(v)
      PROVE  CodeInv'
  BY <1>4 DEF VerifyToken, VerifyCode, VerifyMark
<1>5. ASSUME NEW v \in Verifies, VerifyClear(v) \/ VerifyFind(v) \/ RegisterVerify(v)
                                  \/ RegisterMark(v)
      PROVE  CodeInv'
  BY <1>5 DEF VerifyClear, VerifyFind, RegisterVerify, RegisterMark
<1>6. ASSUME NEW v \in Verifies, VerifyMake(v)
      PROVE  CodeInv'
  BY <1>6 DEF VerifyMake
<1>7. ASSUME NEW w \in Writers, WriteStep(w)
      PROVE  CodeInv'
  BY <1>7 DEF WriteStep, ResetStart, ChangeStart, OverrideStart,
              WritePassword, ResetClear
<1>8. ASSUME NEW r \in Requests, Abort(r)
      PROVE  CodeInv'
  BY <1>8 DEF Abort
<1>9. ASSUME NEW a \in Accounts, RemoveUser(a)
      PROVE  CodeInv'
  BY <1>9 DEF RemoveUser
<1>10. CASE UNCHANGED vars
  BY <1>10 DEF vars
<1>11. QED
  BY <1>1, <1>2, <1>3, <1>4, <1>5, <1>6, <1>7, <1>8, <1>9, <1>10
     DEF Next, AskStep, VerifyStep

\* The verify that inserts a reset token has used its code up, and a reset is
\* given a token that is there.
LEMMA NextResetBacked ==
    TypeOK /\ RowsInv /\ GivenInv /\ CodeInv /\ ResetBacked /\ [Next]_vars => ResetBacked'
<1> SUFFICES ASSUME TypeOK, RowsInv, GivenInv, CodeInv, ResetBacked, [Next]_vars
             PROVE  ResetBacked'
  OBVIOUS
<1> Fixed
  BY FixedByNext
<1> USE DEF TypeOK, States, Goto, End, Begin, Succeeded, tables, Of, Ids, Fixed,
        RowsInv, GivenInv, CodeInv, ResetBacked, Backed
<1>1. ASSUME NEW q \in Asks, AskStart(q) \/ ResendStart(q) \/ RegisterAsk(q) \/ AskFind(q)
      PROVE  ResetBacked'
  BY <1>1 DEF AskStart, ResendStart, RegisterAsk, AskFind
<1>2. ASSUME NEW q \in Asks, AskMake(q)
      PROVE  ResetBacked'
  BY <1>2 DEF AskMake
<1>3. ASSUME NEW q \in Asks, AskDraw(q) \/ AskCommit(q)
      PROVE  ResetBacked'
  BY <1>3 DEF AskDraw, AskCommit
<1>4. ASSUME NEW v \in Verifies, VerifyToken(v) \/ VerifyCode(v) \/ VerifyMark(v)
      PROVE  ResetBacked'
  BY <1>4 DEF VerifyToken, VerifyCode, VerifyMark
<1>5. ASSUME NEW v \in Verifies, VerifyClear(v) \/ VerifyFind(v) \/ RegisterVerify(v)
                                  \/ RegisterMark(v)
      PROVE  ResetBacked'
  <2>1. CASE VerifyClear(v) \/ VerifyFind(v)
    BY <2>1 DEF VerifyClear, VerifyFind
  <2>2. CASE RegisterVerify(v)
    BY <2>2 DEF RegisterVerify
  <2>3. CASE RegisterMark(v)
    BY <2>3 DEF RegisterMark
  <2>4. QED
    BY <1>5, <2>1, <2>2, <2>3
<1>6. ASSUME NEW v \in Verifies, VerifyMake(v)
      PROVE  ResetBacked'
  BY <1>6 DEF VerifyMake
<1>7. ASSUME NEW w \in Writers, WriteStep(w)
      PROVE  ResetBacked'
  BY <1>7 DEF WriteStep, ResetStart, ChangeStart, OverrideStart,
              WritePassword, ResetClear
<1>8. ASSUME NEW r \in Requests, Abort(r)
      PROVE  ResetBacked'
  BY <1>8 DEF Abort
<1>9. ASSUME NEW a \in Accounts, RemoveUser(a)
      PROVE  ResetBacked'
  BY <1>9 DEF RemoveUser
<1>10. CASE UNCHANGED vars
  BY <1>10 DEF vars
<1>11. QED
  BY <1>1, <1>2, <1>3, <1>4, <1>5, <1>6, <1>7, <1>8, <1>9, <1>10
     DEF Next, AskStep, VerifyStep

\* A verify that goes on has deleted a token that the others had not, and no
\* ask inserts the same token again.
LEMMA NextClearInv ==
    TypeOK /\ GivenInv /\ ClearInv /\ [Next]_vars => ClearInv'
<1> SUFFICES ASSUME TypeOK, GivenInv, ClearInv, [Next]_vars PROVE ClearInv'
  OBVIOUS
<1> Fixed
  BY FixedByNext
<1> USE DEF TypeOK, States, Goto, End, Begin, Succeeded, tables, Of, Ids, Fixed,
        GivenInv, ClearInv, OneResetPerToken
<1>1. ASSUME NEW q \in Asks, AskStart(q) \/ ResendStart(q) \/ RegisterAsk(q) \/ AskFind(q)
      PROVE  ClearInv'
  BY <1>1 DEF AskStart, ResendStart, RegisterAsk, AskFind
<1>2. ASSUME NEW q \in Asks, AskMake(q)
      PROVE  ClearInv'
  BY <1>2 DEF AskMake
<1>3. ASSUME NEW q \in Asks, AskDraw(q) \/ AskCommit(q)
      PROVE  ClearInv'
  BY <1>3 DEF AskDraw, AskCommit
<1>4. ASSUME NEW v \in Verifies, VerifyToken(v) \/ VerifyCode(v) \/ VerifyMark(v)
      PROVE  ClearInv'
  BY <1>4 DEF VerifyToken, VerifyCode, VerifyMark
<1>5. ASSUME NEW v \in Verifies, VerifyClear(v) \/ VerifyFind(v) \/ RegisterVerify(v)
                                  \/ RegisterMark(v)
      PROVE  ClearInv'
  BY <1>5 DEF VerifyClear, VerifyFind, RegisterVerify, RegisterMark
<1>6. ASSUME NEW v \in Verifies, VerifyMake(v)
      PROVE  ClearInv'
  BY <1>6 DEF VerifyMake
<1>7. ASSUME NEW w \in Writers, WriteStep(w)
      PROVE  ClearInv'
  BY <1>7 DEF WriteStep, ResetStart, ChangeStart, OverrideStart,
              WritePassword, ResetClear
<1>8. ASSUME NEW r \in Requests, Abort(r)
      PROVE  ClearInv'
  BY <1>8 DEF Abort
<1>9. ASSUME NEW a \in Accounts, RemoveUser(a)
      PROVE  ClearInv'
  BY <1>9 DEF RemoveUser
<1>10. CASE UNCHANGED vars
  BY <1>10 DEF vars
<1>11. QED
  BY <1>1, <1>2, <1>3, <1>4, <1>5, <1>6, <1>7, <1>8, <1>9, <1>10
     DEF Next, AskStep, VerifyStep

\* A reset that succeeds has deleted its token, so one that begins later is
\* given another.
LEMMA NextResetInv ==
    TypeOK /\ RowsInv /\ GivenInv /\ ResetInv /\ [Next]_vars => ResetInv'
<1> SUFFICES ASSUME TypeOK, RowsInv, GivenInv, ResetInv, [Next]_vars PROVE ResetInv'
  OBVIOUS
<1> Fixed
  BY FixedByNext
<1> USE DEF TypeOK, States, Goto, End, Begin, Succeeded, tables, Of, Ids, Fixed,
        RowsInv, GivenInv, ResetInv
<1>1. ASSUME NEW q \in Asks, AskStart(q) \/ ResendStart(q) \/ RegisterAsk(q) \/ AskFind(q)
      PROVE  ResetInv'
  BY <1>1 DEF AskStart, ResendStart, RegisterAsk, AskFind
<1>2. ASSUME NEW q \in Asks, AskMake(q)
      PROVE  ResetInv'
  BY <1>2 DEF AskMake
<1>3. ASSUME NEW q \in Asks, AskDraw(q) \/ AskCommit(q)
      PROVE  ResetInv'
  BY <1>3 DEF AskDraw, AskCommit
<1>4. ASSUME NEW v \in Verifies, VerifyToken(v) \/ VerifyCode(v) \/ VerifyMark(v)
      PROVE  ResetInv'
  BY <1>4 DEF VerifyToken, VerifyCode, VerifyMark
<1>5. ASSUME NEW v \in Verifies, VerifyClear(v) \/ VerifyFind(v) \/ RegisterVerify(v)
                                  \/ RegisterMark(v)
      PROVE  ResetInv'
  BY <1>5 DEF VerifyClear, VerifyFind, RegisterVerify, RegisterMark
<1>6. ASSUME NEW v \in Verifies, VerifyMake(v)
      PROVE  ResetInv'
  BY <1>6 DEF VerifyMake
<1>7. ASSUME NEW w \in Writers, WriteStep(w)
      PROVE  ResetInv'
  BY <1>7 DEF WriteStep, ResetStart, ChangeStart, OverrideStart,
              WritePassword, ResetClear
<1>8. ASSUME NEW r \in Requests, Abort(r)
      PROVE  ResetInv'
  BY <1>8 DEF Abort
<1>9. ASSUME NEW a \in Accounts, RemoveUser(a)
      PROVE  ResetInv'
  BY <1>9 DEF RemoveUser
<1>10. CASE UNCHANGED vars
  BY <1>10 DEF vars
<1>11. QED
  BY <1>1, <1>2, <1>3, <1>4, <1>5, <1>6, <1>7, <1>8, <1>9, <1>10
     DEF Next, AskStep, VerifyStep

\* A request reads an argument, a code or the codes to replace in a step of
\* its own.
LEMMA NextUnreadInv ==
    TypeOK /\ UnreadInv /\ [Next]_vars => UnreadInv'
<1> SUFFICES ASSUME TypeOK, UnreadInv, [Next]_vars PROVE UnreadInv'
  OBVIOUS
<1> USE DEF TypeOK, States, Goto, End, Begin, tables, Of, UnreadInv
<1>1. ASSUME NEW q \in Asks, AskStep(q) PROVE UnreadInv'
  BY <1>1 DEF AskStep, AskStart, ResendStart, RegisterAsk, AskFind, AskMake, AskDraw,
              AskCommit
<1>2. ASSUME NEW v \in Verifies, VerifyStep(v) PROVE UnreadInv'
  BY <1>2 DEF VerifyStep, VerifyToken, VerifyCode, VerifyMark, VerifyClear, VerifyFind,
              VerifyMake, RegisterVerify, RegisterMark
<1>3. ASSUME NEW w \in Writers, WriteStep(w) PROVE UnreadInv'
  BY <1>3 DEF WriteStep, ResetStart, ChangeStart, OverrideStart, WritePassword,
              ResetClear
<1>4. ASSUME NEW r \in Requests, Abort(r) PROVE UnreadInv'
  BY <1>4 DEF Abort
<1>5. ASSUME NEW a \in Accounts, RemoveUser(a) PROVE UnreadInv'
  BY <1>5 DEF RemoveUser
<1>6. CASE UNCHANGED vars
  BY <1>6 DEF vars
<1>7. QED
  BY <1>1, <1>2, <1>3, <1>4, <1>5, <1>6 DEF Next

\* Inserting a row adds its id.
LEMMA IdsOfInsert ==
    ASSUME NEW T, NEW k, NEW a
    PROVE  Ids(T \cup {[id |-> k, account |-> a]}) = Ids(T) \cup {k}
<1>1. [id |-> k, account |-> a].id = k
  OBVIOUS
<1>2. QED
  BY <1>1 DEF Ids

\* So do the inserts of an ask and of a verify.
LEMMA IdsOfMake ==
    /\ \A q \in Asks : AskMake(q) => Ids(tokens') = Ids(tokens) \cup {q}
    /\ \A v \in Verifies : VerifyMake(v) => Ids(resets') = Ids(resets) \cup {v}
<1>1. ASSUME NEW q \in Asks, AskMake(q) PROVE Ids(tokens') = Ids(tokens) \cup {q}
  <2>1. tokens' = tokens \cup {[id |-> q, account |-> acct[q]]}
    BY <1>1 DEF AskMake
  <2>2. Ids(tokens \cup {[id |-> q, account |-> acct[q]]}) = Ids(tokens) \cup {q}
    BY IdsOfInsert
  <2>3. QED
    BY <2>1, <2>2
<1>2. ASSUME NEW v \in Verifies, VerifyMake(v) PROVE Ids(resets') = Ids(resets) \cup {v}
  <2>1. resets' = resets \cup {[id |-> v, account |-> acct[v]]}
    BY <1>2 DEF VerifyMake
  <2>2. Ids(resets \cup {[id |-> v, account |-> acct[v]]}) = Ids(resets) \cup {v}
    BY IdsOfInsert
  <2>3. QED
    BY <2>1, <2>2
<1>3. QED
  BY <1>1, <1>2

\* A token goes with its account, or with the verify that deletes it.
LEMMA NextAskedInv ==
    TypeOK /\ RowsInv /\ UnreadInv /\ AskedInv /\ [Next]_vars => AskedInv'
<1> SUFFICES ASSUME TypeOK, RowsInv, UnreadInv, AskedInv, [Next]_vars PROVE AskedInv'
  OBVIOUS
<1> Fixed
  BY FixedByNext
<1> USE DEF TypeOK, States, Goto, End, Begin, tables, Of, Ids, Fixed, RowsInv, UnreadInv,
        AskedInv
<1>1. ASSUME NEW q \in Asks, AskStart(q) \/ ResendStart(q) \/ RegisterAsk(q)
      PROVE  AskedInv'
  BY <1>1 DEF AskStart, ResendStart, RegisterAsk, TokenThere
<1>2. ASSUME NEW q \in Asks, AskFind(q) PROVE AskedInv'
  <2>1. tokens' = tokens /\ users' = users /\ acct' = acct
    BY <1>2 DEF AskFind
  <2>2. \A r \in Requests : r # q => pc'[r] = pc[r] /\ tok'[r] = tok[r]
    BY <1>2 DEF AskFind
  <2>3. ASSUME NEW k, TokenThere(k) PROVE TokenThere(k)'
    BY <2>1, <2>2, <2>3 DEF TokenThere
  <2>4. \/ pc'[q] = "make"
        \/ \E t \in tokens : t.account = acct[q] /\ tok'[q] = t.id
    BY <1>2 DEF AskFind
  <2>5. \A t \in tokens : TokenThere(t.id) /\ pc'[t.id] # "idle"
    BY DEF TokenThere
  <2>6. QED
    BY <2>1, <2>2, <2>3, <2>4, <2>5
<1>3. ASSUME NEW q \in Asks, AskMake(q) PROVE AskedInv'
  <2>1. /\ tokens' = tokens \cup {[id |-> q, account |-> acct[q]]}
        /\ tok'[q] = q /\ pc'[q] = "draw" /\ users' = users /\ acct' = acct
    BY <1>3 DEF AskMake
  <2>2. \A r \in Requests : r # q => pc'[r] = pc[r] /\ tok'[r] = tok[r]
    BY <1>3 DEF AskMake
  <2>3. ASSUME NEW k, TokenThere(k) PROVE TokenThere(k)'
    BY <2>1, <2>2, <2>3 DEF TokenThere
  <2>4. TokenThere(q)'
    <3> HIDE DEF Ids
    <3>1. Ids(tokens') = Ids(tokens) \cup {q}
      BY <1>3, IdsOfMake
    <3>2. QED
      BY <3>1 DEF TokenThere
  <2>5. QED
    BY <2>1, <2>2, <2>3, <2>4
<1>4. ASSUME NEW q \in Asks, AskDraw(q) \/ AskCommit(q) PROVE AskedInv'
  BY <1>4 DEF AskDraw, AskCommit, TokenThere
<1>5. ASSUME NEW v \in Verifies, VerifyToken(v) \/ VerifyCode(v) \/ VerifyMark(v)
      PROVE  AskedInv'
  BY <1>5 DEF VerifyToken, VerifyCode, VerifyMark, TokenThere
<1>6. ASSUME NEW v \in Verifies, VerifyClear(v) PROVE AskedInv'
  BY <1>6 DEF VerifyClear, TokenThere
<1>7. ASSUME NEW v \in Verifies, VerifyFind(v) \/ VerifyMake(v) \/ RegisterVerify(v)
                                  \/ RegisterMark(v)
      PROVE  AskedInv'
  BY <1>7 DEF VerifyFind, VerifyMake, RegisterVerify, RegisterMark, TokenThere
<1>8. ASSUME NEW w \in Writers, WriteStep(w) PROVE AskedInv'
  BY <1>8 DEF WriteStep, ResetStart, ChangeStart, OverrideStart, WritePassword,
              ResetClear, TokenThere
<1>9. ASSUME NEW r \in Requests, Abort(r) PROVE AskedInv'
  BY <1>9 DEF Abort, TokenThere
<1>10. ASSUME NEW a \in Accounts, RemoveUser(a) PROVE AskedInv'
  BY <1>10 DEF RemoveUser, TokenThere
<1>11. CASE UNCHANGED vars
  BY <1>11 DEF vars, TokenThere
<1>12. QED
  BY <1>1, <1>2, <1>3, <1>4, <1>5, <1>6, <1>7, <1>8, <1>9, <1>10, <1>11
     DEF Next, AskStep, VerifyStep

\* A code stops being live in a commit that has drawn it, in the mark of a
\* verify that has read it, or with its account.
LEMMA NextSentInv ==
    TypeOK /\ UnreadInv /\ SentInv /\ [Next]_vars => SentInv'
<1> SUFFICES ASSUME TypeOK, UnreadInv, SentInv, [Next]_vars PROVE SentInv'
  OBVIOUS
<1> Fixed
  BY FixedByNext
<1> USE DEF TypeOK, States, Goto, End, Begin, tables, Of, Fixed, UnreadInv, SentInv
<1>1. ASSUME NEW q \in Asks, AskStep(q) PROVE SentInv'
  <2>1. CASE AskStart(q) \/ ResendStart(q) \/ RegisterAsk(q) \/ AskFind(q) \/ AskMake(q)
    BY <2>1 DEF AskStart, ResendStart, RegisterAsk, AskFind, AskMake
  <2>2. CASE AskDraw(q)
    BY <2>2 DEF AskDraw
  <2>3. CASE AskCommit(q)
    BY <2>3 DEF AskCommit
  <2>4. QED
    BY <1>1, <2>1, <2>2, <2>3 DEF AskStep
<1>2. ASSUME NEW v \in Verifies, VerifyStep(v) PROVE SentInv'
  BY <1>2 DEF VerifyStep, VerifyToken, VerifyCode, VerifyMark, VerifyClear, VerifyFind,
              VerifyMake, RegisterVerify, RegisterMark
<1>3. ASSUME NEW w \in Writers, WriteStep(w) PROVE SentInv'
  BY <1>3 DEF WriteStep, ResetStart, ChangeStart, OverrideStart, WritePassword,
              ResetClear
<1>4. ASSUME NEW r \in Requests, Abort(r) PROVE SentInv'
  BY <1>4 DEF Abort
<1>5. ASSUME NEW a \in Accounts, RemoveUser(a) PROVE SentInv'
  BY <1>5 DEF RemoveUser
<1>6. CASE UNCHANGED vars
  BY <1>6 DEF vars
<1>7. QED
  BY <1>1, <1>2, <1>3, <1>4, <1>5, <1>6 DEF Next

\* A reset token is found or inserted for the account of its verify, and goes
\* with that account or with the reset that deletes it.
LEMMA NextVerifiedInv ==
    TypeOK /\ RowsInv /\ ResetBacked /\ VerifiedInv /\ [Next]_vars => VerifiedInv'
<1> SUFFICES ASSUME TypeOK, RowsInv, ResetBacked, VerifiedInv, [Next]_vars
             PROVE  VerifiedInv'
  OBVIOUS
<1> Fixed
  BY FixedByNext
<1>0. \A t \in resets : acct[t.id] = t.account
  BY DEF ResetBacked, Backed
<1> USE DEF TypeOK, States, Goto, End, Begin, tables, Of, Ids, Fixed, RowsInv, VerifiedInv
<1>1. ASSUME NEW q \in Asks, AskStep(q) PROVE VerifiedInv'
  BY <1>1 DEF AskStep, AskStart, ResendStart, RegisterAsk, AskFind, AskMake, AskDraw,
              AskCommit
<1>2. ASSUME NEW v \in Verifies, VerifyToken(v) \/ VerifyCode(v) \/ VerifyMark(v)
                                  \/ VerifyClear(v) \/ RegisterVerify(v) \/ RegisterMark(v)
      PROVE  VerifiedInv'
  BY <1>2 DEF VerifyToken, VerifyCode, VerifyMark, VerifyClear, RegisterVerify,
              RegisterMark
<1>3. ASSUME NEW v \in Verifies, VerifyFind(v) PROVE VerifiedInv'
  BY <1>0, <1>3 DEF VerifyFind
<1>4. ASSUME NEW v \in Verifies, VerifyMake(v) PROVE VerifiedInv'
  <2> HIDE DEF Ids
  <2>1. Ids(resets') = Ids(resets) \cup {v} /\ users' = users /\ acct' = acct
    BY <1>4, IdsOfMake DEF VerifyMake
  <2>2. got'[v] = v /\ pc'[v] \in {"done", "failed"}
    BY <1>4 DEF VerifyMake
  <2>3. /\ \A r \in Requests : r # v => pc'[r] = pc[r] /\ got'[r] = got[r]
        /\ tok' = tok
    BY <1>4 DEF VerifyMake
  <2>4. v \in Ids(resets') /\ \A k \in Ids(resets) : k \in Ids(resets')
    BY <2>1
  <2>5. QED
    BY <2>1, <2>2, <2>3, <2>4
<1>5. ASSUME NEW w \in Writers, WriteStep(w) PROVE VerifiedInv'
  <2>1. CASE w \in Resets /\ ResetClear(w)
    BY <2>1 DEF ResetClear
  <2>2. CASE ~ (w \in Resets /\ ResetClear(w))
    BY <1>5, <2>2 DEF WriteStep, ResetStart, ChangeStart, OverrideStart, WritePassword
  <2>3. QED
    BY <2>1, <2>2
<1>6. ASSUME NEW r \in Requests, Abort(r) PROVE VerifiedInv'
  BY <1>6 DEF Abort
<1>7. ASSUME NEW a \in Accounts, RemoveUser(a) PROVE VerifiedInv'
  BY <1>0, <1>7 DEF RemoveUser
<1>8. CASE UNCHANGED vars
  BY <1>8 DEF vars
<1>9. QED
  BY <1>1, <1>2, <1>3, <1>4, <1>5, <1>6, <1>7, <1>8 DEF Next, AskStep, VerifyStep

\* Whoever writes a password has not been answered, so nobody has it in its
\* history.
LEMMA NextWrittenInv ==
    TypeOK /\ GivenInv /\ UnreadInv /\ WrittenInv /\ [Next]_vars => WrittenInv'
<1> SUFFICES ASSUME TypeOK, GivenInv, UnreadInv, WrittenInv, [Next]_vars
             PROVE  WrittenInv'
  OBVIOUS
<1> Fixed
  BY FixedByNext
<1>0. \A r \in Requests : before[r] \subseteq Succeeded
  BY DEF GivenInv
<1> USE DEF TypeOK, States, Goto, End, Begin, tables, Fixed, UnreadInv, WrittenInv
<1>1. ASSUME NEW q \in Asks, AskStep(q) PROVE WrittenInv'
  BY <1>1 DEF AskStep, AskStart, ResendStart, RegisterAsk, AskFind, AskMake, AskDraw,
              AskCommit
<1>2. ASSUME NEW v \in Verifies, VerifyStep(v) PROVE WrittenInv'
  BY <1>2 DEF VerifyStep, VerifyToken, VerifyCode, VerifyMark, VerifyClear, VerifyFind,
              VerifyMake, RegisterVerify, RegisterMark
<1>3. ASSUME NEW w \in Writers, WriteStep(w) PROVE WrittenInv'
  <2>1. CASE w \in Resets /\ ResetStart(w)
    BY <2>1 DEF ResetStart
  <2>2. CASE w \in Changes /\ ChangeStart(w)
    BY <2>2 DEF ChangeStart
  <2>3. CASE w \in Overrides /\ OverrideStart(w)
    BY <2>3 DEF OverrideStart
  <2>4. CASE WritePassword(w)
    BY <1>0, <2>4 DEF WritePassword, Succeeded
  <2>5. CASE w \in Resets /\ ResetClear(w)
    BY <2>5 DEF ResetClear
  <2>6. QED
    BY <1>3, <2>1, <2>2, <2>3, <2>4, <2>5 DEF WriteStep
<1>4. ASSUME NEW r \in Requests, Abort(r) PROVE WrittenInv'
  BY <1>4 DEF Abort
<1>5. ASSUME NEW a \in Accounts, RemoveUser(a) PROVE WrittenInv'
  BY <1>5 DEF RemoveUser
<1>6. CASE UNCHANGED vars
  BY <1>6 DEF vars
<1>7. QED
  BY <1>1, <1>2, <1>3, <1>4, <1>5, <1>6 DEF Next

-----------------------------------------------------------------------------
\* Theorems

\* IInv is an invariant of the forgotten-password handlers.
THEOREM Inductive == Spec => []IInv
<1>1. Init => IInv
  BY InitIInv
<1>2. IInv /\ [Next]_vars => IInv'
  BY NextTypeOK, NextRowsInv, NextGivenInv, NextCodeInv, NextResetBacked, NextClearInv,
     NextResetInv, NextUnreadInv, NextAskedInv, NextSentInv, NextVerifiedInv,
     NextWrittenInv DEF IInv
<1>3. QED
  BY <1>1, <1>2, PTL DEF Spec

\* Every reset token, and every reset under way, has a used code behind it.
THEOREM ResetBackedHolds == Spec => []ResetBacked
<1>1. IInv => ResetBacked
  BY DEF IInv
<1>2. QED
  BY <1>1, Inductive, PTL

\* One forgetPassword token lets at most one verify go on.
THEOREM OneResetPerTokenHolds == Spec => []OneResetPerToken
<1>1. IInv => OneResetPerToken
  BY DEF IInv, ClearInv
<1>2. QED
  BY <1>1, Inductive, PTL

\* Of two resets one after the other, at most one succeeds with a token.
THEOREM ResetOnceInOrderHolds == Spec => []ResetOnceInOrder
<1>1. IInv => ResetOnceInOrder
  <2> SUFFICES ASSUME IInv, NEW r \in Resets, NEW s \in Resets, pc[r] = "done",
                      s \in before[r]
               PROVE  tok[r] # tok[s]
    BY DEF ResetOnceInOrder
  <2> QED
    BY DEF IInv, ResetInv
<1>2. QED
  BY <1>1, Inductive, PTL

\* A caller who was answered finds the token, the code and the reset token it
\* was told of, unless a later call has used or replaced them.
THEOREM AnsweredGoesOnHolds == Spec => []AnsweredGoesOn
<1>1. IInv => AnsweredGoesOn
  BY DEF IInv, AskedInv, TokenThere, SentInv, VerifiedInv, AnsweredGoesOn
<1>2. QED
  BY <1>1, Inductive, PTL

\* No call that was answered leaves a password that an earlier one had set.
THEOREM PasswordTakesEffectHolds == Spec => []PasswordTakesEffect
<1>1. IInv => PasswordTakesEffect
  BY DEF IInv, WrittenInv, PasswordTakesEffect
<1>2. QED
  BY <1>1, Inductive, PTL

\* The write of a change follows its read, and what came between had not been
\* answered when it began.
LEMMA ChangeWrites ==
    ASSUME IInv, Next,
           NEW a \in Accounts, NEW c \in Changes, password[a] # c, password'[a] = c
    PROVE  password[a] = got[c] \/ password[a] \notin before[c] \cup {None}
<1>1. WritePassword(c) /\ acct[c] = a
  <2>1. PICK w \in Writers : WritePassword(w)
    BY DEF IInv, TypeOK, Next, AskStep, AskStart, ResendStart, RegisterAsk, AskFind, AskMake,
           AskDraw, AskCommit, VerifyStep, VerifyToken, VerifyCode, VerifyMark, VerifyClear,
           VerifyFind, VerifyMake, RegisterVerify, RegisterMark, WriteStep, ResetStart,
           ChangeStart, OverrideStart, ResetClear, Abort, RemoveUser, tables
  <2>2. QED
    BY <2>1 DEF IInv, TypeOK, WritePassword
<1>2. QED
  BY <1>1 DEF IInv, WrittenInv, WritePassword

\* A change overwrites the password it compared with the old one, or one that
\* an overlapping call has set since.
THEOREM ChangesWhatItReadHolds == Spec => ChangesWhatItRead
<1>1. IInv /\ [Next]_vars =>
        [\A a \in Accounts : \A c \in Changes :
            password[a] # c /\ password'[a] = c =>
               password[a] = got[c] \/ password[a] \notin before[c] \cup {None}]_vars
  BY ChangeWrites
<1>2. QED
  BY <1>1, Inductive, PTL DEF Spec, ChangesWhatItRead

-----------------------------------------------------------------------------
\* The promise of OneTimeCode

\* A create draws codes of its own account, which keep their account.
LEMMA NextHitInv ==
    IInv /\ HitInv /\ [Next]_vars => HitInv'
<1> SUFFICES ASSUME IInv, HitInv, [Next]_vars PROVE HitInv'
  OBVIOUS
<1>0. TypeOK /\ UnreadInv /\ RowsInv /\ Fixed
  BY FixedByNext DEF IInv
<1>1. ASSUME NEW q \in Asks, hit'[q] = hit[q] PROVE \A d \in hit'[q] : Ended(d)' /\ acct'[d] = acct'[q]
  BY <1>0, <1>1 DEF TypeOK, UnreadInv, Fixed, HitInv, Ended
<1>2. ASSUME NEW q \in Asks, AskDraw(q) PROVE HitInv'
  <2>1. hit' = [hit EXCEPT ![q] = {d \in live : acct[d] = acct[q]}] /\ acct' = acct
    BY <1>2 DEF AskDraw
  <2>2. \A d \in live : Ended(d)'
    BY <1>0 DEF TypeOK, RowsInv, Fixed, Ended
  <2>3. \A d \in hit'[q] : Ended(d)' /\ acct'[d] = acct'[q]
    BY <1>0, <2>1, <2>2 DEF TypeOK
  <2>4. \A p \in Asks : p # q => hit'[p] = hit[p]
    BY <1>0, <2>1 DEF TypeOK
  <2>5. QED
    BY <1>1, <2>3, <2>4 DEF HitInv
<1>3. CASE ~ \E q \in Asks : AskDraw(q)
  <2>1. hit' = hit
    BY <1>3 DEF Next, vars, AskStep, AskStart, ResendStart, RegisterAsk, AskFind, AskMake,
           AskCommit, VerifyStep, VerifyToken, VerifyCode, VerifyMark, VerifyClear,
           VerifyFind, VerifyMake, RegisterVerify, RegisterMark, WriteStep, ResetStart,
           ChangeStart, OverrideStart, WritePassword, ResetClear, Abort, RemoveUser
  <2>2. QED
    BY <1>1, <2>1 DEF HitInv
<1>4. QED
  BY <1>2, <1>3

\* A verify is marked in the step that uses up the code it has found.
LEMMA NextMarkedInv ==
    IInv /\ MarkedInv /\ [HNext]_<<vars, marked>> => MarkedInv'
<1> SUFFICES ASSUME IInv, MarkedInv, [HNext]_<<vars, marked>> PROVE MarkedInv'
  OBVIOUS
<1>0. TypeOK /\ UnreadInv
  BY DEF IInv
<1> USE <1>0 DEF TypeOK, States, Goto, End, Begin, tables, UnreadInv, MarkedInv, Marks, HNext
<1>1. ASSUME HNext, NEW q \in Asks, AskStep(q) PROVE MarkedInv'
  BY <1>1 DEF AskStep, AskStart, ResendStart, RegisterAsk, AskFind, AskMake, AskDraw,
              AskCommit
<1>2. ASSUME HNext, NEW v \in Verifies, VerifyStep(v) PROVE MarkedInv'
  <2>1. CASE VerifyToken(v) \/ VerifyCode(v) \/ VerifyMark(v)
    BY <1>2, <2>1 DEF VerifyToken, VerifyCode, VerifyMark
  <2>2. CASE VerifyClear(v) \/ VerifyFind(v) \/ VerifyMake(v)
    BY <1>2, <2>2 DEF VerifyClear, VerifyFind, VerifyMake
  <2>3. CASE RegisterVerify(v) \/ RegisterMark(v)
    BY <1>2, <2>3 DEF RegisterVerify, RegisterMark
  <2>4. QED
    BY <1>2, <2>1, <2>2, <2>3 DEF VerifyStep
<1>3. ASSUME HNext, NEW w \in Writers, WriteStep(w) PROVE MarkedInv'
  BY <1>3 DEF WriteStep, ResetStart, ChangeStart, OverrideStart, WritePassword,
              ResetClear
<1>4. ASSUME HNext, NEW r \in Requests, Abort(r) PROVE MarkedInv'
  BY <1>4 DEF Abort
<1>5. ASSUME HNext, NEW a \in Accounts, RemoveUser(a) PROVE MarkedInv'
  BY <1>5 DEF RemoveUser
<1>6. CASE UNCHANGED <<vars, marked>>
  BY <1>6 DEF vars
<1>7. QED
  BY <1>1, <1>2, <1>3, <1>4, <1>5, <1>6 DEF HNext, Next

\* The history variable adds no behaviour, and HInv holds of it.
THEOREM HInductive == HSpec => []HInv
<1>1. HInit => Init /\ HitInv /\ MarkedInv
  BY DEF HInit, Init, HitInv, MarkedInv
<1>2. [HNext]_<<vars, marked>> => [Next]_vars
  BY DEF HNext
<1>3. HSpec => []IInv
  BY <1>1, <1>2, Inductive, PTL DEF HSpec, Spec
<1>4. IInv /\ HitInv /\ MarkedInv /\ [HNext]_<<vars, marked>> => HitInv' /\ MarkedInv'
  BY <1>2, NextHitInv, NextMarkedInv
<1>5. IInv /\ HitInv /\ MarkedInv <=> HInv
  BY DEF HInv
<1>6. QED
  BY <1>1, <1>3, <1>4, <1>5, PTL DEF HSpec

\* The empty tables and the idle calls map to the initial state.
LEMMA InitMaps == HInit => OTC!Init
<1> SUFFICES ASSUME HInit PROVE OTC!Init
  OBVIOUS
<1>1. /\ Owner = [q \in Asks |-> None] /\ live = {} /\ GoneIds = {}
      /\ Candidate = [v \in Verifies |-> {}] /\ Outcome = [v \in Verifies |-> "none"]
      /\ Caller = [v \in Verifies |-> None]
  BY DEF HInit, Init, Owner, Ended, GoneIds, Caller, Candidate, Outcome
<1>2. QED
  BY <1>1 DEF OTC!Init

\* A step that ends no ask and touches no code shows nothing of the codes ...
LEMMA CodesStay ==
    ASSUME live' = live,
           \A q \in Asks : (Ended(q)' <=> Ended(q)) /\ (Ended(q) => acct'[q] = acct[q])
    PROVE  UNCHANGED <<Owner, live, GoneIds>>
  BY DEF Owner, GoneIds

\* ... and one that finds and marks none shows nothing of the calls.
LEMMA CallsStay ==
    ASSUME HNext, code' = code, Marks = {},
           \A v \in Verifies :
              \/ pc'[v] = pc[v]
              \/ pc[v] \notin {"mark", "take"} /\ (code[v] = None \/ v \in marked),
           \A v \in Verifies : code[v] # None => acct'[v] = acct[v]
    PROVE  UNCHANGED <<Caller, Candidate, Outcome>>
<1>1. marked' = marked
  BY DEF HNext
<1>2. \A v \in Verifies : Outcome'[v] = Outcome[v]
  BY <1>1 DEF Outcome
<1>3. QED
  BY <1>2 DEF Outcome, Caller, Candidate

\* The steps of an ask up to its commit show nothing.
LEMMA AskMaps ==
    ASSUME HInv, HNext, NEW q \in Asks,
           AskStart(q) \/ ResendStart(q) \/ RegisterAsk(q) \/ AskFind(q) \/ AskMake(q) \/ AskDraw(q)
    PROVE  UNCHANGED OTC!vars
<1> USE DEF HInv, IInv, TypeOK, States, Goto, Begin, tables
<1>1. live' = live /\ code' = code /\ \A r \in Requests : r # q => pc'[r] = pc[r] /\ acct'[r] = acct[r]
  BY DEF AskStart, ResendStart, RegisterAsk, AskFind, AskMake, AskDraw
<1>2. ~Ended(q) /\ ~Ended(q)'
  BY DEF AskStart, ResendStart, RegisterAsk, AskFind, AskMake, AskDraw, Ended
<1>3. UNCHANGED <<Owner, live, GoneIds>>
  BY <1>1, <1>2, CodesStay DEF Ended
<1>4. UNCHANGED <<Caller, Candidate, Outcome>>
  <2>1. \A v \in Verifies : pc'[v] = pc[v]
    BY <1>1
  <2>2. Marks = {}
    BY <2>1 DEF Marks
  <2>3. QED
    BY <1>1, <2>1, <2>2, CallsStay
<1>5. QED
  BY <1>3, <1>4 DEF OTC!vars

\* The commit is the issue; what it retires are codes of its account.
LEMMA AskCommitMaps ==
    ASSUME HInv, HNext, NEW q \in Asks, AskCommit(q)
    PROVE  OTC!Next
<1> DEFINE R == hit[q] \cap live
<1> USE DEF HInv, IInv, TypeOK, States, Goto, End
<1>1. /\ live' = (live \ hit[q]) \cup {q} /\ code' = code /\ acct' = acct
      /\ pc[q] = "commit" /\ acct[q] \in Accounts
      /\ Ended(q)' /\ ~Ended(q) /\ \A r \in Requests : r # q => pc'[r] = pc[r]
  BY DEF AskCommit, Ended
<1>2. \A d \in live : Ended(d)
  BY DEF RowsInv, Ended
<1>3. q \notin hit[q] /\ q \notin live
  BY <1>1, <1>2 DEF HitInv
<1>4. Owner' = [Owner EXCEPT ![q] = acct[q]]
  BY <1>1 DEF Owner, Ended
<1>5. R \in SUBSET {d \in live : Owner[d] = acct[q]}
  BY <1>2 DEF HitInv, Owner
<1>6. live' = (live \ R) \cup {q}
  BY <1>1
<1>7. GoneIds' = GoneIds \cup R
  <2>1. \A d \in Asks : Ended(d)' <=> Ended(d) \/ d = q
    BY <1>1 DEF Ended
  <2>2. QED
    BY <1>1, <1>2, <1>3, <2>1 DEF GoneIds
<1>8. UNCHANGED <<Caller, Candidate, Outcome>>
  <2>1. \A v \in Verifies : pc'[v] = pc[v]
    BY <1>1
  <2>2. Marks = {}
    BY <2>1 DEF Marks
  <2>3. QED
    BY <1>1, <2>1, <2>2, CallsStay
<1>9. q \notin live \cup GoneIds
  BY <1>1, <1>3 DEF GoneIds
<1>10. OTC!Issue(q, acct[q])
  BY <1>4, <1>5, <1>6, <1>7, <1>8, <1>9 DEF OTC!Issue, OTC!Of
<1>11. QED
  BY <1>1, <1>10 DEF OTC!Next

\* A verify presents the code it finds, or has presented nothing.
LEMMA VerifyFindMaps ==
    ASSUME HInv, HNext, NEW v \in Verifies, VerifyToken(v) \/ VerifyCode(v) \/ RegisterVerify(v)
    PROVE  OTC!Next \/ UNCHANGED OTC!vars
<1> USE DEF HInv, IInv, TypeOK, States, Goto, Begin, tables
<1>1. /\ live' = live /\ pc[v] \in {"idle", "code"} /\ code[v] = None /\ v \notin marked
      /\ \A r \in Requests : r # v => pc'[r] = pc[r] /\ acct'[r] = acct[r]
  BY DEF VerifyToken, VerifyCode, RegisterVerify, UnreadInv, MarkedInv
<1>2. UNCHANGED <<Owner, live, GoneIds>>
  BY <1>1, CodesStay DEF Ended
<1>3. Marks = {}
  BY <1>1 DEF Marks
<1>4. CASE code' = code
  <2>1. UNCHANGED <<Caller, Candidate, Outcome>>
    <3>1. \A w \in Verifies : pc'[w] = pc[w] \/ w = v
      BY <1>1
    <3>2. QED
      BY <1>1, <1>3, <1>4, <3>1, CallsStay
  <2>2. QED
    BY <1>2, <2>1 DEF OTC!vars
<1>5. CASE code' # code
  <2>1. PICK d \in live : /\ code' = [code EXCEPT ![v] = d] /\ pc'[v] \in {"mark", "take"}
                          /\ acct'[v] = acct[d]
    BY <1>5 DEF VerifyToken, VerifyCode, RegisterVerify
  <2>2. d # None /\ marked' = marked
    BY <1>3 DEF HNext
  <2>a. /\ acct'[v] \in Accounts
        /\ \A w \in Verifies : code[w] # None => acct'[w] = acct[w]
    BY <1>1, <1>5 DEF VerifyToken, VerifyCode, RegisterVerify, UnreadInv
  <2>b. d \in OTC!Of(acct'[v]) /\ Caller' = [Caller EXCEPT ![v] = acct'[v]]
    <3>1. Owner[d] = acct[d]
      BY DEF RowsInv, Owner, Ended
    <3>2. Caller' = [Caller EXCEPT ![v] = acct'[v]]
      BY <2>1, <2>2, <2>a DEF Caller
    <3>3. QED
      BY <2>1, <3>1, <3>2 DEF OTC!Of
  <2>3. Candidate' = [Candidate EXCEPT ![v] = {d}]
    BY <2>1, <2>2 DEF Candidate
  <2>4. Outcome[v] = "none" /\ Outcome' = [Outcome EXCEPT ![v] = "open"]
    <3>1. Outcome[v] = "none" /\ Outcome'[v] = "open"
      BY <1>1, <2>1, <2>2 DEF Outcome
    <3>2. \A w \in Verifies : w # v => pc'[w] = pc[w] /\ code'[w] = code[w]
      BY <1>1, <2>1
    <3>3. \A w \in Verifies : w # v => Outcome'[w] = Outcome[w]
      BY <2>2, <3>2 DEF Outcome
    <3>4. QED
      BY <3>1, <3>3 DEF Outcome
  <2>5. OTC!Present(v, acct'[v])
    BY <1>2, <2>1, <2>3, <2>4, <2>a, <2>b DEF OTC!Present, OTC!Answer
  <2>6. QED
    BY <2>5, <2>a DEF OTC!Next
<1>6. QED
  BY <1>4, <1>5

\* Marking the code is the acceptance.
LEMMA VerifyMarkMaps ==
    ASSUME HInv, HNext, NEW v \in Verifies, VerifyMark(v) \/ RegisterMark(v)
    PROVE  OTC!Next
<1> USE DEF HInv, IInv, TypeOK, States, Goto
<1>1. /\ live' = live \ {code[v]} /\ code' = code /\ acct' = acct
      /\ pc[v] \in {"mark", "take"} /\ pc'[v] \in {"clear", "taken"}
      /\ \A r \in Requests : r # v => pc'[r] = pc[r]
  BY DEF VerifyMark, RegisterMark
<1>2. code[v] \in Asks /\ code[v] # None /\ Ended(code[v]) /\ v \notin marked
  BY <1>1 DEF MarkedInv, GivenInv, Ended
<1>3. marked' = marked \cup {v}
  BY <1>1 DEF HNext, Marks
<1>4. \A q \in Asks : Ended(q)' <=> Ended(q)
  BY <1>1 DEF Ended
<1>5. Owner' = Owner /\ Caller' = Caller /\ Candidate' = Candidate /\ Candidate[v] = {code[v]}
  BY <1>1, <1>2, <1>4 DEF Owner, Caller, Candidate
<1>6. GoneIds' = GoneIds \cup {code[v]}
  BY <1>1, <1>2, <1>4 DEF GoneIds
<1>7. Outcome[v] = "open" /\ Outcome' = [Outcome EXCEPT ![v] = "accepted"]
  BY <1>1, <1>2, <1>3 DEF Outcome
<1>8. OTC!Accept(v)
  BY <1>1, <1>5, <1>6, <1>7 DEF OTC!Accept, OTC!Retire, OTC!Answer
<1>9. QED
  BY <1>8 DEF OTC!Next

\* What a verify does after its mark, and the writers of the password, show
\* nothing.
LEMMA RestMaps ==
    ASSUME HInv, HNext,
           \/ \E v \in Verifies : VerifyClear(v) \/ VerifyFind(v) \/ VerifyMake(v)
           \/ \E w \in Writers : WriteStep(w)
    PROVE  UNCHANGED OTC!vars
<1> USE DEF HInv, IInv, TypeOK, States, Goto, Begin, End, tables
<1>1. PICK r \in Verifies \cup Writers :
         /\ live' = live /\ code' = code
         /\ \A p \in Requests : p # r => pc'[p] = pc[p] /\ acct'[p] = acct[p]
         /\ r \in Verifies => pc[r] \in {"clear", "find", "make"} /\ acct' = acct
  BY DEF VerifyClear, VerifyFind, VerifyMake, WriteStep, ResetStart, ChangeStart,
         OverrideStart, WritePassword, ResetClear
<1>2. UNCHANGED <<Owner, live, GoneIds>>
  BY <1>1, CodesStay DEF Ended
<1>3. Marks = {}
  BY <1>1 DEF Marks
<1>4. UNCHANGED <<Caller, Candidate, Outcome>>
  <2>1. r \in Verifies => r \in marked /\ pc[r] \notin {"mark", "take"}
    BY <1>1 DEF MarkedInv
  <2>2. \A v \in Verifies : pc'[v] = pc[v] \/ v = r
    BY <1>1
  <2>3. QED
    BY <1>1, <1>3, <2>1, <2>2, CallsStay
<1>5. QED
  BY <1>2, <1>4 DEF OTC!vars

\* A request that ends early is an issue that fails, a call that is refused,
\* or shows nothing.
LEMMA AbortMaps ==
    ASSUME HInv, HNext, NEW r \in Requests, Abort(r)
    PROVE  OTC!Next \/ UNCHANGED OTC!vars
<1> USE DEF HInv, IInv, TypeOK, States, Goto, tables
<1>1. /\ pc[r] \notin {"idle", "done", "taken", "rejected", "failed"} /\ pc' = [pc EXCEPT ![r] = "failed"]
      /\ live' = live /\ acct' = acct /\ code' = code
  BY DEF Abort
<1>2. Marks = {} /\ marked' = marked
  BY <1>1 DEF Marks, HNext
<1>3. CASE r \in Asks
  <2>1. UNCHANGED <<Caller, Candidate, Outcome>>
    <3>1. \A v \in Verifies : pc'[v] = pc[v]
      BY <1>1, <1>3
    <3>2. QED
      BY <1>1, <1>2, <3>1, CallsStay
  <2>2. ~Ended(r) /\ Ended(r)' /\ \A q \in Asks : q # r => (Ended(q)' <=> Ended(q))
    BY <1>1, <1>3 DEF Ended
  <2>3. Owner' = [Owner EXCEPT ![r] = acct[r]]
    BY <1>1, <1>3, <2>2 DEF Owner
  <2>4. r \notin live
    BY <1>3, <2>2 DEF RowsInv, Ended
  <2>5. GoneIds' = GoneIds \cup {r} /\ r \notin GoneIds
    BY <1>1, <1>3, <2>2, <2>4 DEF GoneIds
  <2>6. OTC!Fail(r, acct[r]) /\ acct[r] \in Accounts \cup {None}
    BY <1>1, <2>1, <2>3, <2>4, <2>5 DEF OTC!Fail
  <2>7. QED
    BY <1>3, <2>6 DEF OTC!Next
<1>4. CASE r \notin Asks
  <2>1. UNCHANGED <<Owner, live, GoneIds>>
    BY <1>1, <1>4, CodesStay DEF Ended
  <2>2. CASE r \in Verifies /\ pc[r] \in {"mark", "take"}
    <3>1. Candidate' = Candidate /\ Caller' = Caller
      BY <1>1 DEF Candidate, Caller
    <3>2. r \notin marked /\ code[r] # None
      BY <2>2 DEF MarkedInv
    <3>3. Outcome[r] = "open" /\ Outcome' = [Outcome EXCEPT ![r] = "refused"]
      <4>1. Outcome[r] = "open" /\ Outcome'[r] = "refused"
        BY <1>1, <1>2, <2>2, <3>2 DEF Outcome
      <4>2. \A w \in Verifies : w # r => Outcome'[w] = Outcome[w]
        BY <1>1, <1>2 DEF Outcome
      <4>3. QED
        BY <4>1, <4>2 DEF Outcome
    <3>4. OTC!Refuse(r)
      BY <2>1, <3>1, <3>3 DEF OTC!Refuse, OTC!Answer
    <3>5. QED
      BY <2>2, <3>4 DEF OTC!Next
  <2>3. CASE ~(r \in Verifies /\ pc[r] \in {"mark", "take"})
    <3>1. r \in Verifies => pc[r] \notin {"mark", "take"} /\ (code[r] = None \/ r \in marked)
      BY <1>1, <2>3 DEF MarkedInv
    <3>2. UNCHANGED <<Caller, Candidate, Outcome>>
      <4>1. \A v \in Verifies : pc'[v] = pc[v] \/ v = r
        BY <1>1
      <4>2. QED
        BY <1>1, <1>2, <3>1, <4>1, CallsStay
    <3>3. QED
      BY <2>1, <3>2 DEF OTC!vars
  <2>4. QED
    BY <2>2, <2>3
<1>5. QED
  BY <1>3, <1>4

\* With the user the codes of the account go.
LEMMA RemoveUserMaps ==
    ASSUME HInv, HNext, NEW a \in Accounts, RemoveUser(a)
    PROVE  OTC!Next
<1> USE DEF HInv, IInv, TypeOK
<1>1. live' = {d \in live : acct[d] # a} /\ UNCHANGED <<pc, acct, code>>
  BY DEF RemoveUser
<1>2. \A d \in live : Ended(d)
  BY DEF RowsInv, Ended
<1>3. OTC!Of(a) = {d \in live : acct[d] = a}
  BY <1>2 DEF OTC!Of, Owner
<1>4. live' = live \ OTC!Of(a) /\ GoneIds' = GoneIds \cup OTC!Of(a)
  BY <1>1, <1>2, <1>3 DEF GoneIds, Ended
<1>5. Owner' = Owner
  BY <1>1 DEF Owner, Ended
<1>6. UNCHANGED <<Caller, Candidate, Outcome>>
  <2>1. \A v \in Verifies : pc'[v] = pc[v]
    BY <1>1
  <2>2. Marks = {}
    BY <2>1 DEF Marks
  <2>3. QED
    BY <1>1, <2>1, <2>2, CallsStay
<1>7. OTC!Withdraw(a)
  BY <1>4, <1>5, <1>6 DEF OTC!Withdraw, OTC!Retire
<1>8. QED
  BY <1>7 DEF OTC!Next

\* A step of the handlers is a step of the promise or a stutter.
LEMMA NextMaps == HInv /\ [HNext]_<<vars, marked>> => [OTC!Next]_OTC!vars
<1> SUFFICES ASSUME HInv, [HNext]_<<vars, marked>> PROVE OTC!Next \/ UNCHANGED OTC!vars
  OBVIOUS
<1>1. CASE UNCHANGED <<vars, marked>>
  BY <1>1 DEF vars, tables, OTC!vars, Owner, Ended, GoneIds, Caller, Candidate, Outcome
<1>2. CASE HNext
  BY <1>2, AskMaps, AskCommitMaps, VerifyFindMaps, VerifyMarkMaps, RestMaps, AbortMaps,
     RemoveUserMaps DEF HNext, Next, AskStep, VerifyStep
<1>3. QED
  BY <1>1, <1>2

\* The calls of the forgotten password and of the registration keep the
\* promise of OneTimeCode: a code that was replaced, used or lost with its
\* account is not accepted again but by a call that had found it before.
THEOREM Refines == HSpec => Implements
<1>1. HInit => OTC!Init
  BY InitMaps
<1>2. HInv /\ [HNext]_<<vars, marked>> => [OTC!Next]_OTC!vars
  BY NextMaps
<1>3. QED
  BY <1>1, <1>2, HInductive, PTL DEF HSpec, Implements, OTC!Spec
=============================================================================
