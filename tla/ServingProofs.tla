---------------------------- MODULE ServingProofs ----------------------------
(***************************************************************************)
(* Theorems about Serving, for any requests and any size of the pool.      *)
(***************************************************************************)
EXTENDS ServingInv, FiniteSetTheorems, TLAPS

USE KindsAssumption, ConnectionsAssumption DEF Requests, Goto, outside, Ended, Statements,
    SaveLocal, SaveBucket, Read

-----------------------------------------------------------------------------
\* Counting connections

\* A finite set that gains an element stays finite and gains one at most.
LEMMA AddOne ==
    ASSUME NEW S, IsFiniteSet(S), NEW x
    PROVE  /\ IsFiniteSet(S \cup {x})
           /\ Cardinality(S) \in Nat /\ Cardinality(S \cup {x}) \in Nat
           /\ Cardinality(S \cup {x}) <= Cardinality(S) + 1
  BY FS_AddElement, FS_CardinalityType

\* One that loses elements stays finite and does not grow.
LEMMA RemoveSome ==
    ASSUME NEW S, IsFiniteSet(S), NEW x
    PROVE  /\ IsFiniteSet(S \ {x})
           /\ Cardinality(S) \in Nat /\ Cardinality(S \ {x}) \in Nat
           /\ Cardinality(S \ {x}) <= Cardinality(S)
  BY FS_RemoveElement, FS_CardinalityType

\* A request that only lets go leaves the pool as it was or emptier.
LEMMA PoolReleased ==
    ASSUME PoolInv, InUse <= Connections, NEW r,
           tx' = tx \/ tx' = tx \ {r}, stmt' = stmt \/ stmt' = stmt \ {r}
    PROVE  InUse' <= Connections /\ PoolInv'
<1>1. ASSUME NEW S, IsFiniteSet(S), NEW T, T = S \/ T = S \ {r}
      PROVE  /\ IsFiniteSet(T) /\ Cardinality(S) \in Nat /\ Cardinality(T) \in Nat
             /\ Cardinality(T) <= Cardinality(S)
  <2>1. CASE T = S
    BY <1>1, <2>1, FS_CardinalityType
  <2>2. CASE T = S \ {r}
    BY <1>1, <2>2, RemoveSome
  <2>3. QED
    BY <1>1, <2>1, <2>2
<1>2. /\ IsFiniteSet(tx') /\ Cardinality(tx) \in Nat /\ Cardinality(tx') \in Nat
      /\ Cardinality(tx') <= Cardinality(tx)
  BY <1>1 DEF PoolInv
<1>3. /\ IsFiniteSet(stmt') /\ Cardinality(stmt) \in Nat /\ Cardinality(stmt') \in Nat
      /\ Cardinality(stmt') <= Cardinality(stmt)
  BY <1>1 DEF PoolInv
<1>4. QED
  BY <1>2, <1>3 DEF PoolInv, InUse

\* A request that takes a connection finds one free.
LEMMA PoolTaken ==
    ASSUME PoolInv, InUse < Connections, NEW r,
           \/ tx' = tx \cup {r} /\ stmt' = stmt
           \/ tx' = tx /\ stmt' = stmt \cup {r}
    PROVE  InUse' <= Connections /\ PoolInv'
<1>1. /\ Cardinality(tx) \in Nat /\ Cardinality(stmt) \in Nat
      /\ Cardinality(tx) + Cardinality(stmt) < Connections
  BY FS_CardinalityType DEF PoolInv, InUse
<1>2. /\ IsFiniteSet(tx') /\ IsFiniteSet(stmt')
      /\ Cardinality(tx') \in Nat /\ Cardinality(stmt') \in Nat
      /\ Cardinality(tx') + Cardinality(stmt') <= Cardinality(tx) + Cardinality(stmt) + 1
  <2>1. CASE tx' = tx \cup {r} /\ stmt' = stmt
    <3>1. IsFiniteSet(tx') /\ Cardinality(tx') \in Nat /\ Cardinality(tx') <= Cardinality(tx) + 1
      BY <2>1, AddOne DEF PoolInv
    <3>2. QED
      BY <1>1, <2>1, <3>1 DEF PoolInv
  <2>2. CASE tx' = tx /\ stmt' = stmt \cup {r}
    <3>1. IsFiniteSet(stmt') /\ Cardinality(stmt') \in Nat /\ Cardinality(stmt') <= Cardinality(stmt) + 1
      BY <2>2, AddOne DEF PoolInv
    <3>2. QED
      BY <1>1, <2>2, <3>1 DEF PoolInv
  <2>3. QED
    BY <2>1, <2>2
<1>3. QED
  BY <1>1, <1>2 DEF PoolInv, InUse

-----------------------------------------------------------------------------
\* Types, the pool and the places

States == {"idle", "done", "failed", "lost", "nested", "find", "log", "begin", "commit",
           "save", "saved", "read", "post", "answer"}

\* The part of TypeOK about what is kept, that about the requests.
StoreTypes ==
    /\ driver \in Drivers
    /\ stored \in [Files -> {"nothing", "part", "whole"}]
    /\ rows \subseteq Files
    /\ sent \subseteq Messages /\ logs \subseteq Messages
    /\ file \in [Downloads -> Files]
    /\ answer \in [Downloads \cup Messages -> {"none", "nothing", "part", "whole", "accepted", "refused"}]

CallTypes == pc \in [Requests -> States] /\ tx \subseteq Requests /\ stmt \subseteq Requests

LEMMA TypeParts ==
    PlacesInv => (TypeOK <=> StoreTypes /\ CallTypes /\ InUse <= Connections)
  BY DEF TypeOK, StoreTypes, CallTypes, PlacesInv, States

LEMMA TypePartsNext ==
    PlacesInv' => (TypeOK' <=> StoreTypes' /\ CallTypes' /\ InUse' <= Connections)
  BY DEF TypeOK, StoreTypes, CallTypes, PlacesInv, States

\* The steps of a request: Next without the process.
CallStep ==
    \/ \E r \in Requests :
          \/ Arrive(r) \/ AcquireTx(r) \/ Acquire(r) \/ Timeout(r)
          \/ RunNested(r) \/ Commit(r) \/ Answer(r) \/ Abort(r)
    \/ \E u \in Uploads : Save(u) \/ SaveEnd(u)
    \/ \E d \in Downloads : DownloadFind(d) \/ DownloadRead(d)
    \/ \E m \in Messages : MessageFind(m) \/ Post(m) \/ Log(m)

LEMMA NextMeans == Next => CallStep \/ Restart
  BY DEF Next, Step, CallStep, MetadataFails

\* Each step keeps the places of the requests and their types.
LEMMA PlacesKept ==
    ASSUME CallTypes, PlacesInv, [Next]_vars
    PROVE  CallTypes' /\ PlacesInv'
<1>1. CASE UNCHANGED vars
  BY <1>1 DEF CallTypes, PlacesInv, vars
<1>2. ASSUME NEW r \in Requests, Arrive(r)
      PROVE  CallTypes' /\ PlacesInv'
  BY <1>2 DEF CallTypes, PlacesInv, Arrive, States
<1>3. ASSUME NEW r \in Requests, AcquireTx(r)
      PROVE  CallTypes' /\ PlacesInv'
  BY <1>3 DEF CallTypes, PlacesInv, AcquireTx, States
<1>4. ASSUME NEW r \in Requests, Acquire(r)
      PROVE  CallTypes' /\ PlacesInv'
  BY <1>4 DEF CallTypes, PlacesInv, Acquire, States
<1>5. ASSUME NEW r \in Requests, Timeout(r)
      PROVE  CallTypes' /\ PlacesInv'
  BY <1>5 DEF CallTypes, PlacesInv, Timeout, Fail, States
<1>6. ASSUME NEW r \in Requests, RunNested(r)
      PROVE  CallTypes' /\ PlacesInv'
  BY <1>6 DEF CallTypes, PlacesInv, RunNested, States
<1>7. ASSUME NEW r \in Requests, Commit(r)
      PROVE  CallTypes' /\ PlacesInv'
  BY <1>7 DEF CallTypes, PlacesInv, Commit, Fail, States
<1>8. ASSUME NEW r \in Requests, Answer(r) \/ Abort(r)
      PROVE  CallTypes' /\ PlacesInv'
  BY <1>8 DEF CallTypes, PlacesInv, Answer, Abort, Fail, States
<1>9. ASSUME NEW u \in Uploads, Save(u) \/ SaveEnd(u)
      PROVE  CallTypes' /\ PlacesInv'
  BY <1>9 DEF CallTypes, PlacesInv, Save, SaveEnd, States
<1>10. ASSUME NEW d \in Downloads, DownloadFind(d) \/ DownloadRead(d)
       PROVE  CallTypes' /\ PlacesInv'
  BY <1>10 DEF CallTypes, PlacesInv, DownloadFind, DownloadRead, States
<1>11. ASSUME NEW m \in Messages, MessageFind(m) \/ Post(m) \/ Log(m)
       PROVE  CallTypes' /\ PlacesInv'
  BY <1>11 DEF CallTypes, PlacesInv, MessageFind, Post, Log, States
<1>12. CASE Restart
  BY <1>12 DEF CallTypes, PlacesInv, Restart, States
<1>13. QED
  BY <1>1, <1>2, <1>3, <1>4, <1>5, <1>6, <1>7, <1>8, <1>9, <1>10, <1>11, <1>12, NextMeans
     DEF CallStep

\* No step overdraws the pool.
LEMMA PoolKept ==
    ASSUME PoolInv, InUse <= Connections, [Next]_vars
    PROVE  PoolInv' /\ InUse' <= Connections
<1>1. CASE UNCHANGED vars
  BY <1>1 DEF PoolInv, InUse, vars
<1>2. ASSUME NEW r, AcquireTx(r) \/ Acquire(r)
      PROVE  PoolInv' /\ InUse' <= Connections
  BY <1>2, PoolTaken DEF AcquireTx, Acquire
<1>3. ASSUME NEW r, \/ Arrive(r) \/ Timeout(r) \/ RunNested(r) \/ Commit(r) \/ Answer(r) \/ Abort(r)
                    \/ Save(r) \/ SaveEnd(r) \/ DownloadFind(r) \/ DownloadRead(r)
                    \/ MessageFind(r) \/ Post(r) \/ Log(r)
      PROVE  PoolInv' /\ InUse' <= Connections
  <2>1. (tx' = tx \/ tx' = tx \ {r}) /\ (stmt' = stmt \/ stmt' = stmt \ {r})
    BY <1>3 DEF Arrive, Timeout, RunNested, Commit, Answer, Abort, Fail, Save, SaveEnd,
                DownloadFind, DownloadRead, MessageFind, Post, Log
  <2>2. QED
    BY <2>1, PoolReleased
<1>4. CASE Restart
  BY <1>4, FS_EmptySet DEF Restart, PoolInv, InUse
<1>5. QED
  BY <1>1, <1>2, <1>3, <1>4, NextMeans DEF CallStep

\* What is kept keeps its type.
LEMMA StoreKept ==
    ASSUME StoreTypes, [Next]_vars
    PROVE  StoreTypes'
<1>1. CASE UNCHANGED vars
  BY <1>1 DEF StoreTypes, vars
<1>2. ASSUME NEW r \in Requests,
             \/ Arrive(r) \/ AcquireTx(r) \/ Acquire(r) \/ Timeout(r) \/ RunNested(r)
             \/ Answer(r) \/ Abort(r)
      PROVE  StoreTypes'
  BY <1>2 DEF StoreTypes, Arrive, AcquireTx, Acquire, Timeout, RunNested, Answer, Abort
<1>3. ASSUME NEW r \in Requests, Commit(r)
      PROVE  StoreTypes'
  BY <1>3 DEF StoreTypes, Commit, Files
<1>4. ASSUME NEW u \in Uploads, Save(u) \/ SaveEnd(u)
      PROVE  StoreTypes'
  BY <1>4 DEF StoreTypes, Save, SaveEnd
<1>5. ASSUME NEW d \in Downloads, DownloadFind(d)
      PROVE  StoreTypes'
  BY <1>5 DEF StoreTypes, DownloadFind
<1>6. ASSUME NEW d \in Downloads, DownloadRead(d)
      PROVE  StoreTypes'
  <2>1. stored[file[d]] \in {"nothing", "part", "whole"}
    BY DEF StoreTypes
  <2>2. QED
    BY <1>6, <2>1 DEF StoreTypes, DownloadRead
<1>7. ASSUME NEW m \in Messages, MessageFind(m) \/ Post(m) \/ Log(m)
      PROVE  StoreTypes'
  BY <1>7 DEF StoreTypes, MessageFind, Post, Log
<1>8. CASE Restart
  BY <1>8 DEF StoreTypes, Restart
<1>9. QED
  BY <1>1, <1>2, <1>3, <1>4, <1>5, <1>6, <1>7, <1>8, NextMeans DEF CallStep

-----------------------------------------------------------------------------
\* Files and their rows

\* Where a request may be whose row, or whose log, is written.
Written == {"answer", "done", "failed", "lost"}

\* An upload saves before it has a row and commits what it has saved.
LEMMA FilesKept ==
    ASSUME CallTypes, PlacesInv, StoreTypes, FilesInv, RowHasFile, [Next]_vars
    PROVE  FilesInv' /\ RowHasFile'
<1>u. ASSUME NEW f \in rows
      PROVE  /\ f \in Files /\ f[2] \in Uploads /\ f = <<f[1], f[2]>>
  BY DEF StoreTypes, Files
<1>1. CASE UNCHANGED vars
  BY <1>1 DEF FilesInv, RowHasFile, vars
<1>2. ASSUME NEW r \in Requests,
             \/ Arrive(r) \/ AcquireTx(r) \/ Acquire(r) \/ Timeout(r) \/ RunNested(r)
             \/ Answer(r) \/ Abort(r)
      PROVE  FilesInv' /\ RowHasFile'
  <2>1. UNCHANGED <<driver, stored, rows>>
    BY <1>2 DEF Arrive, AcquireTx, Acquire, Timeout, RunNested, Answer, Abort
  <2>2. ASSUME NEW u \in Uploads
        PROVE  /\ pc[u] \in Written => pc'[u] \in Written
               /\ pc'[u] \in {"answer", "done"} => pc[u] \in {"answer", "done"}
               /\ pc'[u] \in {"begin", "commit"} => pc[u] \in {"begin", "commit"}
    BY <1>2 DEF CallTypes, PlacesInv, Arrive, AcquireTx, Acquire, Timeout, RunNested, Answer,
                Abort, Fail, Written
  <2>3. QED
    BY <1>u, <2>1, <2>2 DEF FilesInv, RowHasFile, Written
<1>3. ASSUME NEW r \in Requests, Commit(r)
      PROVE  FilesInv' /\ RowHasFile'
  <2>1. CASE r \in tx /\ r \in Uploads
    <3>1. /\ rows' = rows \cup {<<driver, r>>} /\ stored' = stored /\ driver' = driver
          /\ pc' = [pc EXCEPT ![r] = "answer"]
      BY <1>3, <2>1 DEF Commit, Fail
    <3>2. stored[<<driver, r>>] = "whole"
      BY <1>3, <2>1 DEF Commit, FilesInv
    <3>3. QED
      BY <1>u, <2>1, <3>1, <3>2 DEF FilesInv, RowHasFile, CallTypes
  <2>2. CASE r \notin tx \/ r \notin Uploads
    <3>1. UNCHANGED <<driver, stored, rows>>
      BY <1>3, <2>2 DEF Commit
    <3>2. ASSUME NEW u \in Uploads
          PROVE  /\ pc[u] \in Written => pc'[u] \in Written
                 /\ pc'[u] \in {"answer", "done"} => pc[u] \in {"answer", "done"}
                 /\ pc'[u] \in {"begin", "commit"} => pc[u] \in {"begin", "commit"}
      BY <1>3, <2>2 DEF CallTypes, Commit, Fail, Written
    <3>3. QED
      BY <1>u, <3>1, <3>2 DEF FilesInv, RowHasFile, Written
  <2>3. QED
    BY <2>1, <2>2
<1>4. ASSUME NEW u \in Uploads, Save(u)
      PROVE  FilesInv' /\ RowHasFile'
  <2>1. /\ pc[u] = "save" /\ pc' = [pc EXCEPT ![u] = "saved"] /\ driver' = driver /\ rows' = rows
        /\ \A f \in Files : f # <<driver, u>> => stored'[f] = stored[f]
    BY <1>4 DEF Save, StoreTypes
  <2>2. \A f \in rows : f # <<driver, u>>
    BY <2>1 DEF FilesInv
  <2>3. \A v \in Uploads : <<driver, v>> \in Files
    BY DEF Files, StoreTypes
  <2>4. QED
    BY <1>u, <2>1, <2>2, <2>3 DEF FilesInv, RowHasFile, CallTypes
<1>5. ASSUME NEW u \in Uploads, SaveEnd(u)
      PROVE  FilesInv' /\ RowHasFile'
  <2>1. <<driver, u>> \in Files
    BY DEF Files, StoreTypes
  <2>2. /\ pc[u] = "saved" /\ pc' = [pc EXCEPT ![u] = "begin"] /\ driver' = driver /\ rows' = rows
        /\ stored'[<<driver, u>>] = "whole"
        /\ \A f \in Files : f # <<driver, u>> => stored'[f] = stored[f]
    BY <1>5, <2>1 DEF SaveEnd, StoreTypes
  <2>3. \A v \in Uploads : <<driver, v>> \in Files
    BY DEF Files, StoreTypes
  <2>4. QED
    BY <1>u, <2>2, <2>3 DEF FilesInv, RowHasFile, CallTypes
<1>6. ASSUME \/ \E d \in Downloads : DownloadFind(d) \/ DownloadRead(d)
             \/ \E m \in Messages : MessageFind(m) \/ Post(m) \/ Log(m)
      PROVE  FilesInv' /\ RowHasFile'
  <2>1. UNCHANGED <<driver, stored, rows>> /\ \A u \in Uploads : pc'[u] = pc[u]
    BY <1>6 DEF CallTypes, DownloadFind, DownloadRead, MessageFind, Post, Log
  <2>2. QED
    BY <1>u, <2>1 DEF FilesInv, RowHasFile
<1>7. CASE Restart
  BY <1>u, <1>7 DEF FilesInv, RowHasFile, Restart
<1>8. QED
  BY <1>1, <1>2, <1>3, <1>4, <1>5, <1>6, <1>7, NextMeans DEF CallStep

\* A row stays, with the whole of its file.
LEMMA RowsStay ==
    ASSUME [Next]_vars
    PROVE  rows \subseteq rows'
  BY NextMeans DEF vars, CallStep, Arrive, AcquireTx, Acquire, Timeout, RunNested, Commit, Answer,
         Abort, Save, SaveEnd, DownloadFind, DownloadRead, MessageFind, Post, Log, Restart

\* A download reads the file of a row, and finds it.
LEMMA DownloadsKept ==
    ASSUME CallTypes, PlacesInv, StoreTypes, RowHasFile, ReadsInv, DownloadFindsFile, [Next]_vars
    PROVE  ReadsInv' /\ DownloadFindsFile'
<1>1. CASE UNCHANGED vars
  BY <1>1 DEF ReadsInv, DownloadFindsFile, vars
<1>2. ASSUME NEW d \in Downloads, DownloadFind(d)
      PROVE  ReadsInv' /\ DownloadFindsFile'
  BY <1>2 DEF DownloadFind, ReadsInv, DownloadFindsFile, CallTypes, StoreTypes
<1>3. ASSUME NEW d \in Downloads, DownloadRead(d)
      PROVE  ReadsInv' /\ DownloadFindsFile'
  <2>1. stored[file[d]] = "whole"
    BY <1>3 DEF DownloadRead, ReadsInv, RowHasFile
  <2>2. PICK a : /\ a = "whole" \/ (a = "part" /\ file[d][1] = "gcs")
                 /\ answer' = [answer EXCEPT ![d] = a]
    BY <1>3, <2>1 DEF DownloadRead
  <2>3. pc' = [pc EXCEPT ![d] = "done"] /\ UNCHANGED <<rows, file>>
    BY <1>3, <2>1 DEF DownloadRead
  <2>4. QED
    BY <2>2, <2>3 DEF ReadsInv, DownloadFindsFile, CallTypes, StoreTypes
<1>4. ASSUME \/ \E r \in Requests :
                   \/ Arrive(r) \/ AcquireTx(r) \/ Acquire(r) \/ Timeout(r)
                   \/ RunNested(r) \/ Commit(r) \/ Answer(r) \/ Abort(r)
             \/ \E u \in Uploads : Save(u) \/ SaveEnd(u)
             \/ \E m \in Messages : MessageFind(m) \/ Post(m) \/ Log(m)
             \/ Restart
      PROVE  ReadsInv' /\ DownloadFindsFile'
  <2>1. UNCHANGED file /\ \A d \in Downloads : answer'[d] = answer[d]
    BY <1>4 DEF Arrive, AcquireTx, Acquire, Timeout, RunNested, Commit, Answer, Abort, Save,
                SaveEnd, MessageFind, Post, Log, Restart, StoreTypes
  <2>2. ASSUME NEW d \in Downloads
        PROVE  /\ pc'[d] = "read" => pc[d] = "read"
               /\ pc'[d] = "done" => pc[d] = "done"
    BY <1>4 DEF Arrive, AcquireTx, Acquire, Timeout, RunNested, Commit, Answer, Abort, Fail,
                Save, SaveEnd, MessageFind, Post, Log, Restart, CallTypes, PlacesInv
  <2>3. QED
    BY <2>1, <2>2, RowsStay DEF ReadsInv, DownloadFindsFile
<1>5. QED
  BY <1>1, <1>2, <1>3, <1>4, NextMeans DEF CallStep

-----------------------------------------------------------------------------
\* Messages

LEMMA MessagesKept ==
    ASSUME CallTypes, PlacesInv, StoreTypes, MessagesInv, LogHasMessage, [Next]_vars
    PROVE  MessagesInv' /\ LogHasMessage'
<1>1. CASE UNCHANGED vars
  BY <1>1 DEF MessagesInv, LogHasMessage, vars
<1>2. ASSUME NEW m \in Messages, MessageFind(m)
      PROVE  MessagesInv' /\ LogHasMessage'
  BY <1>2 DEF MessageFind, MessagesInv, LogHasMessage, CallTypes
<1>3. ASSUME NEW m \in Messages, Post(m)
      PROVE  MessagesInv' /\ LogHasMessage'
  BY <1>3 DEF Post, MessagesInv, LogHasMessage, CallTypes, StoreTypes
<1>4. ASSUME NEW m \in Messages, Log(m)
      PROVE  MessagesInv' /\ LogHasMessage'
  BY <1>4 DEF Log, MessagesInv, LogHasMessage, CallTypes, StoreTypes
<1>5. ASSUME \/ \E r \in Requests :
                   \/ Arrive(r) \/ AcquireTx(r) \/ Acquire(r) \/ Timeout(r)
                   \/ RunNested(r) \/ Commit(r) \/ Answer(r) \/ Abort(r)
             \/ \E u \in Uploads : Save(u) \/ SaveEnd(u)
             \/ \E d \in Downloads : DownloadFind(d) \/ DownloadRead(d)
             \/ Restart
      PROVE  MessagesInv' /\ LogHasMessage'
  <2>1. UNCHANGED <<sent, logs>> /\ \A m \in Messages : answer'[m] = answer[m]
    BY <1>5 DEF Arrive, AcquireTx, Acquire, Timeout, RunNested, Commit, Answer, Abort, Save,
                SaveEnd, DownloadFind, DownloadRead, Restart, StoreTypes
  <2>2. ASSUME NEW m \in Messages
        PROVE  /\ pc'[m] = "log" => pc[m] = "log"
               /\ pc[m] \in {"failed", "lost"} => pc'[m] \in {"failed", "lost"}
               /\ pc[m] \in Written => pc'[m] \in Written
               /\ pc'[m] \in {"answer", "done"} => pc[m] \in {"answer", "done"}
    <3>1. CASE \E r \in Requests : \/ Arrive(r) \/ AcquireTx(r) \/ Acquire(r) \/ Timeout(r)
                                   \/ RunNested(r)
      BY <3>1 DEF Arrive, AcquireTx, Acquire, Timeout, RunNested, Fail, CallTypes, PlacesInv,
                  Written
    <3>2. CASE \E r \in Requests : Commit(r) \/ Answer(r) \/ Abort(r)
      BY <3>2 DEF Commit, Answer, Abort, Fail, CallTypes, PlacesInv, Written
    <3>3. CASE \/ \E u \in Uploads : Save(u) \/ SaveEnd(u)
               \/ \E d \in Downloads : DownloadFind(d) \/ DownloadRead(d)
               \/ Restart
      BY <3>3 DEF Save, SaveEnd, DownloadFind, DownloadRead, Restart, CallTypes, PlacesInv,
                  Written
    <3>4. QED
      BY <1>5, <3>1, <3>2, <3>3
  <2>3. QED
    BY <2>1, <2>2 DEF MessagesInv, LogHasMessage, Written
<1>6. QED
  BY <1>1, <1>2, <1>3, <1>4, <1>5, NextMeans DEF CallStep

-----------------------------------------------------------------------------
\* Theorems

LEMMA InitIInv == Init => IInv
<1> SUFFICES ASSUME Init PROVE IInv
  OBVIOUS
<1>1. PlacesInv /\ StoreTypes /\ CallTypes
  BY DEF Init, PlacesInv, StoreTypes, CallTypes, States
<1>2. PoolInv /\ InUse <= Connections
  BY FS_EmptySet DEF Init, PoolInv, InUse
<1>3. FilesInv /\ RowHasFile /\ ReadsInv /\ DownloadFindsFile /\ MessagesInv /\ LogHasMessage
  BY DEF Init, FilesInv, RowHasFile, ReadsInv, DownloadFindsFile, MessagesInv, LogHasMessage
<1>4. QED
  BY <1>1, <1>2, <1>3, TypeParts DEF IInv

LEMMA NextIInv == IInv /\ [Next]_vars => IInv'
<1> SUFFICES ASSUME IInv, [Next]_vars PROVE IInv'
  OBVIOUS
<1>1. CallTypes /\ StoreTypes /\ InUse <= Connections
  BY TypeParts DEF IInv
<1>2. PlacesInv' /\ TypeOK' /\ PoolInv'
  BY <1>1, PlacesKept, PoolKept, StoreKept, TypePartsNext DEF IInv
<1>3. FilesInv' /\ RowHasFile' /\ ReadsInv' /\ DownloadFindsFile' /\ MessagesInv' /\ LogHasMessage'
  BY <1>1, FilesKept, DownloadsKept, MessagesKept DEF IInv
<1>4. QED
  BY <1>2, <1>3 DEF IInv

\* The invariant that the run checks holds for any requests and any pool:
\* types, connections, places and what the properties need.
THEOREM Inductive == Spec => []IInv
<1>1. QED
  BY InitIInv, NextIInv, PTL DEF Spec

\* The variables keep their types, the pool is never overdrawn, and a
\* request that has ended holds no connection.
THEOREM TypeCorrect == Spec => []TypeOK
<1>1. IInv => TypeOK
  BY DEF IInv
<1>2. QED
  BY <1>1, Inductive, PTL

\* Every row of file_storage names a file that was saved to its end, and an
\* upload that was answered has one: UploadService inserts only what a
\* strategy has finished, and no file of a row is written again.
THEOREM RowHasFileHolds == Spec => []RowHasFile
<1>1. IInv => RowHasFile
  BY DEF IInv
<1>2. QED
  BY <1>1, Inductive, PTL

\* A download finds the file of its row, by the strategy of the row, with
\* whatever storage the process has been started since.
THEOREM DownloadFindsFileHolds == Spec => []DownloadFindsFile
<1>1. IInv => DownloadFindsFile
  BY DEF IInv
<1>2. QED
  BY <1>1, Inductive, PTL

\* Whoever is told that a message is sent has sent it and left a log.
THEOREM LogHasMessageHolds == Spec => []LogHasMessage
<1>1. IInv => LogHasMessage
  BY DEF IInv
<1>2. QED
  BY <1>1, Inductive, PTL
=============================================================================
