------------------------------ MODULE Serving ------------------------------
(***************************************************************************)
(* What a request needs besides the tables: connections of the pool, the   *)
(* file storage, the providers of mail and SMS.  UploadService with its    *)
(* two strategies, sendMail and sendSms, and every handler whose           *)
(* interactive transaction sends a statement through this.prisma, in one   *)
(* process that may end and is started again.                              *)
(*                                                                         *)
(* A statement holds a connection while it runs, an interactive            *)
(* transaction from its start to its end; both wait in the pool, not for   *)
(* ever.                                                                   *)
(***************************************************************************)
EXTENDS Naturals, FiniteSets

CONSTANTS
    Nested,       \* calls of register, POST and PATCH user, third-party-login
    Uploads,      \* calls of POST upload; a file is named by its upload
    Downloads,    \* calls of GET upload/:uuid/action/download
    Messages,     \* calls of sendMail and sendSms
    Connections   \* connections of the pool

Requests == Nested \cup Uploads \cup Downloads \cup Messages
Drivers == {"local", "gcs"}
Files == Drivers \X Uploads

\* A call is of one endpoint.
ASSUME KindsAssumption ==
    /\ Nested \cap Uploads = {} /\ Nested \cap Downloads = {} /\ Nested \cap Messages = {}
    /\ Uploads \cap Downloads = {} /\ Uploads \cap Messages = {}
    /\ Downloads \cap Messages = {}
ASSUME ConnectionsAssumption == Connections \in Nat \ {0}

VARIABLES
    driver,       \* thirdParty.fileSystemDriver of the process
    stored,       \* what the storages hold of each file
    rows,         \* table file_storage, as the pairs of driver and name
    sent, logs,   \* the messages handed over, tables send_mail_log, send_sms_log
    pc,           \* where each request is
    tx, stmt,     \* the requests with a transaction open, a statement running
    file,         \* the row a download has read
    answer        \* what a download or a provider has answered

outside == <<driver, stored, rows, sent, logs>>
vars == <<outside, pc, tx, stmt, file, answer>>

InUse == Cardinality(tx) + Cardinality(stmt)
Statements == {"nested", "find", "log"}       \* where a statement is to be sent
Ended == {"idle", "done", "failed", "lost"}

Goto(r, l) == pc' = [pc EXCEPT ![r] = l]
Fail(r) == Goto(r, "failed") /\ tx' = tx \ {r} /\ stmt' = stmt \ {r}

Init ==
    /\ driver \in Drivers
    /\ stored = [f \in Files |-> "nothing"]
    /\ rows = {} /\ sent = {} /\ logs = {}
    /\ pc = [r \in Requests |-> "idle"]
    /\ tx = {} /\ stmt = {}
    /\ file \in [Downloads -> Files]
    /\ answer = [r \in Downloads \cup Messages |-> "none"]

Arrive(r) ==
    /\ pc[r] = "idle"
    /\ Goto(r, CASE r \in Nested -> "begin"
                 [] r \in Uploads -> "save"
                 [] OTHER -> "find")
    /\ UNCHANGED <<outside, tx, stmt, file, answer>>

-----------------------------------------------------------------------------
\* the pool

AcquireTx(r) ==
    /\ pc[r] = "begin" /\ InUse < Connections
    /\ tx' = tx \cup {r}
    /\ Goto(r, IF r \in Nested THEN "nested" ELSE "commit")
    /\ UNCHANGED <<outside, stmt, file, answer>>

Acquire(r) ==
    /\ pc[r] \in Statements /\ r \notin stmt /\ InUse < Connections
    /\ stmt' = stmt \cup {r}
    /\ UNCHANGED <<outside, pc, tx, file, answer>>

\* Mutant: only a request that holds no connection gives up.
TimeoutEmpty(r) ==
    /\ pc[r] \in Statements \cup {"begin"} /\ r \notin stmt \cup tx
    /\ Fail(r)
    /\ UNCHANGED <<outside, file, answer>>

\* Waiting for a connection ends with an error after a while, the pool's
\* timeout or maxWait; so does an interactive transaction, whose handler
\* only learns of it at its next statement.
Timeout(r) ==
    /\ \/ pc[r] \in Statements \cup {"begin"} /\ r \notin stmt /\ Fail(r)
       \/ r \in tx /\ tx' = tx \ {r} /\ UNCHANGED <<pc, stmt>>
    /\ UNCHANGED <<outside, file, answer>>

\* registerWithVerification and the others: the statement of the service
\* that uses this.prisma, while the transaction is open.
RunNested(r) ==
    /\ pc[r] = "nested" /\ r \in stmt
    /\ stmt' = stmt \ {r}
    /\ Goto(r, "commit")
    /\ UNCHANGED <<outside, tx, file, answer>>

\* What the transaction has written, an upload's row, shows at its commit;
\* the handler goes on to its answer and may still fail before it.
Commit(r) ==
    /\ pc[r] = "commit"
    /\ \/ /\ r \in tx
          /\ rows' = IF r \in Uploads THEN rows \cup {<<driver, r>>} ELSE rows
          /\ tx' = tx \ {r}
          /\ Goto(r, "answer")
          /\ UNCHANGED stmt
       \/ r \notin tx /\ Fail(r) /\ UNCHANGED rows
    /\ UNCHANGED <<driver, stored, sent, logs, file, answer>>

\* The caller is told of its success.
Answer(r) ==
    /\ pc[r] = "answer"
    /\ Goto(r, "done")
    /\ UNCHANGED <<outside, tx, stmt, file, answer>>

\* Any error the handler meets: of the database, of a storage, of a provider.
Abort(r) ==
    /\ pc[r] \notin Ended
    /\ Fail(r)
    /\ UNCHANGED <<outside, file, answer>>

-----------------------------------------------------------------------------
\* upload and download

\* Mutant: the row is inserted without waiting for the file.
SaveUnawaited(u) ==
    /\ pc[u] = "save"
    /\ stored' = [stored EXCEPT ![<<driver, u>>] = "part"]
    /\ Goto(u, "begin")
    /\ UNCHANGED <<driver, rows, sent, logs, tx, stmt, file, answer>>

\* LocalFileStorageService.save: writeFile shows a part of the file at first.
SaveLocal(u) ==
    driver = "local" /\ stored' = [stored EXCEPT ![<<driver, u>>] = "part"]

\* GoogleCloudStorageService.save: the bucket shows all of it when the stream
\* has finished.
SaveBucket(u) ==
    driver = "gcs" /\ stored' = [stored EXCEPT ![<<driver, u>>] = "whole"]

\* create: the file gets a name of its own in the storage of the process.
Save(u) ==
    /\ pc[u] = "save"
    /\ SaveLocal(u) \/ SaveBucket(u)
    /\ Goto(u, "saved")
    /\ UNCHANGED <<driver, rows, sent, logs, tx, stmt, file, answer>>

\* saveFile goes on when writeFile has written all, or setMetadata has
\* answered.
SaveEnd(u) ==
    /\ pc[u] = "saved"
    /\ stored' = [stored EXCEPT ![<<driver, u>>] = "whole"]
    /\ Goto(u, "begin")
    /\ UNCHANGED <<driver, rows, sent, logs, tx, stmt, file, answer>>

DownloadFind(d) ==
    /\ pc[d] = "find" /\ d \in stmt
    /\ stmt' = stmt \ {d}
    /\ \/ rows = {} /\ Goto(d, "failed") /\ UNCHANGED file
       \/ \E f \in rows : file' = [file EXCEPT ![d] = f] /\ Goto(d, "read")
    /\ UNCHANGED <<outside, tx, answer>>

\* Mutant: the file is looked for in the storage of the process.
DownloadReadConfigured(d) ==
    /\ pc[d] = "read"
    /\ answer' = [answer EXCEPT ![d] = stored[<<driver, file[d][2]>>]]
    /\ Goto(d, IF answer'[d] = "nothing" THEN "failed" ELSE "done")
    /\ UNCHANGED <<outside, tx, stmt, file>>

\* readFile returns all there is; the bucket's stream finishes when it has
\* taken in the file, and the data may still be to come.
Read(f) == {stored[f]} \cup (IF f[1] = "gcs" THEN {"part"} ELSE {})

\* download: the strategy is that of the row.
DownloadRead(d) ==
    /\ pc[d] = "read"
    /\ \E a \in Read(file[d]) : answer' = [answer EXCEPT ![d] = a]
    /\ Goto(d, IF stored[file[d]] = "nothing" THEN "failed" ELSE "done")
    /\ UNCHANGED <<outside, tx, stmt, file>>

-----------------------------------------------------------------------------
\* sendMail and sendSms

MessageFind(m) ==
    /\ pc[m] = "find" /\ m \in stmt
    /\ stmt' = stmt \ {m}
    /\ Goto(m, "post")
    /\ UNCHANGED <<outside, tx, file, answer>>

\* The provider accepts the message, says what is wrong with it, or fails
\* to answer, after or before it has taken it.
Post(m) ==
    /\ pc[m] = "post"
    /\ \/ sent' = sent \cup {m} /\ answer' = [answer EXCEPT ![m] = "accepted"] /\ Goto(m, "log")
       \/ answer' = [answer EXCEPT ![m] = "refused"] /\ Goto(m, "log") /\ UNCHANGED sent
       \/ sent' = sent \cup {m} /\ Goto(m, "failed") /\ UNCHANGED answer
    /\ UNCHANGED <<driver, stored, rows, logs, tx, stmt, file>>

\* Mutant: the two fields of a refusal are taken for an acceptance.
LogAccept(m) ==
    /\ pc[m] = "log" /\ m \in stmt
    /\ stmt' = stmt \ {m}
    /\ logs' = logs \cup {m}
    /\ Goto(m, "answer")
    /\ UNCHANGED <<driver, stored, rows, sent, tx, file, answer>>

\* The log is inserted, and only then a refusal ends the call with an error.
Log(m) ==
    /\ pc[m] = "log" /\ m \in stmt
    /\ stmt' = stmt \ {m}
    /\ logs' = logs \cup {m}
    /\ Goto(m, IF answer[m] = "accepted" THEN "answer" ELSE "failed")
    /\ UNCHANGED <<driver, stored, rows, sent, tx, file, answer>>

-----------------------------------------------------------------------------
\* the process

\* It ends, whatever is under way, and is started again, perhaps with
\* another storage.
Restart ==
    /\ pc' = [r \in Requests |-> IF pc[r] \in Ended THEN pc[r] ELSE "lost"]
    /\ tx' = {} /\ stmt' = {}
    /\ driver' \in Drivers
    /\ UNCHANGED <<stored, rows, sent, logs, file, answer>>

\* Nobody catches the error of setMetadata in the handler of finish: an
\* unhandled rejection ends the process.
MetadataFails(u) ==
    /\ pc[u] = "saved" /\ driver = "gcs"
    /\ Restart

Step(r) ==
    \/ AcquireTx(r) \/ Acquire(r) \/ RunNested(r) \/ Commit(r) \/ Answer(r)
    \/ r \in Uploads /\ (Save(r) \/ SaveEnd(r) \/ MetadataFails(r))
    \/ r \in Downloads /\ (DownloadFind(r) \/ DownloadRead(r))
    \/ r \in Messages /\ (MessageFind(r) \/ Log(r))

Next ==
    \/ \E r \in Requests : Arrive(r) \/ Step(r) \/ Timeout(r) \/ Abort(r)
    \/ \E m \in Messages : Post(m)
    \/ Restart

Spec == Init /\ [][Next]_vars

\* A statement with a connection is executed, a storage answers and a timer
\* goes off.  Nothing obliges a provider to answer: the call of axios has no
\* timeout.
Fairness == \A r \in Requests : WF_vars(Step(r)) /\ WF_vars(Timeout(r))
FairSpec == Spec /\ Fairness

-----------------------------------------------------------------------------
\* Properties

\* The variables keep their types, the pool is never overdrawn, and a
\* request that has ended holds nothing.
TypeOK ==
    /\ driver \in Drivers
    /\ stored \in [Files -> {"nothing", "part", "whole"}]
    /\ rows \subseteq Files
    /\ sent \subseteq Messages /\ logs \subseteq Messages
    /\ pc \in [Requests -> Ended \cup Statements \cup {"begin", "commit", "save", "saved",
                                                       "read", "post", "answer"}]
    /\ tx \subseteq Requests /\ stmt \subseteq Requests
    /\ file \in [Downloads -> Files]
    /\ answer \in [Downloads \cup Messages -> {"none", "nothing", "part", "whole", "accepted", "refused"}]
    /\ InUse <= Connections
    /\ \A r \in tx \cup stmt : pc[r] \notin Ended

\* Whatever fails, and whenever the process ends, a row names a file that
\* was saved to its end, and an upload that was answered has one.
RowHasFile ==
    /\ \A f \in rows : stored[f] = "whole"
    /\ \A u \in Uploads : pc[u] = "done" => \E f \in rows : f[2] = u

\* No download finds the file of a row missing, whichever storage the
\* process has been started with since, and from the disk it gets all of it.
DownloadFindsFile ==
    \A d \in Downloads :
        /\ answer[d] # "nothing"
        /\ pc[d] = "done" /\ file[d][1] = "local" => answer[d] = "whole"

\* A caller told that its message is sent has sent it and left a log; a
\* message without a log belongs to a call that is under way or was not
\* answered with success.
LogHasMessage ==
    \A m \in Messages :
        /\ pc[m] = "done" => m \in sent \cap logs
        /\ m \in logs \ sent => pc[m] = "failed" \/ pc[m] = "lost"

\* Everyone may hold a connection and wait for a second one, and still every
\* call is answered or lost with the process, unless its provider is silent.
AllAnswered ==
    \A r \in Requests : pc[r] # "idle" ~> pc[r] \in {"done", "failed", "lost", "post"}
=============================================================================
