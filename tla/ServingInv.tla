----------------------------- MODULE ServingInv -----------------------------
(* The inductive invariant behind the safety properties of Serving. *)
EXTENDS Serving

\* The connections in use can be counted.
PoolInv == IsFiniteSet(tx) /\ IsFiniteSet(stmt)

\* A request is at a place of its own handler; a statement runs only where
\* one is sent, a transaction is open only between begin and commit.
PlacesInv ==
    /\ \A r \in Nested : pc[r] \in Ended \cup {"begin", "nested", "commit", "answer"}
    /\ \A u \in Uploads : pc[u] \in Ended \cup {"save", "saved", "begin", "commit", "answer"}
    /\ \A d \in Downloads : pc[d] \in Ended \cup {"find", "read"}
    /\ \A m \in Messages : pc[m] \in Ended \cup {"find", "post", "log", "answer"}
    /\ \A r \in stmt : pc[r] \in Statements
    /\ \A r \in tx : pc[r] \in {"nested", "commit"}

\* An upload that is to have a row has its file in the storage of the
\* process; one that has a row saves nothing any more, and one that is about
\* to be answered has it.
FilesInv ==
    /\ \A u \in Uploads : pc[u] \in {"begin", "commit"} => stored[<<driver, u>>] = "whole"
    /\ \A f \in rows : pc[f[2]] \in {"answer", "done", "failed", "lost"}
    /\ \A u \in Uploads : pc[u] = "answer" => \E f \in rows : f[2] = u

\* A download reads the file of a row.
ReadsInv == \A d \in Downloads : pc[d] = "read" => file[d] \in rows

\* An acceptance is an answer to a message that was taken, a log is inserted
\* with an answer, and after it comes the end of the call: its success, if
\* the message was accepted.
MessagesInv ==
    \A m \in Messages :
        /\ pc[m] = "log" => answer[m] \in {"accepted", "refused"}
        /\ answer[m] = "accepted" => m \in sent
        /\ m \in logs => pc[m] \in {"answer", "done", "failed", "lost"}
        /\ pc[m] = "answer" => m \in sent \cap logs

IInv ==
    /\ TypeOK /\ PoolInv /\ PlacesInv
    /\ FilesInv /\ RowHasFile
    /\ ReadsInv /\ DownloadFindsFile
    /\ MessagesInv /\ LogHasMessage
=============================================================================
