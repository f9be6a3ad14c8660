---------------------------- MODULE AccountsInv ----------------------------
(* The inductive invariant behind the safety properties of Accounts. *)
EXTENDS Accounts

Inserters == Registers \cup Creations \cup Socials   \* the calls that insert rows

\* The places of a call that inserts: before it has an account row of its
\* own or of its name, and before it has read a user.
Seeking == {"idle", "check", "get", "make"}
Unread == Seeking \cup {"touch", "user", "role"}

-----------------------------------------------------------------------------

\* A call has read no user before it comes to it, and one that is to insert
\* a user has read none.  A register touches no account.
CallsInv ==
    /\ \A r \in Requests : pc[r] \in Unread => user[r] = 0
    /\ \A r \in Creations \cup Socials : pc[r] \in {"write", "token", "commit"} => user[r] = 0
    /\ \A r \in Inserters : pc[r] # "idle" => arg[r] \in Names
    /\ \A r \in Registers : pc[r] # "touch"
    /\ \A r \in Requests : before[r] \subseteq Succeeded

\* No user and no token is without its account, nor is the account of an
\* open transaction gone; the user a call has read was one of its account.
RowsInv ==
    /\ \A u \in users : u.account \in AccountIds
    /\ \A t \in tokens : t.account \in AccountIds
    /\ \A r \in Writing : acct[r] \in AccountIds
    /\ \A r \in Requests : pc[r] \in {"write", "token", "commit", "mark"} =>
          \A u \in users : u.id = user[r] => u.account = acct[r]

\* An account is the one its call goes on with, or a third-party login has
\* inserted it in place of one that is gone, and then it comes to nothing.
InsertedInv ==
    /\ \A a \in accounts :
          /\ a.by \in Inserters /\ pc[a.by] \notin Seeking
          /\ \/ acct[a.by] = a.id
             \/ /\ acct[a.by] \notin AccountIds
                /\ pc[a.by] \in {"user", "write", "failed"}
                /\ pc[a.by] = "write" => user[a.by] = 0
    /\ \A u \in users : u.by \in Inserters /\ pc[u.by] \in {"send", "done", "failed"}

\* A call that was answered has left its account a user.
AnsweredInv ==
    \A r \in Inserters :
        pc[r] = "done" /\ acct[r] \in AccountIds => UsersOf(acct[r]) # {}

\* A call that is about to insert has found nothing that a call answered
\* before it began has inserted.
FreshInv ==
    /\ \A r \in Registers : pc[r] = "make" => \A a \in Named(arg[r]) : a.by \notin before[r]
    /\ \A r \in Inserters : pc[r] \in {"role", "write", "token", "commit"} /\ user[r] = 0 =>
          \A u \in UsersOf(acct[r]) : u.by \notin before[r]

IInv ==
    /\ TypeOK /\ CallsInv /\ RowsInv /\ InsertedInv /\ AnsweredInv /\ FreshInv
    /\ RegisterReusesAccount /\ OneUserPerAccountInOrder
    /\ ValidAfterVerify /\ RegisteredCanVerify
=============================================================================
