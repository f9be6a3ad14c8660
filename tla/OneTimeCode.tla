---------------------------- MODULE OneTimeCode ----------------------------
(***************************************************************************)
(* What the verification service promises of a code, whatever its tables   *)
(* and statements look like: a code goes from new to live to gone and      *)
(* never back, only an issue for its own account, an acceptance or the     *)
(* removal of its account retires it, and a call is accepted for a code    *)
(* of the account it names that was live at one moment of the call.        *)
(*                                                                         *)
(* It does not promise that a code is accepted once: of two calls that     *)
(* overlap both may have found it live.                                    *)
(***************************************************************************)
CONSTANTS
    CodeIds,      \* the codes that may be issued
    Calls,        \* the calls that present a code
    Accounts,
    None

VARIABLES
    owner,        \* the account a code was issued for
    live, gone,   \* the codes that are accepted, those that are not any more
    caller,       \* the account a call presents its code for
    candidate,    \* the code a call was found to present, if any
    outcome       \* what has become of a call

vars == <<owner, live, gone, caller, candidate, outcome>>

Of(a) == {d \in live : owner[d] = a}

Retire(R) == live' = live \ R /\ gone' = gone \cup R
Answer(v, o) == outcome' = [outcome EXCEPT ![v] = o]

Init ==
    /\ owner = [d \in CodeIds |-> None]
    /\ live = {} /\ gone = {}
    /\ caller = [v \in Calls |-> None]
    /\ candidate = [v \in Calls |-> {}]
    /\ outcome = [v \in Calls |-> "none"]

\* A code is issued and some of the account's codes are retired.
Issue(d, a) ==
    /\ d \notin live \cup gone
    /\ owner' = [owner EXCEPT ![d] = a]
    /\ \E R \in SUBSET Of(a) :
         live' = (live \ R) \cup {d} /\ gone' = gone \cup R
    /\ UNCHANGED <<caller, candidate, outcome>>

\* An issue fails, and what it would have issued, to whomever, never comes
\* to life.
Fail(d, a) ==
    /\ d \notin live \cup gone
    /\ owner' = [owner EXCEPT ![d] = a]
    /\ gone' = gone \cup {d}
    /\ UNCHANGED <<live, caller, candidate, outcome>>

Present(v, a) ==
    /\ outcome[v] = "none"
    /\ Answer(v, "open")
    /\ caller' = [caller EXCEPT ![v] = a]
    /\ \E S \in {{}} \cup {{d} : d \in Of(a)} : candidate' = [candidate EXCEPT ![v] = S]
    /\ UNCHANGED <<owner, live, gone>>

Accept(v) ==
    /\ outcome[v] = "open" /\ candidate[v] # {}
    /\ Answer(v, "accepted")
    /\ Retire(candidate[v])
    /\ UNCHANGED <<owner, caller, candidate>>

\* The call is refused; or it was to be accepted and the answer is lost.
Refuse(v) ==
    /\ outcome[v] = "open"
    /\ Answer(v, "refused")
    /\ UNCHANGED <<live, gone>> \/ Retire(candidate[v])
    /\ UNCHANGED <<owner, caller, candidate>>

Withdraw(a) ==
    /\ Retire(Of(a))
    /\ UNCHANGED <<owner, caller, candidate, outcome>>

Next ==
    \/ \E d \in CodeIds, a \in Accounts : Issue(d, a)
    \/ \E d \in CodeIds, a \in Accounts \cup {None} : Fail(d, a)
    \/ \E v \in Calls, a \in Accounts : Present(v, a)
    \/ \E v \in Calls : Accept(v) \/ Refuse(v)
    \/ \E a \in Accounts : Withdraw(a)

Spec == Init /\ [][Next]_vars
=============================================================================
