----------------------------- MODULE MCListing -----------------------------
(* One run of two kinds of behaviour: a walk of Listing, or one call of a  *)
(* function of Queries or Helpers, which has no steps.                     *)
EXTENDS ListingInv, Helpers

Walking == call = [fn |-> "walk"]
Idle ==
    /\ list = "logs" /\ limit = 1 /\ page = 1 /\ rows = {} /\ met = {}
    /\ pc = "done" /\ total = 0 /\ seen = <<>>
    /\ inserts = {} /\ removes = {} /\ late = {} /\ tied = FALSE

ListingInit == \/ Walking /\ Init
               \/ (QueryCalls \/ HelperCalls) /\ Idle
ListingSpec == ListingInit /\ [][Next /\ UNCHANGED call]_<<vars, call>>
=============================================================================
