--------------------------- MODULE MCVerification ---------------------------
(* Symmetry for the safety runs of Verification. *)
EXTENDS VerificationRefinement, TLC

Symmetry == Permutations(Creates) \cup Permutations(Verifies)
            \cup Permutations(Accounts) \cup Permutations(Codes)
=============================================================================
