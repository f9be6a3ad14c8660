-------------------------- MODULE MCPasswordReset --------------------------
(* Symmetry for the runs of PasswordReset. *)
EXTENDS PasswordResetRefinement, TLC

Symmetry == Permutations(Asks) \cup Permutations(Verifies) \cup Permutations(Resets)
            \cup Permutations(Accounts)
=============================================================================
