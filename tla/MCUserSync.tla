------------------------------- MODULE MCUserSync -------------------------------
(* Instances of UserSync for TLC. *)
EXTENDS UserSync, TLC

\* Calls, emails and usernames are only compared for equality.
Symmetry == Permutations(Calls) \cup Permutations(Emails) \cup Permutations(Usernames)
================================================================================
