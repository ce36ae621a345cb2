----------------------------- MODULE MCAuthService -----------------------------
(* Instances of AuthService for TLC. *)
EXTENDS AuthService, TLC

\* Calls, random values and passwords are interchangeable; users are not (their
\* roles differ).
Symmetry == Permutations(Calls) \cup Permutations(Uuids) \cup Permutations(Passwords)
================================================================================
