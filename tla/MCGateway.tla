------------------------------- MODULE MCGateway -------------------------------
(* Instances of Gateway for TLC. *)
EXTENDS Gateway, TLC

\* Requests, browsers, random values and passwords are interchangeable; where no user
\* has a role, so are the users.
Symmetry == Permutations(Calls) \cup Permutations(Browsers)
              \cup Permutations(Uuids) \cup Permutations(Passwords)
SymmetryOfUsers == Symmetry \cup Permutations(Users)
================================================================================
