---------------------------- MODULE RefreshSessions ----------------------------
(***************************************************************************)
(* What auth-ms promises about refresh tokens, seen from outside: each     *)
(* user has at most one session, a session is opened with a token that was *)
(* never used before by anyone, and a closed session stays closed.  Logins *)
(* and revalidations open sessions (auth.service.ts, rotateTokens), every  *)
(* replacement, logout, revocation and reset closes one.                   *)
(***************************************************************************)
CONSTANTS Users, Uuids, None

VARIABLES
    session,  \* the refresh token of each user's session, or None
    spent     \* tokens of sessions that were closed or replaced

Init ==
    /\ session = [u \in Users |-> None]
    /\ spent = {}

\* A new session replaces the one the user has, if any.
Open(u, x) ==
    /\ x \notin spent
    /\ \A v \in Users : session[v] # x
    /\ session' = [session EXCEPT ![u] = x]
    /\ spent' = spent \cup ({session[u]} \ {None})

Close(u) ==
    /\ session[u] # None
    /\ session' = [session EXCEPT ![u] = None]
    /\ spent' = spent \cup {session[u]}

Next == \E u \in Users : Close(u) \/ \E x \in Uuids : Open(u, x)

Spec == Init /\ [][Next]_<<session, spent>>
================================================================================
