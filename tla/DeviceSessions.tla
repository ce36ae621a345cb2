----------------------------- MODULE DeviceSessions -----------------------------
(***************************************************************************)
(* What the whole system promises about sessions, seen from the browsers:  *)
(* RefreshSessions, and which device has the refresh token of a session.   *)
(* Every session's token is handed out at most once, to one device; a      *)
(* device has the session of one user at a time; a device that has lost a  *)
(* session never finds it again (auth.service.ts, rotateTokens: "forces    *)
(* single device login").                                                  *)
(***************************************************************************)
CONSTANTS Users, Devices, Uuids, None

VARIABLES
    session,  \* the refresh token of each user's session, or None
    spent,    \* tokens of sessions that were closed or replaced
    holder,   \* the device that has the token of each user's session, or None
    handed    \* the token of the user's session has been handed out

Sessions == INSTANCE RefreshSessions

Init ==
    /\ Sessions!Init
    /\ holder = [u \in Users |-> None]
    /\ handed = [u \in Users |-> FALSE]

\* A new session, or the end of one: nobody has its token, yet or any more.
Unhanded(u) ==
    /\ holder' = [holder EXCEPT ![u] = None]
    /\ handed' = [handed EXCEPT ![u] = FALSE]

Open(u, x) == Sessions!Open(u, x) /\ Unhanded(u)
Close(u) == Sessions!Close(u) /\ Unhanded(u)

\* The token reaches a device and takes the place of the one it had, if any.
Hand(u, d) ==
    /\ session[u] # None
    /\ ~handed[u]
    /\ handed' = [handed EXCEPT ![u] = TRUE]
    /\ holder' = [v \in Users |-> IF v = u THEN d
                                  ELSE IF holder[v] = d THEN None ELSE holder[v]]
    /\ UNCHANGED <<session, spent>>

\* The token is erased from its device; the session goes on without one.
Forget(u) ==
    /\ holder[u] # None
    /\ holder' = [holder EXCEPT ![u] = None]
    /\ UNCHANGED <<session, spent, handed>>

Next == \E u \in Users :
    \/ Close(u) \/ Forget(u)
    \/ \E x \in Uuids : Open(u, x)
    \/ \E d \in Devices : Hand(u, d)

Spec == Init /\ [][Next]_<<session, spent, holder, handed>>
================================================================================
