------------------------------ MODULE AuthHistory ------------------------------
(***************************************************************************)
(* AuthService with a history variable, for what the comment of            *)
(* resetUserPassword says of recovery tokens.                              *)
(***************************************************************************)
EXTENDS AuthService

VARIABLE
    redeemed  \* history: recovery tokens a password was written with

hvars == <<vars, redeemed>>

Redeems(c) == UpdateUserPassword(c) /\ authUser' # authUser

HInit ==
    /\ Init
    /\ \A u \in Users : authUser[u].verified
    /\ redeemed = {}

HNext ==
    /\ Next
    /\ redeemed' = redeemed \cup {call[c].token : c \in {d \in Calls : Redeems(d)}}

HSpec == HInit /\ [][HNext]_hvars

\* resetUserPassword: "Remove recovery tokens (one time use)".  A password is
\* written at most once on the strength of a recovery token.
RecoveryTokenIsUsedOnce ==
    [][\A c \in Calls : Redeems(c) => call[c].token \notin redeemed]_hvars
================================================================================
