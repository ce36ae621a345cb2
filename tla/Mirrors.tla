-------------------------------- MODULE Mirrors --------------------------------
(***************************************************************************)
(* What the signup events are for, without the events: main-api has copies *)
(* of the accounts that signed up at auth-ms.  An account keeps its id and *)
(* email and has at most one copy at a time, which is made and removed as  *)
(* a whole; nothing is copied that did not sign up.                        *)
(***************************************************************************)
VARIABLES
    accounts,  \* [id, email] of the users who signed up at auth-ms
    copies     \* [id, of, email] of their rows in main-api

Init ==
    /\ accounts = {}
    /\ copies = {}

SignUp(a) ==
    /\ \A b \in accounts : b.id # a.id /\ b.email # a.email
    /\ accounts' = accounts \cup {a}
    /\ UNCHANGED copies

Copy(m) ==
    /\ \E a \in accounts : m.of = a.id /\ m.email = a.email
    /\ \A n \in copies : n.id # m.id /\ n.of # m.of
    /\ copies' = copies \cup {m}
    /\ UNCHANGED accounts

Remove(m) ==
    /\ copies' = copies \ {m}
    /\ UNCHANGED accounts

Next ==
    \/ \E a \in accounts' : SignUp(a)
    \/ \E m \in copies' : Copy(m)
    \/ \E m \in copies : Remove(m)

Spec == Init /\ [][Next]_<<accounts, copies>>
================================================================================
