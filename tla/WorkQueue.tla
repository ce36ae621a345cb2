------------------------------- MODULE WorkQueue -------------------------------
(***************************************************************************)
(* What the stream USERS and its two durable consumers promise (retention  *)
(* workqueue, explicit acknowledgement, max_ack_pending): an event is      *)
(* stored under a new number, handed to the one consumer that filters for  *)
(* it in the order of the numbers, and stays until it is settled by        *)
(* itself, once, after it was handed out.                                  *)
(***************************************************************************)
EXTENDS Naturals, FiniteSets

CONSTANTS
    Filter,        \* the consumer of each subject
    MaxAckPending

VARIABLES
    stored,     \* events not settled yet
    delivered,  \* numbers of those that were handed out
    last        \* the last number given

Init ==
    /\ stored = {}
    /\ delivered = {}
    /\ last = 0

Of(e) == {f \in stored : Filter[f.subject] = Filter[e.subject]}

Publish(e) ==
    /\ e.seq = last + 1
    /\ stored' = stored \cup {e}
    /\ last' = last + 1
    /\ UNCHANGED delivered

Deliver(e) ==
    /\ e.seq \notin delivered
    /\ \A f \in Of(e) : f.seq \notin delivered => e.seq <= f.seq
    /\ Cardinality({f \in Of(e) : f.seq \in delivered}) < MaxAckPending
    /\ delivered' = delivered \cup {e.seq}
    /\ UNCHANGED <<stored, last>>

\* Acknowledged or terminated.
Settle(e) ==
    /\ e.seq \in delivered
    /\ stored' = stored \ {e}
    /\ delivered' = delivered \ {e.seq}
    /\ UNCHANGED last

Next ==
    \/ \E e \in stored' : Publish(e)
    \/ \E e \in stored : Deliver(e) \/ Settle(e)

Spec == Init /\ [][Next]_<<stored, delivered, last>>
================================================================================
