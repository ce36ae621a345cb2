----------------------- MODULE UserSyncRefinementProofs ------------------------
(***************************************************************************)
(* UserSync implements its two abstract specifications: the stream is a    *)
(* WorkQueue, and signup with the hook of main-api makes Mirrors.          *)
(***************************************************************************)
EXTENDS UserSyncProofs

(* What is delivered and not settled is stored, and the hook that has a     *)
(* stored event has it delivered.  Two hooks may have the same event: the   *)
(* second one to settle it finds it gone and settles nothing.               *)
PendingInv ==
    /\ \A n \in pending : \E e \in stream : e.seq = n
    /\ \A c \in Calls :
          call[c].pc \in {"create", "ack"} /\ call[c].event \in stream
             => call[c].event.seq \in pending

\* No event is stored, settled or delivered, and no hook starts.
LEMMA PendingKept ==
  ASSUME PendingInv, stream' = stream, pending' = pending,
         \A d \in Calls : \/ call'[d] = call[d]
                          \/ call'[d].pc \notin {"create", "ack"}
                          \/ /\ call[d].pc = "create" /\ call'[d].pc = "ack"
                             /\ call'[d].event = call[d].event
  PROVE  PendingInv'
  BY DEF PendingInv

LEMMA PendingRequest ==
  ASSUME TypeInv, PendingInv, NEW c \in Calls, Request(c)
  PROVE  PendingInv'
  <1>1. call \in [Calls -> CallState]
    BY DEF TypeInv, CallsOK
  <1>2. UNCHANGED queue
    BY DEF Request, SignupUser, CreateUser, UpdateUser, DeactivateUser, DeleteUser
  <1> DEFINE NotAHook == \A d \in Calls :
                            call'[d] = call[d] \/ call'[d].pc \notin {"create", "ack"}
  <1>3. ASSUME NEW email \in Emails, NEW username \in Usernames,
               SignupUser(c, email, username)
        PROVE  NotAHook
    BY <1>1, <1>3 DEF SignupUser, Goto, NoCall
  <1>4. ASSUME NEW email \in Emails, NEW username \in Usernames,
               NEW roles \in RoleChoices, NEW agentRoles \in AgentRoles,
               CreateUser(c, email, username, roles, agentRoles)
        PROVE  NotAHook
    BY <1>1, <1>4 DEF CreateUser, Goto, NoCall
  <1>5. ASSUME NEW row \in users["main"], NEW username \in Usernames,
               NEW roles \in RoleChoices, NEW agentRoles \in AgentRoles,
               UpdateUser(c, row, username, roles, agentRoles)
        PROVE  NotAHook
    BY <1>1, <1>5 DEF UpdateUser, Goto, NoCall
  <1>6. ASSUME NEW row \in users["main"], NEW agentRoles \in AgentRoles,
               DeactivateUser(c, row, agentRoles) \/ DeleteUser(c, row, agentRoles)
        PROVE  NotAHook
    BY <1>1, <1>6 DEF DeactivateUser, DeleteUser, Goto, NoCall
  <1>7. NotAHook
    BY <1>3, <1>4, <1>5, <1>6 DEF Request
  <1> QED
    BY <1>2, <1>7, PendingKept DEF queue

(* A hook settles its event. *)

Settles(c) ==
    /\ stream' = {e \in stream : e.seq # call[c].event.seq}
    /\ pending' = pending \ {call[c].event.seq}

LEMMA SettlesWhat ==
  ASSUME TypeInv, EventInv, PendingInv, NEW c \in Calls,
         call[c].pc \in {"create", "ack"}, Settles(c)
  PROVE  \/ UNCHANGED <<stream, pending>>
         \/ /\ call[c].event \in stream /\ call[c].event.seq \in pending
            /\ stream' = stream \ {call[c].event}
  <1>1. \A e \in stream : e.seq = call[c].event.seq => e = call[c].event
    BY DEF EventInv, HookOK
  <1>2. CASE call[c].event \in stream
    BY <1>1, <1>2 DEF PendingInv, Settles
  <1>3. CASE call[c].event \notin stream
    <2>1. stream' = stream
      BY <1>1, <1>3 DEF Settles
    <2>2. call[c].event.seq \notin pending
      BY <1>1, <1>3 DEF PendingInv
    <2> QED
      BY <2>1, <2>2 DEF Settles
  <1> QED
    BY <1>2, <1>3

LEMMA PendingSettles ==
  ASSUME PendingInv, NEW c \in Calls, Settles(c),
         \A d \in Calls : call'[d] = call[d] \/ call'[d].pc = "idle"
  PROVE  PendingInv'
  BY DEF PendingInv, Settles

LEMMA PendingContinue ==
  ASSUME TypeInv, EventInv, PendingInv, NEW c \in Calls, Continue(c)
  PROVE  PendingInv'
  <1>1. call \in [Calls -> CallState] /\ WellFormed(call[c])
    BY DEF TypeInv, CallsOK
  <1>2. CASE PublishEvent(c)
    <2> DEFINE f == [call[c].event EXCEPT !.seq = lastSeq + 1]
    <2>1. f.seq = lastSeq + 1 /\ lastSeq \in Nat
      BY <1>1, <1>2 DEF PublishEvent, WellFormed, Event, TypeInv, DataOK
    <2> HIDE DEF f
    <2>2. \A d \in Calls : call'[d] = call[d] \/ call'[d].pc = "idle"
      BY <1>1, <1>2 DEF PublishEvent, Goto, NoCall
    <2>3. pending' = pending /\ (stream' = stream \/ stream' = stream \cup {f})
      BY <1>2 DEF PublishEvent, f
    <2>4. ASSUME NEW d \in Calls, call[d].pc \in {"create", "ack"}
          PROVE  call[d].event # f
      <3>1. call[d].event.seq <= lastSeq /\ call[d].event.seq \in Nat
        BY <2>4 DEF EventInv, HookOK, TypeInv, CallsOK, WellFormed, Event
      <3> QED
        BY <2>1, <3>1
    <2> QED
      BY <2>2, <2>3, <2>4 DEF PendingInv
  <1>3. CASE SaveUser(c)
    <2>1. \A d \in Calls : call'[d] = call[d] \/ call'[d].pc \in {"idle", "publish"}
      BY <1>3, SaveUserCalls
    <2> QED
      BY <1>3, <2>1, PendingKept DEF SaveUser, queue
  <1>4. CASE SetInactive(c) \/ RemoveUser(c)
    <2>1. \A d \in Calls : call'[d] = call[d] \/ call'[d].pc = "idle"
      BY <1>1, <1>4 DEF SetInactive, RemoveUser, Goto, NoCall
    <2> QED
      BY <1>4, <2>1, PendingKept DEF SetInactive, RemoveUser, queue
  <1>5. CASE HookCreate(c)
    <2>1. /\ call[c].pc = "create" /\ call'[c].pc = "ack"
          /\ call'[c].event = call[c].event
      BY <1>1, <1>5 DEF HookCreate, Goto, CallState
    <2>2. \A d \in Calls : d = c \/ call'[d] = call[d]
      BY <1>1, <1>5 DEF HookCreate, Goto
    <2> QED
      BY <1>5, <2>1, <2>2, PendingKept DEF HookCreate, queue
  <1>6. CASE HookFails(c) \/ Ack(c)
    <2>1. \A d \in Calls : call'[d] = call[d] \/ call'[d].pc = "idle"
      BY <1>1, <1>6 DEF HookFails, Ack, Goto, Dies, NoCall
    <2>2. UNCHANGED <<stream, pending>> \/ Settles(c)
      BY <1>6 DEF HookFails, Ack, Settles
    <2> QED
      BY <2>1, <2>2, PendingKept, PendingSettles
  <1> QED
    BY <1>2, <1>3, <1>4, <1>5, <1>6 DEF Continue

LEMMA PendingConsume ==
  ASSUME TypeInv, PendingInv, NEW c \in Calls, NEW event \in stream, Consume(c, event)
  PROVE  PendingInv'
  <1>1. call \in [Calls -> CallState]
    BY DEF TypeInv, CallsOK
  <1>2. \A d \in Calls : \/ call'[d] = call[d]
                         \/ call'[d].pc = "create" /\ call'[d].event = event
    BY <1>1 DEF Consume, Deliver, Redeliver, Goto, NoCall
  <1>3. stream' = stream /\ pending \subseteq pending' /\ event.seq \in pending'
        /\ \A n \in pending' : n \in pending \/ n = event.seq
    BY DEF Consume, Deliver, Redeliver, queue
  <1> QED
    BY <1>2, <1>3 DEF PendingInv

LEMMA PendingStep == TypeInv /\ EventInv /\ PendingInv /\ [Next]_vars => PendingInv'
  <1> SUFFICES ASSUME TypeInv, EventInv, PendingInv, [Next]_vars PROVE PendingInv'
    OBVIOUS
  <1>1. CASE UNCHANGED vars
    BY <1>1, PendingKept DEF vars
  <1>2. ASSUME NEW s \in Sides, Crash(s) \/ Restart(s) PROVE PendingInv'
    <2>1. \A d \in Calls : call'[d] = call[d] \/ call'[d].pc = "idle"
      BY <1>2 DEF Crash, Restart, Dies, NoCall
    <2> QED
      BY <1>2, <2>1, PendingKept DEF Crash, Restart, queue
  <1>3. CASE Next
    BY <1>2, <1>3, PendingRequest, PendingContinue, PendingConsume DEF Next
  <1> QED
    BY <1>1, <1>3

LEMMA PendingInit == Init => PendingInv
  BY DEF Init, PendingInv, NoCall

(* The mapping: what does not touch the queue stutters. *)

\* The subject of an event decides its consumer.
LEMMA FilterOfEvent ==
  ASSUME NEW e \in Event
  PROVE  [subject \in Subjects |-> IF subject = "auth.user.signup" THEN "main" ELSE "auth"]
            [e.subject] = Receiver(e)
  BY DEF Event, Receiver

LEMMA QueueInit == Init => Queue!Init
  BY DEF Init, Queue!Init

LEMMA QueueDeliver ==
  ASSUME TypeInv, NEW c \in Calls, NEW event \in stream, Deliver(c, event)
  PROVE  Queue!Deliver(event)
  <1>1. stream \subseteq Event
    BY DEF TypeInv, DataOK
  <1>2. Queue!Of(event) = {e \in stream : Receiver(e) = Receiver(event)}
    BY <1>1, FilterOfEvent DEF Queue!Of
  <1>3. {f \in Queue!Of(event) : f.seq \in pending}
          = {e \in stream : Receiver(e) = Receiver(event) /\ e.seq \in pending}
    BY <1>2
  <1>4. \A S : Queue!Cardinality(S) = Cardinality(S)
    BY DEF Cardinality, Queue!Cardinality
  <1>5. Queue!Cardinality({f \in Queue!Of(event) : f.seq \in pending}) < MaxAckPending
    BY <1>3, <1>4 DEF Deliver
  <1> QED
    BY <1>2, <1>5 DEF Deliver, Queue!Deliver

LEMMA QueueStep ==
  TypeInv /\ EventInv /\ PendingInv /\ [Next]_vars
    => [Queue!Next]_<<stream, pending, lastSeq>>
  <1> SUFFICES ASSUME TypeInv, EventInv, PendingInv, [Next]_vars
               PROVE  [Queue!Next]_<<stream, pending, lastSeq>>
    OBVIOUS
  <1>1. CASE UNCHANGED vars
    BY <1>1 DEF vars
  <1>2. ASSUME NEW c \in Calls, Request(c) PROVE UNCHANGED <<stream, pending, lastSeq>>
    BY <1>2 DEF Request, SignupUser, CreateUser, UpdateUser, DeactivateUser, DeleteUser, queue
  <1>3. ASSUME NEW c \in Calls, PublishEvent(c)
        PROVE  [Queue!Next]_<<stream, pending, lastSeq>>
    <2> DEFINE f == [call[c].event EXCEPT !.seq = lastSeq + 1]
    <2>1. f.seq = lastSeq + 1
      BY <1>3 DEF PublishEvent, WellFormed, Event, TypeInv, CallsOK
    <2> HIDE DEF f
    <2>2. CASE stream' = stream \cup {f} /\ lastSeq' = lastSeq + 1
      <3>1. Queue!Publish(f)
        BY <1>3, <2>1, <2>2 DEF PublishEvent, Queue!Publish
      <3> QED
        BY <2>2, <3>1 DEF Queue!Next
    <2> QED
      BY <1>3, <2>2 DEF PublishEvent, f
  <1>4. ASSUME NEW c \in Calls, HookFails(c) \/ Ack(c)
        PROVE  [Queue!Next]_<<stream, pending, lastSeq>>
    <2>1. call[c].pc \in {"create", "ack"} /\ lastSeq' = lastSeq
      BY <1>4 DEF HookFails, Ack
    <2>2. CASE Settles(c) /\ stream' # stream
      <3>1. /\ call[c].event \in stream /\ call[c].event.seq \in pending
            /\ stream' = stream \ {call[c].event}
        BY <2>1, <2>2, SettlesWhat
      <3>2. Queue!Settle(call[c].event)
        BY <2>1, <2>2, <3>1 DEF Settles, Queue!Settle
      <3> QED
        BY <3>1, <3>2 DEF Queue!Next
    <2>3. CASE ~(Settles(c) /\ stream' # stream)
      <3>1. UNCHANGED <<stream, pending>> \/ (Settles(c) /\ stream' = stream)
        BY <1>4, <2>3 DEF HookFails, Ack, Settles
      <3>2. CASE Settles(c) /\ stream' = stream
        <4>1. call[c].event \notin stream
          BY <3>2 DEF Settles
        <4> QED
          BY <2>1, <3>2, <4>1, SettlesWhat
      <3> QED
        BY <2>1, <3>1, <3>2
    <2> QED
      BY <2>2, <2>3
  <1>5. ASSUME NEW c \in Calls, Continue(c)
        PROVE  [Queue!Next]_<<stream, pending, lastSeq>>
    BY <1>3, <1>4, <1>5 DEF Continue, SaveUser, SetInactive, RemoveUser, HookCreate, queue
  <1>6. ASSUME NEW c \in Calls, NEW event \in stream, Consume(c, event)
        PROVE  [Queue!Next]_<<stream, pending, lastSeq>>
    <2>1. CASE Deliver(c, event)
      BY <2>1, QueueDeliver DEF Queue!Next
    <2>2. CASE Redeliver(c, event)
      BY <2>2 DEF Redeliver, queue
    <2> QED
      BY <1>6, <2>1, <2>2 DEF Consume
  <1>7. ASSUME NEW s \in Sides, Crash(s) \/ Restart(s)
        PROVE  UNCHANGED <<stream, pending, lastSeq>>
    BY <1>7 DEF Crash, Restart, queue
  <1>8. CASE Next
    BY <1>2, <1>5, <1>6, <1>7, <1>8 DEF Next
  <1> QED
    BY <1>1, <1>8

\* The stream and its consumers are a work queue for any number of hooks and
\* events: whoever dies and however often an event is delivered again, each is
\* settled by itself and once, after it was handed out in order.
THEOREM WorkQueueRefined == Spec => ImplementsWorkQueue
  <1>1. Spec => [](TypeInv /\ EventInv /\ PendingInv)
    BY EventInit, EventStep, PendingInit, PendingStep, TypeCorrect, PTL DEF Spec
  <1> QED
    BY <1>1, QueueInit, QueueStep, PTL DEF Spec, ImplementsWorkQueue, Queue!Spec

--------------------------------------------------------------------------------
(* Copies.  A row of main-api is known as long as it is in the table or an  *)
(* update that has read it is about to save it: a deleted row may come back *)
(* by such an update, and must then be the copy it was.                     *)
Saving == {c \in Calls : call[c].pc = "save"}
Known == users["main"] \cup {call[c].row : c \in Saving}

Same(q, r) == q.id = r.id /\ q.peer = r.peer /\ q.email = r.email

IdentityInv ==
    /\ \A r \in users["auth"] \cup Known : r.id <= lastId
    /\ \A q, r \in Known : q.id = r.id => Same(q, r)
    /\ \A q, r \in users["main"] : q.id = r.id => q = r

LEMMA KnownType ==
  ASSUME TypeInv
  PROVE  /\ users["auth"] \subseteq Row /\ users["main"] \subseteq Row
         /\ Known \subseteq Row /\ lastId \in Nat
         /\ \A r \in users["auth"] \cup Known : r.id \in Nat
  <1>1. users \in [Sides -> SUBSET Row] /\ lastId \in Nat
    BY DEF TypeInv, DataOK
  <1>2. \A c \in Saving : call[c].row \in Row
    BY DEF Saving, TypeInv, CallsOK, WellFormed
  <1>3. users["auth"] \subseteq Row /\ users["main"] \subseteq Row
    BY <1>1 DEF Sides
  <1>4. \A r \in Row : r.id \in Nat
    BY DEF Row
  <1> QED
    BY <1>1, <1>2, <1>3, <1>4 DEF Known

\* No row gets a new identity.
LEMMA IdentityKept ==
  ASSUME TypeInv, IdentityInv, lastId' = lastId, users'["auth"] = users["auth"],
         \A r \in Known' : \E q \in Known : Same(q, r),
         \A q, r \in users'["main"] : q.id = r.id => q = r
  PROVE  IdentityInv'
  <1>1. \A r \in users'["auth"] \cup Known' : r.id <= lastId'
    BY DEF IdentityInv, Same
  <1>2. \A q, r \in Known' : q.id = r.id => Same(q, r)'
    BY DEF IdentityInv, Same
  <1> QED
    BY <1>1, <1>2 DEF IdentityInv

\* An inserted row gets an id that none has.
LEMMA IdentityInsert ==
  ASSUME TypeInv, IdentityInv, NEW s \in Sides, NEW row, row.id = lastId + 1,
         Insert(s, row),
         \A d \in Calls : call'[d] = call[d] \/ call'[d].pc # "save"
  PROVE  IdentityInv'
  <1>1. users \in [Sides -> SUBSET Row] /\ "auth" \in Sides /\ "main" \in Sides
    BY DEF TypeInv, DataOK, Sides
  <1>2. /\ lastId' = lastId + 1
        /\ \A r \in users'["auth"] : r \in users["auth"] \/ r = row
        /\ \A r \in users'["main"] : r \in users["main"] \/ r = row
    BY <1>1 DEF Insert
  <1>3. \A r \in Known' : r \in Known \/ r = row
    BY <1>2 DEF Known, Saving
  <1>4. \A r \in users["auth"] \cup Known : r.id <= lastId /\ r.id \in Nat /\ r.id # row.id
    BY KnownType DEF IdentityInv
  <1>5. \A r \in users'["auth"] \cup Known' : r.id <= lastId'
    BY <1>2, <1>3, <1>4, KnownType
  <1>6. \A q, r \in Known' : q.id = r.id => Same(q, r)'
    BY <1>3, <1>4 DEF IdentityInv, Same
  <1>7. \A q, r \in users'["main"] : q.id = r.id => q = r
    BY <1>2, <1>4 DEF IdentityInv, Known
  <1> QED
    BY <1>5, <1>6, <1>7 DEF IdentityInv

LEMMA IdentityRequest ==
  ASSUME TypeInv, IdentityInv, NEW c \in Calls, Request(c)
  PROVE  IdentityInv'
  <1>1. call \in [Calls -> CallState] /\ "auth" \in Sides /\ "main" \in Sides
    BY DEF TypeInv, CallsOK, Sides
  <1>2. \A peer, email, username, roles :
           NewRow(peer, email, username, roles).id = lastId + 1
    BY DEF NewRow
  <1>3. ASSUME NEW email \in Emails, NEW username \in Usernames,
               SignupUser(c, email, username)
        PROVE  IdentityInv'
    <2>1. \A d \in Calls : call'[d] = call[d] \/ call'[d].pc = "publish"
      BY <1>1, <1>3 DEF SignupUser, Goto, NoCall
    <2> QED
      BY <1>1, <1>2, <1>3, <2>1, IdentityInsert DEF SignupUser
  <1>4. ASSUME NEW email \in Emails, NEW username \in Usernames,
               NEW roles \in RoleChoices, NEW agentRoles \in AgentRoles,
               CreateUser(c, email, username, roles, agentRoles)
        PROVE  IdentityInv'
    <2>1. \A d \in Calls : call'[d] = call[d] \/ call'[d].pc = "publish"
      BY <1>1, <1>4 DEF CreateUser, Goto, NoCall
    <2> QED
      BY <1>1, <1>2, <1>4, <2>1, IdentityInsert DEF CreateUser
  <1>5. ASSUME NEW row \in users["main"], NEW username \in Usernames,
               NEW roles \in RoleChoices, NEW agentRoles \in AgentRoles,
               UpdateUser(c, row, username, roles, agentRoles)
        PROVE  IdentityInv'
    <2>1. row \in Row
      BY KnownType
    <2>2. Same(row, call'[c].row)
      BY <1>1, <1>5, <2>1 DEF UpdateUser, Goto, NoCall, Row, Same
    <2>3. \A d \in Calls : d = c \/ call'[d] = call[d]
      BY <1>1, <1>5 DEF UpdateUser, Goto
    <2>4. users' = users /\ lastId' = lastId
      BY <1>5 DEF UpdateUser
    <2>5. \A r \in Known' : \E q \in Known : Same(q, r)
      BY <2>2, <2>3, <2>4 DEF Known, Saving, Same
    <2> QED
      BY <2>4, <2>5, IdentityKept DEF IdentityInv
  <1>6. ASSUME NEW row \in users["main"], NEW agentRoles \in AgentRoles,
               DeactivateUser(c, row, agentRoles) \/ DeleteUser(c, row, agentRoles)
        PROVE  IdentityInv'
    <2>1. \A d \in Calls : call'[d] = call[d] \/ call'[d].pc \in {"deactivate", "delete"}
      BY <1>1, <1>6 DEF DeactivateUser, DeleteUser, Goto, NoCall
    <2>2. users' = users /\ lastId' = lastId
      BY <1>6 DEF DeactivateUser, DeleteUser
    <2>3. Known' \subseteq Known
      BY <2>1, <2>2 DEF Known, Saving
    <2> QED
      BY <2>2, <2>3, IdentityKept DEF IdentityInv, Same
  <1> QED
    BY <1>3, <1>4, <1>5, <1>6 DEF Request

LEMMA SavedRow ==
  ASSUME TypeInv, NEW c \in Calls, SaveUser(c)
  PROVE  /\ users'["auth"] = users["auth"] /\ call[c].row \in Known
         /\ \/ users' = users
            \/ users'["main"] = {r \in users["main"] : r.id # call[c].row.id} \cup {call[c].row}
  BY DEF SaveUser, Known, Saving, TypeInv, DataOK, Sides

LEMMA IdentityContinue ==
  ASSUME TypeInv, IdentityInv, NEW c \in Calls, Continue(c)
  PROVE  IdentityInv'
  <1>1. call \in [Calls -> CallState] /\ WellFormed(call[c])
        /\ users \in [Sides -> SUBSET Row] /\ "main" \in Sides /\ "auth" \in Sides
    BY DEF TypeInv, CallsOK, DataOK, Sides
  <1>2. CASE PublishEvent(c) \/ HookFails(c) \/ Ack(c) \/ RemoveUser(c)
    <2>1. \A d \in Calls : call'[d] = call[d] \/ call'[d].pc = "idle"
      BY <1>1, <1>2 DEF PublishEvent, HookFails, Ack, RemoveUser, Goto, Dies, NoCall
    <2>2. /\ users'["auth"] = users["auth"] /\ users'["main"] \subseteq users["main"]
          /\ lastId' = lastId
      BY <1>1, <1>2 DEF PublishEvent, HookFails, Ack, RemoveUser
    <2>3. Known' \subseteq Known
      BY <2>1, <2>2 DEF Known, Saving
    <2> QED
      BY <2>2, <2>3, IdentityKept DEF IdentityInv, Same
  <1>3. CASE SaveUser(c)
    <2> DEFINE row == call[c].row
    <2>1. \A d \in Calls : call'[d] = call[d] \/ call'[d].pc \in {"idle", "publish"}
      BY <1>3, SaveUserCalls
    <2>2. row \in Known /\ users'["auth"] = users["auth"] /\ lastId' = lastId
      BY <1>3, SavedRow DEF SaveUser
    <2>3. \/ users' = users
          \/ users'["main"] = {r \in users["main"] : r.id # row.id} \cup {row}
      BY <1>3, SavedRow
    <2> HIDE DEF row
    <2>4. Known' \subseteq Known
      BY <2>1, <2>2, <2>3 DEF Known, Saving
    <2>5. \A q, r \in users'["main"] : q.id = r.id => q = r
      BY <2>3 DEF IdentityInv
    <2>6. \A r \in Known' : \E q \in Known : Same(q, r)
      BY <2>4 DEF Same
    <2> QED
      BY <2>2, <2>5, <2>6, IdentityKept
  <1>4. CASE SetInactive(c)
    <2>1. \A d \in Calls : call'[d] = call[d] \/ call'[d].pc = "idle"
      BY <1>1, <1>4 DEF SetInactive, Goto, NoCall
    <2>2. users'["auth"] = users["auth"] /\ lastId' = lastId
      BY <1>1, <1>4 DEF SetInactive
    <2> DEFINE After(r) == IF r.id = call[c].row.id THEN [r EXCEPT !.active = FALSE] ELSE r
    <2>3. users'["main"] = {After(r) : r \in users["main"]}
      BY <1>1, <1>4 DEF SetInactive
    <2>4. \A r \in users["main"] : Same(r, After(r))
      BY KnownType DEF Row, Same
    <2> HIDE DEF After
    <2>5. \A r \in Known' : \E q \in Known : Same(q, r)
      BY <2>1, <2>3, <2>4 DEF Known, Saving, Same
    <2>6. \A q, r \in users'["main"] : q.id = r.id => q = r
      BY <2>3, <2>4 DEF IdentityInv, Same
    <2> QED
      BY <2>2, <2>5, <2>6, IdentityKept
  <1>5. CASE HookCreate(c)
    <2>1. \A d \in Calls : call'[d] = call[d] \/ call'[d].pc = "ack"
      BY <1>1, <1>5 DEF HookCreate, Goto, CallState
    <2>2. call[c].side \in Sides
      BY <1>1, <1>5, ReceiverType DEF HookCreate, WellFormed
    <2>3. RowOf(call[c].event).id = lastId + 1
      BY DEF RowOf, NewRow
    <2> QED
      BY <1>5, <2>1, <2>2, <2>3, IdentityInsert DEF HookCreate
  <1> QED
    BY <1>2, <1>3, <1>4, <1>5 DEF Continue

LEMMA IdentityStep == TypeInv /\ IdentityInv /\ [Next]_vars => IdentityInv'
  <1> SUFFICES ASSUME TypeInv, IdentityInv, [Next]_vars PROVE IdentityInv'
    OBVIOUS
  <1>1. CASE UNCHANGED vars
    BY <1>1 DEF vars, IdentityInv, Known, Saving, Same
  <1>2. ASSUME NEW s \in Sides, Crash(s) \/ Restart(s) PROVE IdentityInv'
    <2>1. \A d \in Calls : call'[d] = call[d] \/ call'[d].pc = "idle"
      BY <1>2 DEF Crash, Restart, Dies, NoCall
    <2>2. users' = users /\ lastId' = lastId
      BY <1>2 DEF Crash, Restart
    <2>3. Known' \subseteq Known
      BY <2>1, <2>2 DEF Known, Saving
    <2> QED
      BY <2>2, <2>3, IdentityKept DEF IdentityInv, Same
  <1>3. ASSUME NEW c \in Calls, NEW event \in stream, Consume(c, event) PROVE IdentityInv'
    <2>1. call \in [Calls -> CallState]
      BY DEF TypeInv, CallsOK
    <2>2. \A d \in Calls : call'[d] = call[d] \/ call'[d].pc = "create"
      BY <1>3, <2>1 DEF Consume, Deliver, Redeliver, Goto, NoCall
    <2>3. users' = users /\ lastId' = lastId
      BY <1>3 DEF Consume, Deliver, Redeliver
    <2>4. Known' \subseteq Known
      BY <2>2, <2>3 DEF Known, Saving
    <2> QED
      BY <2>3, <2>4, IdentityKept DEF IdentityInv, Same
  <1>4. CASE Next
    BY <1>2, <1>3, <1>4, IdentityRequest, IdentityContinue DEF Next
  <1> QED
    BY <1>1, <1>4

LEMMA IdentityInit == Init => IdentityInv
  BY DEF Init, IdentityInv, Known, Saving, NoCall, Sides

(* The mapping.  What the abstract variables are mapped to: *)
accounts == {AccountOf(r) : r \in Accounts}
copies == {CopyOf(r) : r \in Copies}

LEMMA MirrorsInit == Init => Replication!Init
  BY DEF Init, Replication!Init, Accounts, Copies, Sides

\* Neither table gets or loses a row that counts, or only columns that do not change.
LEMMA MirrorsStutter ==
  ASSUME Accounts' = Accounts,
         \A r \in Copies : \E q \in Copies' : Same(q, r),
         \A r \in Copies' : \E q \in Copies : Same(q, r)
  PROVE  UNCHANGED <<accounts, copies>>
  <1>1. accounts' = accounts
    BY DEF accounts
  <1>2. \A q, r : Same(q, r) => CopyOf(q) = CopyOf(r)
    BY DEF Same, CopyOf
  <1>3. copies' = copies
    BY <1>2 DEF copies
  <1> QED
    BY <1>1, <1>3

LEMMA MirrorsCopy ==
  ASSUME Accounts' = Accounts, NEW row, row.peer # None, HasSource(row.peer, row.email),
         Copies' = Copies \cup {row},
         \A r \in Copies : r.id # row.id /\ r.peer # row.peer
  PROVE  Replication!Next
  <1>1. PICK s \in Accounts : s.id = row.peer /\ s.email = row.email
    BY DEF HasSource, Accounts
  <1>2. /\ CopyOf(row).id = row.id /\ CopyOf(row).of = row.peer
        /\ CopyOf(row).email = row.email
        /\ AccountOf(s).id = s.id /\ AccountOf(s).email = s.email
    BY DEF CopyOf, AccountOf
  <1>3. \E a \in accounts : CopyOf(row).of = a.id /\ CopyOf(row).email = a.email
    BY <1>1, <1>2 DEF accounts
  <1>4. \A n \in copies : n.id # CopyOf(row).id /\ n.of # CopyOf(row).of
    BY <1>2 DEF copies, CopyOf
  <1>5. copies' = copies \cup {CopyOf(row)} /\ accounts' = accounts
    BY DEF copies, accounts
  <1>6. Replication!Copy(CopyOf(row))
    BY <1>3, <1>4, <1>5 DEF Replication!Copy, accounts, copies
  <1>7. CopyOf(row) \in copies'
    BY <1>5
  <1> QED
    BY <1>6, <1>7 DEF Replication!Next, copies

LEMMA MirrorsSignup ==
  ASSUME TypeInv, IdentityInv, NEW c \in Calls, NEW email \in Emails,
         NEW username \in Usernames, SignupUser(c, email, username)
  PROVE  Replication!Next
  <1> DEFINE row == NewRow(None, email, username, {"sys_admin"})
  <1>1. row.peer = None /\ row.id = lastId + 1 /\ row.email = email
    BY DEF NewRow
  <1>2. /\ Insert("auth", row) /\ users \in [Sides -> SUBSET Row]
        /\ "auth" \in Sides /\ "main" \in Sides
    BY DEF SignupUser, TypeInv, DataOK, Sides
  <1> HIDE DEF row
  <1>3. users'["auth"] = users["auth"] \cup {row} /\ users'["main"] = users["main"]
    BY <1>2 DEF Insert
  <1>4. Accounts' = Accounts \cup {row} /\ Copies' = Copies
    BY <1>1, <1>3 DEF Accounts, Copies
  <1>5. \A r \in Accounts : r.id # row.id /\ r.email # row.email
    <2>1. \A r \in users["auth"] : r.id \in Nat /\ r.id <= lastId
      BY KnownType DEF IdentityInv
    <2>2. \A r \in users["auth"] : r.email # row.email
      BY <1>2 DEF Insert, Conflict, Clash
    <2> QED
      BY <1>1, <2>1, <2>2, KnownType DEF Accounts
  <1>6. accounts' = accounts \cup {AccountOf(row)} /\ copies' = copies
    BY <1>4 DEF accounts, copies
  <1>7. \A b \in accounts : b.id # AccountOf(row).id /\ b.email # AccountOf(row).email
    BY <1>5 DEF accounts, AccountOf
  <1>8. Replication!SignUp(AccountOf(row))
    BY <1>6, <1>7 DEF Replication!SignUp, accounts, copies
  <1>9. AccountOf(row) \in accounts'
    BY <1>6
  <1> QED
    BY <1>8, <1>9 DEF Replication!Next, accounts

LEMMA MirrorsSave ==
  ASSUME TypeInv, SourceInv, IdentityInv, NEW c \in Calls, SaveUser(c)
  PROVE  Replication!Next \/ UNCHANGED <<accounts, copies>>
  <1> DEFINE row == call[c].row
             others == {r \in users["main"] : r.id # row.id}
  <1>1. row \in Known /\ users'["auth"] = users["auth"]
    BY SavedRow
  <1>2. Accounts' = Accounts
    BY <1>1 DEF Accounts
  <1>3. row.peer # None => HasSource(row.peer, row.email)
    BY DEF SourceInv, CallHasSource, SaveUser
  <1>4. \A q \in users["main"] : q.id = row.id => Same(q, row)
    BY <1>1 DEF IdentityInv, Known
  <1>5. CASE users' = users
    BY <1>2, <1>5, MirrorsStutter DEF Copies, Same
  <1>6. CASE users'["main"] = others \cup {row} /\ users' # users
    <2>1. \A r \in others : ~Clash(r, row)
      BY <1>6 DEF SaveUser
    <2>2. CASE row.peer = None
      <3>1. Copies' = Copies
        BY <1>4, <1>6, <2>2 DEF Copies, Same
      <3> QED
        BY <1>2, <3>1, MirrorsStutter DEF Same
    <2>3. CASE row.peer # None /\ \E q \in users["main"] : q.id = row.id
      <3>1. \A r \in Copies : r \in Copies' \/ Same(row, r)
        BY <1>4, <1>6 DEF Copies, Same
      <3>2. \A r \in Copies' : r \in Copies \/ r = row
        BY <1>6 DEF Copies
      <3>3. row \in Copies' /\ \E q \in Copies : Same(q, row)
        BY <1>4, <1>6, <2>3 DEF Copies, Same
      <3>4. /\ \A r \in Copies : \E q \in Copies' : Same(q, r)
            /\ \A r \in Copies' : \E q \in Copies : Same(q, r)
        BY <3>1, <3>2, <3>3 DEF Same
      <3> QED
        BY <1>2, <3>4, MirrorsStutter
    <2>4. CASE row.peer # None /\ \A q \in users["main"] : q.id # row.id
      <3>1. Copies' = Copies \cup {row}
        BY <1>6, <2>4 DEF Copies
      <3>2. \A r \in Copies : r.id # row.id /\ r.peer # row.peer
        BY <2>1, <2>4 DEF Copies, Clash
      <3> QED
        BY <1>2, <1>3, <2>4, <3>1, <3>2, MirrorsCopy
    <2> QED
      BY <2>2, <2>3, <2>4
  <1> QED
    BY <1>5, <1>6, SavedRow

LEMMA MirrorsRemove ==
  ASSUME TypeInv, IdentityInv, NEW c \in Calls, RemoveUser(c)
  PROVE  Replication!Next \/ UNCHANGED <<accounts, copies>>
  <1> DEFINE i == call[c].row.id
  <1>1. /\ users'["auth"] = users["auth"]
        /\ users'["main"] = {r \in users["main"] : r.id # i}
    BY DEF RemoveUser, TypeInv, DataOK, Sides
  <1> HIDE DEF i
  <1>2. Accounts' = Accounts /\ Copies' = {r \in Copies : r.id # i}
    BY <1>1 DEF Accounts, Copies
  <1>3. CASE \A r \in Copies : r.id # i
    <2>1. Copies' = Copies
      BY <1>2, <1>3
    <2> QED
      BY <1>2, <2>1, MirrorsStutter DEF Same
  <1>4. ASSUME NEW q \in Copies, q.id = i PROVE Replication!Next
    <2>1. \A r \in Copies : r.id = i => r = q
      BY <1>4 DEF IdentityInv, Copies
    <2>2. \A r \in Copies : CopyOf(r).id = r.id
      BY DEF CopyOf
    <2>3. copies' = copies \ {CopyOf(q)} /\ accounts' = accounts
      <3>1. copies' = {CopyOf(r) : r \in {p \in Copies : p.id # i}}
        BY <1>2 DEF copies
      <3> QED
        BY <1>2, <1>4, <2>1, <2>2, <3>1 DEF copies, accounts
    <2>4. Replication!Remove(CopyOf(q)) /\ CopyOf(q) \in copies
      BY <1>4, <2>3 DEF Replication!Remove, copies, accounts
    <2> QED
      BY <2>4 DEF Replication!Next, copies
  <1> QED
    BY <1>3, <1>4

LEMMA MirrorsHook ==
  ASSUME TypeInv, SourceInv, IdentityInv, NEW c \in Calls, HookCreate(c)
  PROVE  Replication!Next \/ UNCHANGED <<accounts, copies>>
  <1> DEFINE e == call[c].event
             row == RowOf(e)
  <1>1. /\ e \in Event /\ call[c].side = Receiver(e) /\ call[c].pc = "create"
        /\ Insert(Receiver(e), row)
    BY DEF HookCreate, TypeInv, CallsOK, WellFormed
  <1>2. row.peer = e.from /\ row.email = e.email /\ row.id = lastId + 1
    BY DEF RowOf, NewRow
  <1>3. row.peer # None
    BY <1>1, <1>2, SyncAssumption DEF Event
  <1>4. e.subject = "auth.user.signup" => HasSource(e.from, e.email)
    BY <1>1 DEF SourceInv, CallHasSource
  <1>5. users \in [Sides -> SUBSET Row] /\ "auth" \in Sides /\ "main" \in Sides
    BY DEF TypeInv, DataOK, Sides
  <1> HIDE DEF e, row
  <1>6. CASE e.subject = "auth.user.signup"
    <2>1. users'["auth"] = users["auth"] /\ users'["main"] = users["main"] \cup {row}
      BY <1>1, <1>5, <1>6 DEF Insert, Receiver
    <2>2. Accounts' = Accounts /\ Copies' = Copies \cup {row}
      BY <1>3, <2>1 DEF Accounts, Copies
    <2>3. \A r \in users["main"] : r.id \in Nat /\ r.id <= lastId
      BY KnownType DEF IdentityInv, Known
    <2>4. \A r \in users["main"] : ~Clash(r, row)
      BY <1>1, <1>6 DEF Insert, Conflict, Receiver
    <2>5. \A r \in Copies : r.id # row.id /\ r.peer # row.peer
      BY <1>2, <2>3, <2>4, KnownType DEF Copies, Clash
    <2>6. HasSource(row.peer, row.email)
      BY <1>2, <1>4, <1>6
    <2> QED
      BY <1>3, <2>2, <2>5, <2>6, MirrorsCopy
  <1>7. CASE e.subject # "auth.user.signup"
    <2>1. users'["auth"] = users["auth"] \cup {row} /\ users'["main"] = users["main"]
      BY <1>1, <1>5, <1>7 DEF Insert, Receiver
    <2>2. Accounts' = Accounts /\ Copies' = Copies
      BY <1>3, <2>1 DEF Accounts, Copies
    <2> QED
      BY <2>2, MirrorsStutter DEF Same
  <1> QED
    BY <1>6, <1>7

LEMMA MirrorsStep ==
  TypeInv /\ SourceInv /\ IdentityInv /\ [Next]_vars
    => [Replication!Next]_<<accounts, copies>>
  <1> SUFFICES ASSUME TypeInv, SourceInv, IdentityInv, [Next]_vars
               PROVE  Replication!Next \/ UNCHANGED <<accounts, copies>>
    OBVIOUS
  <1>1. /\ users \in [Sides -> SUBSET Row] /\ "auth" \in Sides /\ "main" \in Sides
    BY DEF TypeInv, DataOK, Sides
  <1>2. users' = users => UNCHANGED <<accounts, copies>>
    BY DEF accounts, copies, Accounts, Copies
  <1>3. ASSUME NEW c \in Calls, NEW email \in Emails, NEW username \in Usernames,
               NEW roles \in RoleChoices, NEW agentRoles \in AgentRoles,
               CreateUser(c, email, username, roles, agentRoles)
        PROVE  UNCHANGED <<accounts, copies>>
    <2> DEFINE row == NewRow(None, email, username,
                             parseAllowedRoles(roles, Agent(agentRoles)))
    <2>1. row.peer = None
      BY DEF NewRow
    <2>2. users' = [users EXCEPT !["main"] = @ \cup {row}]
      BY <1>3 DEF CreateUser, Insert
    <2> HIDE DEF row
    <2>3. users'["auth"] = users["auth"] /\ users'["main"] = users["main"] \cup {row}
      BY <1>1, <2>2
    <2>4. Accounts' = Accounts /\ Copies' = Copies
      BY <2>1, <2>3 DEF Accounts, Copies
    <2> QED
      BY <2>4 DEF accounts, copies
  <1>4. ASSUME NEW c \in Calls, Request(c)
        PROVE  Replication!Next \/ UNCHANGED <<accounts, copies>>
    BY <1>2, <1>3, <1>4, MirrorsSignup DEF Request, UpdateUser, DeactivateUser, DeleteUser
  <1>5. ASSUME NEW c \in Calls, SetInactive(c) PROVE UNCHANGED <<accounts, copies>>
    <2> DEFINE After(r) == IF r.id = call[c].row.id THEN [r EXCEPT !.active = FALSE] ELSE r
    <2>1. users'["auth"] = users["auth"] /\ users'["main"] = {After(r) : r \in users["main"]}
      BY <1>1, <1>5 DEF SetInactive
    <2>2. \A r \in users["main"] : Same(r, After(r)) /\ Same(After(r), r)
      BY KnownType DEF Row, Same
    <2> HIDE DEF After
    <2>3. Accounts' = Accounts
      BY <2>1 DEF Accounts
    <2>4. /\ \A r \in Copies : \E q \in Copies' : Same(q, r)
          /\ \A r \in Copies' : \E q \in Copies : Same(q, r)
      BY <2>1, <2>2 DEF Copies, Same
    <2> QED
      BY <2>3, <2>4, MirrorsStutter
  <1>6. ASSUME NEW c \in Calls, Continue(c)
        PROVE  Replication!Next \/ UNCHANGED <<accounts, copies>>
    BY <1>2, <1>5, <1>6, MirrorsSave, MirrorsRemove, MirrorsHook
       DEF Continue, PublishEvent, HookFails, Ack
  <1>7. ASSUME NEW c \in Calls, NEW event \in stream, Consume(c, event)
        PROVE  users' = users
    BY <1>7 DEF Consume, Deliver, Redeliver
  <1>8. ASSUME NEW s \in Sides, Crash(s) \/ Restart(s) PROVE users' = users
    BY <1>8 DEF Crash, Restart
  <1>9. CASE UNCHANGED vars
    BY <1>2, <1>9 DEF vars
  <1> QED
    BY <1>2, <1>4, <1>6, <1>7, <1>8, <1>9 DEF Next

\* The rows of main-api that name an account are copies of accounts that signed up,
\* one at most of each, made and removed as a whole and never altered, for every
\* interleaving of requests, hooks, failures and redeliveries.
THEOREM MirrorsRefined == Spec => ImplementsMirrors
  <1>1. Spec => [](TypeInv /\ SourceInv /\ IdentityInv)
    BY SourceInit, SourceStep, IdentityInit, IdentityStep, TypeCorrect, PTL DEF Spec
  <1>2. TypeInv /\ SourceInv /\ IdentityInv /\ [Next]_vars
          => [Replication!Next]_<<{AccountOf(r) : r \in Accounts}, {CopyOf(r) : r \in Copies}>>
    BY MirrorsStep DEF accounts, copies
  <1> QED
    BY <1>1, <1>2, MirrorsInit, PTL DEF Spec, ImplementsMirrors, Replication!Spec
================================================================================
