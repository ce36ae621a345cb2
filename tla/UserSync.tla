-------------------------------- MODULE UserSync --------------------------------
(***************************************************************************)
(* The user tables of auth-ms and main-api and the events that keep them   *)
(* in step: signup in auth-ms, creation, update, deactivation and deletion *)
(* in main-api, the hooks that consume the other side's events, and the    *)
(* JetStream work queue between them (packages/nats-jetstream-transport-   *)
(* module).                                                                *)
(*                                                                         *)
(* As in AuthService, a handler or hook in flight is a call with one step  *)
(* per database command or message sent.  The consume loop does not await  *)
(* the hook, so hooks for several messages run side by side; a hook that   *)
(* throws rejects a promise nobody awaits, which ends its process.         *)
(*                                                                         *)
(* A row keeps what the code compares: its id, the id of the row it was    *)
(* copied from (authUserId in main-api, userId in auth-ms), the unique     *)
(* columns, roles and active.  The agent of a request is a user of auth-ms,*)
(* whose id is never the id of a row of main-api: the branches of          *)
(* updateUser for a user's own record are out of reach.                    *)
(***************************************************************************)
EXTENDS RolePolicy, Naturals, FiniteSets

CONSTANTS
    Emails, Usernames,
    Calls,          \* handlers and hooks that can be in flight at the same time
    AgentRoles,     \* the role lists of the agents that send requests
    RoleChoices,    \* the role lists that requests carry
    MaxAckPending,  \* max_ack_pending of the durable consumers
    MaxEvents,      \* bound: events stored in a behaviour
    MaxIds,         \* bound: ids given before requests that create or delete stop
    Operations,     \* the message patterns of the two services that clients send
    Faults,         \* what may go wrong: "publish", "error", "slow"
    Crashing        \* the services that may be killed

Sides == {"auth", "main"}

\* The agent the gateway attaches to a request.
Agent(roles) == [id |-> 0, active |-> TRUE, roles |-> roles]

ASSUME SyncAssumption ==
    /\ None \notin Nat \cup Sides
    /\ AgentRoles \subseteq SUBSET UserRole
    /\ \A roles \in AgentRoles : Agent(roles) # None
    /\ RoleChoices \subseteq RoleLists
    /\ MaxAckPending \in Nat \ {0}
    /\ MaxEvents \in Nat /\ MaxIds \in Nat

VARIABLES
    users,    \* the two tables of users
    lastId,   \* the last id given to a row, of either table
    stream,   \* stream USERS: the events stored and not settled
    pending,  \* sequence numbers of the events delivered and not settled
    lastSeq,  \* the last sequence number of the stream
    up,       \* the services that are running
    call,     \* local state of every handler and hook
    created   \* history: sequence numbers of the events a row was inserted for

vars == <<users, lastId, stream, pending, lastSeq, up, call, created>>

Row == [ id : Nat, peer : Nat \cup {None}, email : Emails, username : Usernames,
         roles : SUBSET UserRole, active : BOOLEAN ]

Subjects == {"auth.user.signup", "app.user.signup", "app.user.update"}
Event == [ seq : Nat, subject : Subjects, from : Nat,
           email : Emails, username : Usernames, roles : SUBSET UserRole ]

Points == {"idle", "publish", "save", "deactivate", "delete", "create", "ack"}
CallState == [ pc    : Points,
               side  : Sides \cup {None},            \* the process it runs in
               event : Event \cup {None},            \* to be published, or consumed
               row   : Row \cup {None},              \* the entity at hand
               agent : RoleLists ]

NoCall == [pc |-> "idle", side |-> None, event |-> None, row |-> None, agent |-> None]

Init ==
    /\ users = [s \in Sides |-> {}]
    /\ lastId = 0
    /\ stream = {}
    /\ pending = {}
    /\ lastSeq = 0
    /\ up = Sides
    /\ call = [c \in Calls |-> NoCall]
    /\ created = {}

queue == <<stream, pending, lastSeq>>

--------------------------------------------------------------------------------
(* Helpers. *)

Goto(c, state) == call' = [call EXCEPT ![c] = state]

\* The service s runs and takes a request.
Accepts(op, c, s) == op \in Operations /\ s \in up /\ call[c].pc = "idle"

\* Bounds on what a behaviour publishes and inserts.
EventsLeft ==
    lastSeq + Cardinality({c \in Calls : call[c].pc \in {"publish", "save"}}) < MaxEvents
IdsLeft == lastId < MaxIds

\* The unique columns of both tables.
Clash(r, row) == \/ r.email = row.email
                 \/ r.username = row.username
                 \/ r.peer = row.peer /\ r.peer # None
Conflict(s, row) == \E r \in users[s] : Clash(r, row)

\* findActiveUser of main-api throws on the others.
ActiveUsers == {r \in users["main"] : r.active}

NewRow(peer, email, username, roles) ==
    [ id |-> lastId + 1, peer |-> peer, email |-> email, username |-> username,
      roles |-> roles, active |-> TRUE ]

\* Mutant: the insert replaces the rows it clashes with.
Upsert(s, row) ==
    /\ users' = [users EXCEPT ![s] = {r \in @ : ~Clash(r, row)} \cup {row}]
    /\ lastId' = row.id

Insert(s, row) ==
    /\ ~Conflict(s, row)
    /\ users' = [users EXCEPT ![s] = @ \cup {row}]
    /\ lastId' = row.id

\* Mutant: the event names the row its subject was copied from, not the subject.
EventOfPeer(subject, row, roles) ==
    [ seq |-> 0, subject |-> subject, from |-> row.peer, email |-> row.email,
      username |-> row.username, roles |-> roles ]

\* An event about a row; its sequence number is given when it is stored.
EventOf(subject, row, roles) ==
    [ seq |-> 0, subject |-> subject, from |-> row.id, email |-> row.email,
      username |-> row.username, roles |-> roles ]

\* filter_subject of the two consumers
Receiver(event) == IF event.subject = "auth.user.signup" THEN "main" ELSE "auth"

\* The row a consumed event asks for: the hook passes no agent to createUser, whose
\* parseAllowedRoles then grants what the event lists.
RolesOf(event) == parseAllowedRoles(event.roles, None)
RowOf(event) == NewRow(event.from, event.email, event.username, RolesOf(event))

\* A process ends, with the calls it was serving.
Dies(s) ==
    /\ up' = up \ {s}
    /\ call' = [c \in Calls |-> IF call[c].side = s THEN NoCall ELSE call[c]]

--------------------------------------------------------------------------------
(* auth.signup.user: the row is committed, then the event published. *)

\* Mutant: the event goes out although the row is not there (createUser is not
\* awaited, and fails).
SignupWithoutRow(c, email, username) ==
    LET row == NewRow(None, email, username, {"sys_admin"}) IN
    /\ Accepts("signup", c, "auth") /\ EventsLeft /\ IdsLeft
    /\ lastId' = row.id
    /\ Goto(c, [NoCall EXCEPT !.pc = "publish", !.side = "auth",
                              !.event = EventOf("auth.user.signup", row, row.roles)])
    /\ UNCHANGED <<users, queue, up, created>>

SignupUser(c, email, username) ==
    LET row == NewRow(None, email, username, {"sys_admin"}) IN
    /\ Accepts("signup", c, "auth") /\ EventsLeft /\ IdsLeft
    /\ Insert("auth", row)
    /\ Goto(c, [NoCall EXCEPT !.pc = "publish", !.side = "auth",
                              !.event = EventOf("auth.user.signup", row, row.roles)])
    /\ UNCHANGED <<queue, up, created>>

(* user.create: the row has the roles the agent may grant, the event those   *)
(* the request asked for.                                                    *)
CreateUser(c, email, username, roles, agentRoles) ==
    LET granted == parseAllowedRoles(roles, Agent(agentRoles))
        row == NewRow(None, email, username, granted)
    IN
    /\ Accepts("create", c, "main") /\ EventsLeft /\ IdsLeft
    /\ checkAllowed_User_CreateAction(Agent(agentRoles))
    /\ granted # None
    /\ Insert("main", row)
    /\ Goto(c, [NoCall EXCEPT !.pc = "publish", !.side = "main", !.agent = agentRoles,
                              !.event = EventOf("app.user.signup", row, roles)])
    /\ UNCHANGED <<queue, up, created>>

(* publishEvent: the event is stored, or it is not; the handler ends either  *)
(* way, with an error that changes nothing here.                             *)
PublishEvent(c) ==
    /\ call[c].pc = "publish"
    /\ \/ /\ stream' = stream \cup {[call[c].event EXCEPT !.seq = lastSeq + 1]}
          /\ lastSeq' = lastSeq + 1
       \/ "publish" \in Faults /\ UNCHANGED <<stream, lastSeq>>
    /\ Goto(c, NoCall)
    /\ UNCHANGED <<users, lastId, pending, up, created>>

--------------------------------------------------------------------------------
(* user.update.by.id: an active row is read and checked, and saved with the *)
(* requested values later: updated if it is still there, inserted if not.   *)

\* Mutant: the row need not be active.
UpdateAnyUser(c, row, username, roles, agentRoles) ==
    /\ Accepts("update", c, "main") /\ EventsLeft
    /\ checkAllowed_User_UpdateAction(row, Agent(agentRoles), roles)
    /\ Goto(c, [NoCall EXCEPT !.pc = "save", !.side = "main", !.agent = agentRoles,
                  !.row = [row EXCEPT !.username = username,
                                      !.roles = updateTargetUserRoles(row, roles)]])
    /\ UNCHANGED <<users, lastId, queue, up, created>>

UpdateUser(c, row, username, roles, agentRoles) ==
    /\ Accepts("update", c, "main") /\ EventsLeft
    /\ row \in ActiveUsers
    /\ checkAllowed_User_UpdateAction(row, Agent(agentRoles), roles)
    /\ Goto(c, [NoCall EXCEPT !.pc = "save", !.side = "main", !.agent = agentRoles,
                  !.row = [row EXCEPT !.username = username,
                                      !.roles = updateTargetUserRoles(row, roles)]])
    /\ UNCHANGED <<users, lastId, queue, up, created>>

SaveUser(c) ==
    LET row == call[c].row
        others == {r \in users["main"] : r.id # row.id}
    IN
    /\ call[c].pc = "save"
    /\ IF \E r \in others : Clash(r, row)
       THEN Goto(c, NoCall) /\ UNCHANGED users
       ELSE /\ users' = [users EXCEPT !["main"] = others \cup {row}]
            /\ Goto(c, [call[c] EXCEPT
                          !.pc = "publish", !.row = None,
                          !.event = EventOf("app.user.update", row, row.roles)])
    /\ UNCHANGED <<lastId, queue, up, created>>

(* user.deactivate.by.id and user.delete: the row is read and checked, then *)
(* written by id.  No event is published.                                   *)
DeactivateUser(c, row, agentRoles) ==
    /\ Accepts("deactivate", c, "main")
    /\ row \in ActiveUsers
    /\ checkAllowedActionOn_User(row, Agent(agentRoles))
    /\ Goto(c, [NoCall EXCEPT !.pc = "deactivate", !.side = "main", !.row = row])
    /\ UNCHANGED <<users, lastId, queue, up, created>>

SetInactive(c) ==
    /\ call[c].pc = "deactivate"
    /\ users' = [users EXCEPT !["main"] =
                   {IF r.id = call[c].row.id THEN [r EXCEPT !.active = FALSE] ELSE r
                      : r \in users["main"]}]
    /\ Goto(c, NoCall)
    /\ UNCHANGED <<lastId, queue, up, created>>

DeleteUser(c, row, agentRoles) ==
    /\ Accepts("delete", c, "main") /\ IdsLeft
    /\ checkAllowedActionOn_User(row, Agent(agentRoles))
    /\ Goto(c, [NoCall EXCEPT !.pc = "delete", !.side = "main", !.row = row])
    /\ UNCHANGED <<users, lastId, queue, up, created>>

RemoveUser(c) ==
    /\ call[c].pc = "delete"
    /\ users' = [users EXCEPT !["main"] = {r \in users["main"] : r.id # call[c].row.id}]
    /\ Goto(c, NoCall)
    /\ UNCHANGED <<lastId, queue, up, created>>

--------------------------------------------------------------------------------
(* The consumers. *)

\* The server hands the consumer of an event the oldest one it has not delivered,
\* unless too many wait for their acknowledgement.  An update is only logged.
Deliver(c, event) ==
    /\ event \in stream /\ event.seq \notin pending
    /\ \A e \in stream : Receiver(e) = Receiver(event) /\ e.seq \notin pending
                            => event.seq <= e.seq
    /\ Cardinality({e \in stream : Receiver(e) = Receiver(event) /\ e.seq \in pending})
         < MaxAckPending
    /\ Receiver(event) \in up /\ call[c].pc = "idle"
    /\ pending' = pending \cup {event.seq}
    /\ IF event.subject = "app.user.update"
       THEN UNCHANGED call
       ELSE Goto(c, [NoCall EXCEPT !.pc = "create", !.side = Receiver(event),
                                   !.event = event])
    /\ UNCHANGED <<users, lastId, stream, lastSeq, up, created>>

\* ack_wait has passed: the hook died with its process, or it is slow.  (An update
\* that comes again is logged again, and nothing changes.)
Redeliver(c, event) ==
    /\ event \in stream /\ event.seq \in pending
    /\ event.subject # "app.user.update"
    /\ "slow" \in Faults \/ \A d \in Calls : call[d].event # event
    /\ Receiver(event) \in up /\ call[c].pc = "idle"
    /\ Goto(c, [NoCall EXCEPT !.pc = "create", !.side = Receiver(event), !.event = event])
    /\ UNCHANGED <<users, lastId, queue, up, created>>

\* Mutant: the event is acknowledged before createUser is awaited.
AckThenCreate(c) ==
    /\ call[c].pc = "create"
    /\ Goto(c, [call[c] EXCEPT !.pc = "ack"])
    /\ UNCHANGED <<users, lastId, queue, up, created>>

\* createUser of the hook, on either side.
HookCreate(c) ==
    /\ call[c].pc = "create"
    /\ Insert(call[c].side, RowOf(call[c].event))
    /\ created' = created \cup {call[c].event.seq}
    /\ Goto(c, [call[c] EXCEPT !.pc = "ack"])
    /\ UNCHANGED <<queue, up>>

\* Mutant: the hook catches the error and leaves it at that.
HookFailsQuietly(c) ==
    /\ call[c].pc = "create"
    /\ Conflict(call[c].side, RowOf(call[c].event)) \/ "error" \in Faults
    /\ Goto(c, NoCall)
    /\ UNCHANGED <<users, lastId, queue, up, created>>

\* createUser throws: the hook terminates the event and throws on, which ends the
\* process; the termination may not have left it yet.
HookFails(c) ==
    /\ call[c].pc = "create"
    /\ \/ Conflict(call[c].side, RowOf(call[c].event))
       \/ "error" \in Faults
    /\ \/ /\ stream' = {e \in stream : e.seq # call[c].event.seq}
          /\ pending' = pending \ {call[c].event.seq}
       \/ UNCHANGED <<stream, pending>>
    /\ Dies(call[c].side)
    /\ UNCHANGED <<users, lastId, lastSeq, created>>

\* Mutant: the acknowledgement covers the earlier events of the consumer as well.
AckAll(c) ==
    LET settled == {e \in stream : /\ Receiver(e) = Receiver(call[c].event)
                                   /\ e.seq <= call[c].event.seq}
    IN
    /\ call[c].pc = "ack"
    /\ stream' = stream \ settled
    /\ pending' = pending \ {e.seq : e \in settled}
    /\ Goto(c, NoCall)
    /\ UNCHANGED <<users, lastId, lastSeq, up, created>>

Ack(c) ==
    /\ call[c].pc = "ack"
    /\ stream' = {e \in stream : e.seq # call[c].event.seq}
    /\ pending' = pending \ {call[c].event.seq}
    /\ Goto(c, NoCall)
    /\ UNCHANGED <<users, lastId, lastSeq, up, created>>

\* A service is killed while it serves a call (at other times nothing is lost).
Crash(s) ==
    /\ s \in Crashing
    /\ \E c \in Calls : call[c].side = s
    /\ Dies(s)
    /\ UNCHANGED <<users, lastId, queue, created>>

\* A service starts, and consumes what its consumer has.
Restart(s) ==
    /\ s \notin up
    /\ up' = up \cup {s}
    /\ UNCHANGED <<users, lastId, queue, call, created>>

--------------------------------------------------------------------------------
Request(c) ==
    \/ \E email \in Emails, username \in Usernames :
          \/ SignupUser(c, email, username)
          \/ \E roles \in RoleChoices, agentRoles \in AgentRoles :
                CreateUser(c, email, username, roles, agentRoles)
    \/ \E row \in users["main"], agentRoles \in AgentRoles :
          \/ \E username \in Usernames, roles \in RoleChoices :
                UpdateUser(c, row, username, roles, agentRoles)
          \/ DeactivateUser(c, row, agentRoles)
          \/ DeleteUser(c, row, agentRoles)

Continue(c) ==
    \/ PublishEvent(c)
    \/ SaveUser(c)
    \/ SetInactive(c)
    \/ RemoveUser(c)
    \/ HookCreate(c)
    \/ HookFails(c)
    \/ Ack(c)

Consume(c, event) == Deliver(c, event) \/ Redeliver(c, event)

Next ==
    \/ \E c \in Calls : Request(c) \/ Continue(c)
    \/ \E c \in Calls, event \in stream : Consume(c, event)
    \/ \E s \in Sides : Crash(s) \/ Restart(s)

Spec == Init /\ [][Next]_vars

(* The event loops resume every handler whose command has been answered, and *)
(* the server delivers what it may deliver: strongly, because it is only the *)
(* bound on Calls that makes a delivery wait for a handler to end.           *)
FairSpec ==
    /\ Spec
    /\ \A c \in Calls : WF_vars(Continue(c))
    /\ SF_vars(\E c \in Calls, event \in stream : Consume(c, event))

--------------------------------------------------------------------------------
(* Properties. *)

\* Types of the state: every call's local state fits the await it is at.
TypeOK ==
    /\ users \in [Sides -> SUBSET Row]
    /\ lastId \in Nat
    /\ stream \subseteq Event
    /\ pending \subseteq Nat
    /\ lastSeq \in Nat
    /\ up \subseteq Sides
    /\ call \in [Calls -> CallState]
    /\ created \subseteq Nat

\* A row of main-api that names an account of auth-ms has a committed row there
\* to name, with the same email: no event runs ahead of the row it announces
\* (signupUser: "Send message only on succesfull insert/create").
MirrorsHaveSources ==
    \A r \in users["main"] : r.peer # None =>
        \E s \in users["auth"] : s.id = r.peer /\ s.email = r.email

\* The hook of the call c threw on the event e, and its process ends.
ThrewOn(c, e) == call[c].pc = "create" /\ call[c].event = e /\ Receiver(e) \notin up'

\* At-least-once delivery, and where it ends: an event leaves the stream only after a
\* row was inserted for it, or by its own hook, when createUser threw: then the service
\* ends in that step (handleNatsJetstreamMessages of both services).  As long as
\* createUser fails on unique columns only, the row is one they forbid; any other error
\* of it (the database, the lookup of a role) drops the event for good.
DroppedOnlyByItsHook ==
    [][\A e \in stream \ stream' :
          \/ e.seq \in created
          \/ /\ \E c \in Calls : ThrewOn(c, e)
             /\ "error" \in Faults \/ Conflict(Receiver(e), RowOf(e))]_vars

\* A user of main-api is inactive or gone, and no update that read the row before
\* is in flight.
Gone(i) ==
    /\ \A r \in users["main"] : r.id = i => ~r.active
    /\ \A c \in Calls : call[c].pc = "save" => call[c].row.id # i

\* Deactivation and deletion in main-api are final once the updates that
\* overlapped them are over: no save brings the row back (updateUser reads only
\* active rows, and ids are not given twice).
GoneIsFinal == [][\A i \in 1..lastId : Gone(i) => Gone(i)']_vars

\* What a step grants: a row that has sys_admin now and did not before.
Grants(r) ==
    /\ r \in users'["main"] /\ "sys_admin" \in r.roles
    /\ \A q \in users["main"] : q.id = r.id => "sys_admin" \notin q.roles

\* In main-api a user becomes sys_admin only by the request of a sys_admin or by
\* a signup event, whatever updates by admins are in flight with roles read
\* before ("Admins are only forbidden from assigning sysadmins").
SysAdminsAreMadeBySysAdmins ==
    [][\A r \in users'["main"] : Grants(r) =>
          \E c \in Calls :
             /\ call'[c] # call[c]
             /\ \/ call[c].pc = "create"
                \/ call[c].pc = "save" /\ "sys_admin" \in call[c].agent
                \/ call[c].pc = "idle" /\ "sys_admin" \in call'[c].agent]_vars

\* The updates that wait for an acknowledgement, which their hook never sends, are as
\* many as the consumer may have.
Clogged(s) ==
    Cardinality({e \in stream : /\ e.subject = "app.user.update" /\ Receiver(e) = s
                                /\ e.seq \in pending}) >= MaxAckPending

\* At least once, and not for ever: a signup event that was stored is settled, with
\* redeliveries beside hooks that are still running and hooks that find the row
\* there, on two conditions: the services do not go on dying, and the event does not
\* wait behind a consumer that is full of updates (handleNatsJetstreamMessages of
\* auth-ms logs an update and does not acknowledge it).  An event that was delivered
\* is settled in spite of them.
Stored(i) == \E e \in stream : e.seq = i /\ e.subject # "app.user.update"
Starved(i) == \E e \in stream : e.seq = i /\ i \notin pending /\ Clogged(Receiver(e))
SignupEventsSettle ==
    <>[](up = Sides) => \A i \in 1..MaxEvents : Stored(i) ~> (~Stored(i) \/ Starved(i))

\* The stream with its two durable consumers, as publishEvent and the hooks use it, is
\* a work queue: events come in the order of their numbers, and a hook settles, once,
\* the event it was called with and no other, however many hooks are at work and
\* whichever of them die (README of the transport: "acknowledged (ack())
\* immediately after they are successfully processed").
Queue == INSTANCE WorkQueue WITH
    Filter <- [subject \in Subjects |-> IF subject = "auth.user.signup" THEN "main" ELSE "auth"],
    stored <- stream, delivered <- pending, last <- lastSeq
ImplementsWorkQueue == Queue!Spec

\* Signup, its event and createUser of the hook in main-api together replicate: a row
\* that names an account is made as a copy of it, never when there is one, keeps the
\* account's id and email through every update, and goes as a whole; accounts stay
\* (user.service.ts, handleNatsJetstreamMessages and updateUser).
Accounts == {r \in users["auth"] : r.peer = None}
Copies == {r \in users["main"] : r.peer # None}
AccountOf(r) == [id |-> r.id, email |-> r.email]
CopyOf(r) == [id |-> r.id, of |-> r.peer, email |-> r.email]
Replication == INSTANCE Mirrors WITH
    accounts <- {AccountOf(r) : r \in Accounts},
    copies <- {CopyOf(r) : r \in Copies}
ImplementsMirrors == Replication!Spec

\* README.md: "creating a user in sign up -auth service database- should create a
\* user in the main application's database": when nothing is in flight, every
\* account signed up has its row in main-api.
SignupsAreMirrored ==
    (\A c \in Calls : call[c].pc = "idle") /\ stream = {} =>
        \A r \in users["auth"] : r.peer = None => \E s \in users["main"] : s.peer = r.id

\* parseAllowedRoles: "Admins can't create sysadmins": an account of auth-ms made
\* for a user of main-api is sys_admin only if that user is.
MirrorsHaveTheRolesGranted ==
    \A r \in users["auth"], s \in users["main"] :
        r.peer = s.id /\ "sys_admin" \in r.roles => "sys_admin" \in s.roles
================================================================================
