----------------------------- MODULE UserSyncProofs -----------------------------
(***************************************************************************)
(* Proofs about UserSync and RolePolicy, for any emails, usernames, calls, *)
(* agents, requests and faults.                                            *)
(***************************************************************************)
EXTENDS UserSync, TLAPS

(* Roles. *)

LEMMA GrantedRolesType ==
  ASSUME NEW roles \in RoleLists, NEW agent
  PROVE  parseAllowedRoles(roles, agent) \in RoleLists
  BY DEF parseAllowedRoles, findRoles, RoleLists

LEMMA RolesOfEvent ==
  ASSUME NEW roles \in SUBSET UserRole
  PROVE  parseAllowedRoles(roles, None) = roles
  BY RoleAssumption DEF parseAllowedRoles, findRoles

LEMMA UpdatedRolesType ==
  ASSUME NEW row \in Row, NEW roles \in RoleLists
  PROVE  updateTargetUserRoles(row, roles) \in SUBSET UserRole
  BY DEF updateTargetUserRoles, findRoles, RoleLists, Row, UserRole

\* An admin who is not a sys_admin is granted no list with sys_admin, whatever
\* the request says (parseAllowedRoles: "Admins can't create sysadmins").
THEOREM AdminsCannotGrantSysAdmin ==
  ASSUME NEW roles \in RoleLists, NEW agent, agent # None,
         "sys_admin" \notin agent.roles,
         parseAllowedRoles(roles, agent) # None
  PROVE  "sys_admin" \notin parseAllowedRoles(roles, agent)
  BY DEF parseAllowedRoles, findRoles

--------------------------------------------------------------------------------
(* Types.  TypeOK does not say that a call at an await has the event or the *)
(* row that the await is about.                                             *)
WellFormed(k) ==
    /\ k \in CallState
    /\ k.pc \in {"publish", "create", "ack"} => k.event \in Event
    /\ k.pc \in {"save", "deactivate", "delete"} => k.row \in Row
    /\ k.pc \in {"create", "ack"} => k.side = Receiver(k.event)

CallsOK ==
    /\ call \in [Calls -> CallState]
    /\ \A c \in Calls : WellFormed(call[c])

DataOK ==
    /\ users \in [Sides -> SUBSET Row]
    /\ lastId \in Nat
    /\ stream \subseteq Event
    /\ pending \subseteq Nat
    /\ lastSeq \in Nat
    /\ up \subseteq Sides
    /\ created \subseteq Nat

TypeInv == CallsOK /\ DataOK

LEMMA TypeInvImpliesTypeOK == TypeInv => TypeOK
  BY DEF TypeInv, CallsOK, DataOK, TypeOK

LEMMA NoCallWellFormed == WellFormed(NoCall)
  BY DEF WellFormed, NoCall, CallState, Points, RoleLists

LEMMA ReceiverType == \A e : Receiver(e) \in Sides
  BY DEF Receiver, Sides

LEMMA GotoCalls ==
  ASSUME CallsOK, NEW c \in Calls, NEW k, WellFormed(k), Goto(c, k)
  PROVE  CallsOK'
  <1>1. call' \in [Calls -> CallState]
    BY DEF CallsOK, Goto, WellFormed
  <1>2. ASSUME NEW d \in Calls PROVE WellFormed(call'[d])
    <2>1. call'[d] = k \/ call'[d] = call[d]
      BY DEF CallsOK, Goto
    <2> QED
      BY <2>1 DEF CallsOK
  <1> QED
    BY <1>1, <1>2 DEF CallsOK, WellFormed

LEMMA DiesCalls ==
  ASSUME CallsOK, NEW s, Dies(s)
  PROVE  CallsOK'
  <1>1. \A d \in Calls : call'[d] = NoCall \/ call'[d] = call[d]
    BY DEF Dies
  <1>2. \A d \in Calls : WellFormed(call'[d])
    BY <1>1, NoCallWellFormed DEF CallsOK
  <1>3. call' \in [Calls -> CallState]
    BY <1>2 DEF Dies, WellFormed
  <1> QED
    BY <1>2, <1>3 DEF CallsOK, WellFormed

LEMMA NewRowType ==
  ASSUME lastId \in Nat, NEW peer \in Nat \cup {None}, NEW email \in Emails,
         NEW username \in Usernames, NEW roles \in SUBSET UserRole
  PROVE  NewRow(peer, email, username, roles) \in Row
  BY DEF NewRow, Row

LEMMA EventOfType ==
  ASSUME NEW subject \in Subjects, NEW row \in Row, NEW roles \in SUBSET UserRole
  PROVE  EventOf(subject, row, roles) \in Event
  BY DEF EventOf, Row, Event

LEMMA RowOfType ==
  ASSUME lastId \in Nat, NEW e \in Event
  PROVE  RowOf(e) \in Row
  <1>1. /\ e.from \in Nat \cup {None} /\ e.email \in Emails
        /\ e.username \in Usernames /\ e.roles \in SUBSET UserRole
    BY DEF Event
  <1>2. RolesOf(e) \in SUBSET UserRole
    BY <1>1, RolesOfEvent DEF RolesOf
  <1> QED
    BY <1>1, <1>2, NewRowType DEF RowOf

LEMMA InsertData ==
  ASSUME DataOK, NEW s \in Sides, NEW row \in Row, Insert(s, row)
  PROVE  users' \in [Sides -> SUBSET Row] /\ lastId' \in Nat
  BY DEF DataOK, Insert, Row

(* The calls a request starts. *)

LEMMA PublishCall ==
  ASSUME NEW s \in Sides, NEW e \in Event, NEW agent \in RoleLists
  PROVE  WellFormed([NoCall EXCEPT !.pc = "publish", !.side = s, !.agent = agent,
                                   !.event = e])
  BY DEF WellFormed, NoCall, CallState, Points

LEMMA SignupCall ==
  ASSUME NEW e \in Event
  PROVE  WellFormed([NoCall EXCEPT !.pc = "publish", !.side = "auth", !.event = e])
  BY DEF WellFormed, NoCall, CallState, Points, RoleLists, Sides

LEMMA SaveCall ==
  ASSUME NEW row \in Row, NEW agent \in RoleLists
  PROVE  WellFormed([NoCall EXCEPT !.pc = "save", !.side = "main", !.agent = agent,
                                   !.row = row])
  BY DEF WellFormed, NoCall, CallState, Points, Sides

LEMMA RowCall ==
  ASSUME NEW row \in Row, NEW pc \in {"deactivate", "delete"}
  PROVE  WellFormed([NoCall EXCEPT !.pc = pc, !.side = "main", !.row = row])
  BY DEF WellFormed, NoCall, CallState, Points, RoleLists, Sides

LEMMA HookCall ==
  ASSUME NEW e \in Event
  PROVE  WellFormed([NoCall EXCEPT !.pc = "create", !.side = Receiver(e), !.event = e])
  BY ReceiverType DEF WellFormed, NoCall, CallState, Points, RoleLists

LEMMA AckCall ==
  ASSUME NEW k, WellFormed(k), k.pc = "create"
  PROVE  WellFormed([k EXCEPT !.pc = "ack"])
  BY DEF WellFormed, CallState, Points

LEMMA SavedCall ==
  ASSUME NEW k, WellFormed(k), NEW e \in Event
  PROVE  WellFormed([k EXCEPT !.pc = "publish", !.row = None, !.event = e])
  BY DEF WellFormed, CallState, Points

LEMMA UpdatedRow ==
  ASSUME NEW row \in Row, NEW username \in Usernames, NEW roles \in RoleLists
  PROVE  [row EXCEPT !.username = username, !.roles = updateTargetUserRoles(row, roles)]
            \in Row
  BY UpdatedRolesType DEF Row

LEMMA TypeRequest ==
  ASSUME TypeInv, NEW c \in Calls, Request(c)
  PROVE  TypeInv'
  <1> USE SyncAssumption
  <1>1. CallsOK /\ DataOK
    BY DEF TypeInv
  <1>2. "auth" \in Sides /\ "main" \in Sides
    BY DEF Sides
  <1>3. ASSUME NEW email \in Emails, NEW username \in Usernames,
               SignupUser(c, email, username)
        PROVE  TypeInv'
    <2> DEFINE row == NewRow(None, email, username, {"sys_admin"})
               e   == EventOf("auth.user.signup", row, row.roles)
    <2>1. {"sys_admin"} \in SUBSET UserRole
      BY DEF UserRole
    <2>2. row \in Row
      BY <1>1, <2>1, NewRowType DEF DataOK
    <2>3. e \in Event
      <3>1. row.roles \in SUBSET UserRole
        BY <2>2 DEF Row
      <3> QED
        BY <2>2, <3>1, EventOfType DEF Subjects
    <2> HIDE DEF row, e
    <2>4. CallsOK'
      BY <1>1, <1>3, <2>3, SignupCall, GotoCalls DEF SignupUser, row, e
    <2>5. users' \in [Sides -> SUBSET Row] /\ lastId' \in Nat
      BY <1>1, <1>2, <1>3, <2>2, InsertData DEF SignupUser, row
    <2> QED
      BY <1>1, <1>3, <2>4, <2>5 DEF SignupUser, TypeInv, DataOK, queue
  <1>4. ASSUME NEW email \in Emails, NEW username \in Usernames,
               NEW roles \in RoleChoices, NEW agentRoles \in AgentRoles,
               CreateUser(c, email, username, roles, agentRoles)
        PROVE  TypeInv'
    <2> DEFINE granted == parseAllowedRoles(roles, Agent(agentRoles))
               row == NewRow(None, email, username, granted)
               e   == EventOf("app.user.signup", row, roles)
    <2>1. granted # None
      BY <1>4 DEF CreateUser
    <2>2. roles \in RoleLists /\ agentRoles \in RoleLists
      BY DEF RoleLists
    <2>3. granted \in SUBSET UserRole
      BY <2>1, <2>2, GrantedRolesType DEF RoleLists
    <2>4. roles \in SUBSET UserRole
      BY <2>1, <2>2 DEF RoleLists, parseAllowedRoles
    <2> HIDE DEF granted
    <2>5. row \in Row
      BY <1>1, <2>3, NewRowType DEF DataOK
    <2>6. e \in Event
      BY <2>4, <2>5, EventOfType DEF Subjects
    <2> HIDE DEF row, e
    <2>7. CallsOK'
      BY <1>1, <1>2, <1>4, <2>2, <2>6, PublishCall, GotoCalls
         DEF CreateUser, row, e, granted
    <2>8. users' \in [Sides -> SUBSET Row] /\ lastId' \in Nat
      BY <1>1, <1>2, <1>4, <2>5, InsertData DEF CreateUser, row, granted
    <2> QED
      BY <1>1, <1>4, <2>7, <2>8 DEF CreateUser, TypeInv, DataOK, queue
  <1>5. ASSUME NEW row \in users["main"], NEW username \in Usernames,
               NEW roles \in RoleChoices, NEW agentRoles \in AgentRoles,
               UpdateUser(c, row, username, roles, agentRoles)
        PROVE  TypeInv'
    <2>1. row \in Row /\ roles \in RoleLists /\ agentRoles \in RoleLists
      BY <1>1, <1>2 DEF DataOK, RoleLists
    <2>2. CallsOK'
      BY <1>1, <1>5, <2>1, UpdatedRow, SaveCall, GotoCalls DEF UpdateUser
    <2> QED
      BY <1>1, <1>5, <2>2 DEF UpdateUser, TypeInv, DataOK, queue
  <1>6. ASSUME NEW row \in users["main"], NEW agentRoles \in AgentRoles,
               DeactivateUser(c, row, agentRoles) \/ DeleteUser(c, row, agentRoles)
        PROVE  TypeInv'
    <2>1. row \in Row
      BY <1>1, <1>2 DEF DataOK
    <2>2. CallsOK'
      BY <1>1, <1>6, <2>1, RowCall, GotoCalls DEF DeactivateUser, DeleteUser
    <2> QED
      BY <1>1, <1>6, <2>2 DEF DeactivateUser, DeleteUser, TypeInv, DataOK, queue
  <1> QED
    BY <1>3, <1>4, <1>5, <1>6 DEF Request

LEMMA TypeContinue ==
  ASSUME TypeInv, NEW c \in Calls, Continue(c)
  PROVE  TypeInv'
  <1>1. CallsOK /\ DataOK /\ WellFormed(call[c])
    BY DEF TypeInv, CallsOK
  <1>2. "main" \in Sides
    BY DEF Sides
  <1>3. CASE PublishEvent(c)
    <2>1. call[c].event \in Event
      BY <1>1, <1>3 DEF WellFormed, PublishEvent
    <2>2. [call[c].event EXCEPT !.seq = lastSeq + 1] \in Event
      BY <1>1, <2>1 DEF DataOK, Event
    <2>3. CallsOK'
      BY <1>1, <1>3, NoCallWellFormed, GotoCalls DEF PublishEvent
    <2>4. stream' \subseteq Event /\ lastSeq' \in Nat
      BY <1>1, <1>3, <2>2 DEF PublishEvent, DataOK
    <2> QED
      BY <1>1, <1>3, <2>3, <2>4 DEF PublishEvent, TypeInv, DataOK
  <1>4. CASE SaveUser(c)
    <2> DEFINE row == call[c].row
               e == EventOf("app.user.update", row, row.roles)
    <2>1. row \in Row
      BY <1>1, <1>4 DEF WellFormed, SaveUser
    <2>2. e \in Event
      <3>1. row.roles \in SUBSET UserRole
        BY <2>1 DEF Row
      <3> QED
        BY <2>1, <3>1, EventOfType DEF Subjects
    <2>3. CallsOK'
      <3>1. WellFormed([call[c] EXCEPT !.pc = "publish", !.row = None, !.event = e])
        BY <1>1, <2>2, SavedCall
      <3>2. PICK k \in {NoCall, [call[c] EXCEPT !.pc = "publish", !.row = None, !.event = e]} :
                  Goto(c, k)
        BY <1>4 DEF SaveUser
      <3> QED
        BY <1>1, <3>1, <3>2, NoCallWellFormed, GotoCalls
    <2>4. users' \in [Sides -> SUBSET Row]
      BY <1>1, <1>2, <1>4, <2>1 DEF SaveUser, DataOK
    <2> QED
      BY <1>1, <1>4, <2>3, <2>4 DEF SaveUser, TypeInv, DataOK, queue
  <1>5. CASE SetInactive(c)
    <2>1. CallsOK'
      BY <1>1, <1>5, NoCallWellFormed, GotoCalls DEF SetInactive
    <2>2. \A r \in Row : [r EXCEPT !.active = FALSE] \in Row
      BY DEF Row
    <2>3. users' \in [Sides -> SUBSET Row]
      BY <1>1, <1>2, <1>5, <2>2 DEF SetInactive, DataOK
    <2> QED
      BY <1>1, <1>5, <2>1, <2>3 DEF SetInactive, TypeInv, DataOK, queue
  <1>6. CASE RemoveUser(c)
    <2>1. CallsOK'
      BY <1>1, <1>6, NoCallWellFormed, GotoCalls DEF RemoveUser
    <2>2. users' \in [Sides -> SUBSET Row]
      BY <1>1, <1>2, <1>6 DEF RemoveUser, DataOK
    <2> QED
      BY <1>1, <1>6, <2>1, <2>2 DEF RemoveUser, TypeInv, DataOK, queue
  <1>7. CASE HookCreate(c)
    <2>1. call[c].event \in Event /\ call[c].side \in Sides
      BY <1>1, <1>7, ReceiverType DEF WellFormed, HookCreate
    <2>2. RowOf(call[c].event) \in Row
      BY <1>1, <2>1, RowOfType DEF DataOK
    <2>3. users' \in [Sides -> SUBSET Row] /\ lastId' \in Nat
      BY <1>1, <1>7, <2>1, <2>2, InsertData DEF HookCreate
    <2>4. CallsOK'
      BY <1>1, <1>7, AckCall, GotoCalls DEF HookCreate
    <2>5. created' \subseteq Nat
      BY <1>1, <1>7, <2>1 DEF HookCreate, DataOK, Event
    <2> QED
      BY <1>1, <1>7, <2>3, <2>4, <2>5 DEF HookCreate, TypeInv, DataOK, queue
  <1>8. CASE HookFails(c)
    <2>1. CallsOK'
      BY <1>1, <1>8, DiesCalls DEF HookFails
    <2>2. stream' \subseteq Event /\ pending' \subseteq Nat /\ up' \subseteq Sides
      BY <1>1, <1>8 DEF HookFails, Dies, DataOK
    <2> QED
      BY <1>1, <1>8, <2>1, <2>2 DEF HookFails, TypeInv, DataOK
  <1>9. CASE Ack(c)
    <2>1. CallsOK'
      BY <1>1, <1>9, NoCallWellFormed, GotoCalls DEF Ack
    <2> QED
      BY <1>1, <1>9, <2>1 DEF Ack, TypeInv, DataOK
  <1> QED
    BY <1>3, <1>4, <1>5, <1>6, <1>7, <1>8, <1>9 DEF Continue

LEMMA TypeConsume ==
  ASSUME TypeInv, NEW c \in Calls, NEW event \in stream, Consume(c, event)
  PROVE  TypeInv'
  <1>1. CallsOK /\ DataOK
    BY DEF TypeInv
  <1>2. event \in Event /\ event.seq \in Nat
    BY <1>1 DEF DataOK, Event
  <1>3. UNCHANGED call => CallsOK'
    BY <1>1 DEF CallsOK, WellFormed
  <1>4. CASE Deliver(c, event)
    <2>1. CallsOK'
      BY <1>1, <1>2, <1>3, <1>4, HookCall, GotoCalls DEF Deliver
    <2> QED
      BY <1>1, <1>2, <1>4, <2>1 DEF Deliver, TypeInv, DataOK
  <1>5. CASE Redeliver(c, event)
    <2>1. CallsOK'
      BY <1>1, <1>2, <1>5, HookCall, GotoCalls DEF Redeliver
    <2> QED
      BY <1>1, <1>5, <2>1 DEF Redeliver, TypeInv, DataOK, queue
  <1> QED
    BY <1>4, <1>5 DEF Consume

LEMMA TypeCrash ==
  ASSUME TypeInv, NEW s \in Sides, Crash(s) \/ Restart(s)
  PROVE  TypeInv'
  <1>1. CallsOK /\ DataOK
    BY DEF TypeInv
  <1>2. CASE Crash(s)
    <2>1. CallsOK' /\ up' \subseteq Sides
      BY <1>1, <1>2, DiesCalls DEF Crash, Dies, DataOK
    <2> QED
      BY <1>1, <1>2, <2>1 DEF Crash, TypeInv, DataOK, queue
  <1>3. CASE Restart(s)
    BY <1>1, <1>3 DEF Restart, TypeInv, CallsOK, WellFormed, DataOK, queue
  <1> QED
    BY <1>2, <1>3

LEMMA TypeInit == Init => TypeInv
  <1> SUFFICES ASSUME Init PROVE TypeInv
    OBVIOUS
  <1>1. CallsOK
    <2>1. \A c \in Calls : call[c] = NoCall
      BY DEF Init
    <2> QED
      BY <2>1, NoCallWellFormed DEF Init, CallsOK, WellFormed
  <1>2. DataOK
    BY DEF Init, DataOK
  <1> QED
    BY <1>1, <1>2 DEF TypeInv

LEMMA TypeStep == TypeInv /\ [Next]_vars => TypeInv'
  <1> SUFFICES ASSUME TypeInv, [Next]_vars PROVE TypeInv'
    OBVIOUS
  <1>1. CASE UNCHANGED vars
    BY <1>1 DEF vars, TypeInv, CallsOK, WellFormed, DataOK
  <1>2. CASE Next
    BY <1>2, TypeRequest, TypeContinue, TypeConsume, TypeCrash DEF Next
  <1> QED
    BY <1>1, <1>2

\* Every call has the event or the row its await is about (the inductive type
\* invariant).
THEOREM TypeCorrect == Spec => []TypeInv
  BY TypeInit, TypeStep, PTL DEF Spec

\* Type correctness of UserSync.
THEOREM TypeOKHolds == Spec => []TypeOK
  BY TypeCorrect, TypeInvImpliesTypeOK, PTL

--------------------------------------------------------------------------------
(* Every copy has its original, an account that signed up.  The invariant   *)
(* follows an account's id and email from the row of auth-ms through the    *)
(* handler that publishes, the stream and the hook to the row of main-api,  *)
(* and through its updates.                                                 *)
HasSource(id, email) ==
    \E s \in users["auth"] : s.id = id /\ s.email = email /\ s.peer = None

CallHasSource(k) ==
    /\ k.pc \in {"publish", "create", "ack"} /\ k.event.subject = "auth.user.signup"
         => HasSource(k.event.from, k.event.email)
    /\ k.pc = "save" /\ k.row.peer # None => HasSource(k.row.peer, k.row.email)

SourceInv ==
    /\ \A r \in users["main"] : r.peer # None => HasSource(r.peer, r.email)
    /\ \A e \in stream : e.subject = "auth.user.signup" => HasSource(e.from, e.email)
    /\ \A c \in Calls : CallHasSource(call[c])

\* Rows of auth-ms stay, and the call that takes the step is the only one to change.
LEMMA SourceKept ==
  ASSUME TypeInv, SourceInv,
         users["auth"] \subseteq users'["auth"],
         \A r \in users'["main"] : r.peer # None =>
            \/ \E q \in users["main"] : q.peer = r.peer /\ q.email = r.email
            \/ HasSource(r.peer, r.email)',
         stream' \subseteq stream,
         \A d \in Calls : \/ call'[d] = call[d]
                          \/ call'[d].pc \notin {"publish", "create", "ack", "save"}
                          \/ CallHasSource(call[d])'
  PROVE  SourceInv'
  <1>1. \A id, email : HasSource(id, email) => HasSource(id, email)'
    BY DEF HasSource
  <1>2. ASSUME NEW r \in users'["main"], r.peer # None
        PROVE  HasSource(r.peer, r.email)'
    <2>1. CASE \E q \in users["main"] : q.peer = r.peer /\ q.email = r.email
      BY <1>1, <1>2, <2>1 DEF SourceInv
    <2> QED
      BY <1>2, <2>1
  <1>3. \A e \in stream' : e.subject = "auth.user.signup" => HasSource(e.from, e.email)'
    BY <1>1 DEF SourceInv
  <1>4. \A d \in Calls : CallHasSource(call[d])'
    BY <1>1 DEF SourceInv, CallHasSource
  <1> QED
    BY <1>2, <1>3, <1>4 DEF SourceInv

LEMMA SourceRequest ==
  ASSUME TypeInv, SourceInv, NEW c \in Calls, Request(c)
  PROVE  SourceInv'
  <1>1. users \in [Sides -> SUBSET Row] /\ call \in [Calls -> CallState]
    BY DEF TypeInv, DataOK, CallsOK
  <1>2. "auth" \in Sides /\ "main" \in Sides
    BY DEF Sides
  <1>3. ASSUME NEW email \in Emails, NEW username \in Usernames,
               SignupUser(c, email, username)
        PROVE  SourceInv'
    <2> DEFINE row == NewRow(None, email, username, {"sys_admin"})
    <2>1. row \in users'["auth"] /\ users["auth"] \subseteq users'["auth"]
          /\ users'["main"] = users["main"]
      BY <1>1, <1>2, <1>3 DEF SignupUser, Insert
    <2>2. CallHasSource(call[c])'
      BY <1>1, <1>3, <2>1
         DEF SignupUser, Goto, CallHasSource, HasSource, EventOf, NewRow, NoCall
    <2>3. \A d \in Calls : d = c \/ call'[d] = call[d]
      BY <1>1, <1>3 DEF SignupUser, Goto
    <2> QED
      BY <1>3, <2>1, <2>2, <2>3, SourceKept DEF SignupUser, queue
  <1>4. ASSUME NEW email \in Emails, NEW username \in Usernames,
               NEW roles \in RoleChoices, NEW agentRoles \in AgentRoles,
               CreateUser(c, email, username, roles, agentRoles)
        PROVE  SourceInv'
    <2>1. users'["auth"] = users["auth"]
          /\ \A r \in users'["main"] : r \in users["main"] \/ r.peer = None
      BY <1>1, <1>2, <1>4 DEF CreateUser, Insert, NewRow
    <2>2. CallHasSource(call[c])'
      BY <1>1, <1>4 DEF CreateUser, Goto, CallHasSource, EventOf, NoCall
    <2>3. \A d \in Calls : d = c \/ call'[d] = call[d]
      BY <1>1, <1>4 DEF CreateUser, Goto
    <2> QED
      BY <1>4, <2>1, <2>2, <2>3, SourceKept DEF CreateUser, queue
  <1>5. ASSUME NEW row \in users["main"], NEW username \in Usernames,
               NEW roles \in RoleChoices, NEW agentRoles \in AgentRoles,
               UpdateUser(c, row, username, roles, agentRoles)
        PROVE  SourceInv'
    <2>1. row \in Row
      BY <1>1, <1>2
    <2>2. row.peer # None => HasSource(row.peer, row.email)'
      BY <1>5 DEF SourceInv, HasSource, UpdateUser
    <2>3. CallHasSource(call[c])'
      <3>1. /\ call'[c].pc = "save"
            /\ call'[c].row.peer = row.peer /\ call'[c].row.email = row.email
        BY <1>1, <1>5, <2>1 DEF UpdateUser, Goto, NoCall, Row
      <3> QED
        BY <2>2, <3>1 DEF CallHasSource
    <2>4. \A d \in Calls : d = c \/ call'[d] = call[d]
      BY <1>1, <1>5 DEF UpdateUser, Goto
    <2> QED
      BY <1>5, <2>3, <2>4, SourceKept DEF UpdateUser, queue
  <1>6. ASSUME NEW row \in users["main"], NEW agentRoles \in AgentRoles,
               DeactivateUser(c, row, agentRoles) \/ DeleteUser(c, row, agentRoles)
        PROVE  SourceInv'
    <2>1. \A d \in Calls : call'[d] = call[d] \/ call'[d].pc \in {"deactivate", "delete"}
      BY <1>1, <1>6 DEF DeactivateUser, DeleteUser, Goto, NoCall
    <2> QED
      BY <1>6, <2>1, SourceKept DEF DeactivateUser, DeleteUser, queue
  <1> QED
    BY <1>3, <1>4, <1>5, <1>6 DEF Request

LEMMA SaveUserCalls ==
  ASSUME TypeInv, NEW c \in Calls, SaveUser(c), NEW d \in Calls
  PROVE  \/ call'[d] = call[d]
         \/ call'[d].pc = "idle"
         \/ call'[d].pc = "publish" /\ call'[d].event.subject = "app.user.update"
  <1> DEFINE e == EventOf("app.user.update", call[c].row, call[c].row.roles)
             k == [call[c] EXCEPT !.pc = "publish", !.row = None, !.event = e]
  <1>1. call \in [Calls -> CallState]
    BY DEF TypeInv, CallsOK
  <1>2. e.subject = "app.user.update"
    BY DEF EventOf
  <1> HIDE DEF e
  <1>3. k.pc = "publish" /\ k.event = e
    BY <1>1 DEF CallState
  <1> HIDE DEF k
  <1>4. Goto(c, NoCall) \/ Goto(c, k)
    BY DEF SaveUser, k, e
  <1> QED
    BY <1>1, <1>2, <1>3, <1>4 DEF Goto, NoCall

LEMMA SourceContinue ==
  ASSUME TypeInv, SourceInv, NEW c \in Calls, Continue(c)
  PROVE  SourceInv'
  <1>1. /\ users \in [Sides -> SUBSET Row] /\ call \in [Calls -> CallState]
        /\ WellFormed(call[c]) /\ CallHasSource(call[c])
    BY DEF TypeInv, DataOK, CallsOK, SourceInv
  <1>2. "auth" \in Sides /\ "main" \in Sides /\ "auth" # "main"
    BY DEF Sides
  <1>3. CASE PublishEvent(c)
    <2> DEFINE e == call[c].event
    <2>1. /\ e \in Event /\ call[c].pc = "publish"
          /\ e.subject = "auth.user.signup" => HasSource(e.from, e.email)
      BY <1>1, <1>3 DEF PublishEvent, WellFormed, CallHasSource
    <2>2. LET f == [e EXCEPT !.seq = lastSeq + 1] IN
             f.subject = e.subject /\ f.from = e.from /\ f.email = e.email
      BY <2>1 DEF Event
    <2>3. \A f \in stream' : f.subject = "auth.user.signup" => HasSource(f.from, f.email)
      BY <1>3, <2>1, <2>2 DEF PublishEvent, SourceInv
    <2>4. \A d \in Calls : CallHasSource(call'[d])
      BY <1>1, <1>3 DEF PublishEvent, Goto, NoCall, CallHasSource, SourceInv
    <2>5. users' = users
      BY <1>3 DEF PublishEvent
    <2> QED
      BY <2>3, <2>4, <2>5
         DEF SourceInv, CallHasSource, HasSource
  <1>4. CASE SaveUser(c)
    <2> DEFINE row == call[c].row
    <2>1. row \in Row /\ (row.peer # None => HasSource(row.peer, row.email))
      BY <1>1, <1>4 DEF SaveUser, WellFormed, CallHasSource
    <2>2. users'["auth"] = users["auth"]
          /\ \A r \in users'["main"] : r \in users["main"] \/ r = row
      BY <1>1, <1>2, <1>4 DEF SaveUser
    <2>3. \A r \in users'["main"] : r.peer # None =>
             \/ \E q \in users["main"] : q.peer = r.peer /\ q.email = r.email
             \/ HasSource(r.peer, r.email)'
      BY <2>1, <2>2 DEF HasSource
    <2>4. \A d \in Calls : \/ call'[d] = call[d]
                           \/ call'[d].pc = "idle"
                           \/ /\ call'[d].pc = "publish"
                              /\ call'[d].event.subject = "app.user.update"
      BY <1>4, SaveUserCalls
    <2>5. \A d \in Calls : \/ call'[d] = call[d]
                           \/ call'[d].pc \notin {"publish", "create", "ack", "save"}
                           \/ CallHasSource(call[d])'
      BY <2>4 DEF CallHasSource
    <2> QED
      BY <1>4, <2>2, <2>3, <2>5, SourceKept DEF SaveUser, queue
  <1>5. CASE SetInactive(c)
    <2>1. users["main"] \subseteq Row
      BY <1>1, <1>2
    <2>2. users'["auth"] = users["auth"]
      BY <1>1, <1>2, <1>5 DEF SetInactive
    <2>3. \A r \in users'["main"] :
             \E q \in users["main"] : q.peer = r.peer /\ q.email = r.email
      BY <1>1, <1>2, <1>5, <2>1 DEF SetInactive, Row
    <2>4. \A d \in Calls : call'[d] = call[d] \/ call'[d].pc = "idle"
      BY <1>1, <1>5 DEF SetInactive, Goto, NoCall
    <2> QED
      BY <1>5, <2>2, <2>3, <2>4, SourceKept DEF SetInactive, queue
  <1>6. CASE RemoveUser(c)
    <2>1. users'["auth"] = users["auth"] /\ users'["main"] \subseteq users["main"]
      BY <1>1, <1>2, <1>6 DEF RemoveUser
    <2>2. \A d \in Calls : call'[d] = call[d] \/ call'[d].pc = "idle"
      BY <1>1, <1>6 DEF RemoveUser, Goto, NoCall
    <2> QED
      BY <1>6, <2>1, <2>2, SourceKept DEF RemoveUser, queue
  <1>7. CASE HookCreate(c)
    <2> DEFINE e == call[c].event
               row == RowOf(e)
    <2>1. /\ e \in Event /\ call[c].pc = "create" /\ call[c].side = Receiver(e)
          /\ e.subject = "auth.user.signup" => HasSource(e.from, e.email)
      BY <1>1, <1>7 DEF HookCreate, WellFormed, CallHasSource
    <2>2. row.peer = e.from /\ row.email = e.email
      BY DEF RowOf, NewRow
    <2>3. users' = [users EXCEPT ![Receiver(e)] = @ \cup {row}]
      BY <1>7, <2>1 DEF HookCreate, Insert
    <2>4. users["auth"] \subseteq users'["auth"]
      BY <1>1, <1>2, <2>3, ReceiverType
    <2>5. \A r \in users'["main"] :
             \/ r \in users["main"]
             \/ r = row /\ e.subject = "auth.user.signup"
      BY <1>1, <1>2, <2>3 DEF Receiver
    <2>6. \A r \in users'["main"] : r.peer # None =>
             \/ \E q \in users["main"] : q.peer = r.peer /\ q.email = r.email
             \/ HasSource(r.peer, r.email)'
      BY <2>1, <2>2, <2>4, <2>5 DEF HasSource
    <2>7. CallHasSource(call[c])'
      <3>1. call'[c].pc = "ack" /\ call'[c].event = e
        BY <1>1, <1>7 DEF HookCreate, Goto, CallState
      <3> QED
        BY <2>1, <2>4, <3>1 DEF CallHasSource, HasSource
    <2>8. \A d \in Calls : d = c \/ call'[d] = call[d]
      BY <1>1, <1>7 DEF HookCreate, Goto
    <2> QED
      BY <1>7, <2>4, <2>6, <2>7, <2>8, SourceKept DEF HookCreate, queue
  <1>8. CASE HookFails(c)
    <2>1. \A d \in Calls : call'[d] = call[d] \/ call'[d].pc = "idle"
      BY <1>8 DEF HookFails, Dies, NoCall
    <2>2. users' = users /\ stream' \subseteq stream
      BY <1>8 DEF HookFails
    <2> QED
      BY <2>1, <2>2, SourceKept
  <1>9. CASE Ack(c)
    <2>1. \A d \in Calls : call'[d] = call[d] \/ call'[d].pc = "idle"
      BY <1>1, <1>9 DEF Ack, Goto, NoCall
    <2>2. users' = users /\ stream' \subseteq stream
      BY <1>9 DEF Ack
    <2> QED
      BY <2>1, <2>2, SourceKept
  <1> QED
    BY <1>3, <1>4, <1>5, <1>6, <1>7, <1>8, <1>9 DEF Continue

LEMMA SourceConsume ==
  ASSUME TypeInv, SourceInv, NEW c \in Calls, NEW event \in stream, Consume(c, event)
  PROVE  SourceInv'
  <1>1. call \in [Calls -> CallState]
    BY DEF TypeInv, CallsOK
  <1>2. users' = users /\ stream' = stream
    BY DEF Consume, Deliver, Redeliver, queue
  <1>3. \A d \in Calls : \/ call'[d] = call[d]
                         \/ call'[d].pc = "create" /\ call'[d].event = event
    BY <1>1 DEF Consume, Deliver, Redeliver, Goto, NoCall
  <1>4. event.subject = "auth.user.signup" => HasSource(event.from, event.email)'
    BY <1>2 DEF SourceInv, HasSource
  <1>5. \A d \in Calls : call'[d] = call[d] \/ CallHasSource(call[d])'
    BY <1>3, <1>4 DEF CallHasSource
  <1> QED
    BY <1>2, <1>5, SourceKept

LEMMA SourceStep == TypeInv /\ SourceInv /\ [Next]_vars => SourceInv'
  <1> SUFFICES ASSUME TypeInv, SourceInv, [Next]_vars PROVE SourceInv'
    OBVIOUS
  <1>1. CASE UNCHANGED vars
    BY <1>1, SourceKept DEF vars
  <1>2. ASSUME NEW s \in Sides, Crash(s) \/ Restart(s) PROVE SourceInv'
    <2>1. \A d \in Calls : call'[d] = call[d] \/ call'[d].pc = "idle"
      BY <1>2 DEF Crash, Restart, Dies, NoCall
    <2>2. users' = users /\ stream' = stream
      BY <1>2 DEF Crash, Restart, queue
    <2> QED
      BY <2>1, <2>2, SourceKept
  <1>3. CASE Next
    BY <1>2, <1>3, SourceRequest, SourceContinue, SourceConsume DEF Next
  <1> QED
    BY <1>1, <1>3

LEMMA SourceInit == Init => SourceInv
  BY DEF Init, SourceInv, CallHasSource, NoCall, Sides

\* A row of main-api that names an account of auth-ms has that account's row, with
\* the same email, to name; whatever fails, dies or is delivered again.
THEOREM MirrorsHaveSourcesHolds == Spec => []MirrorsHaveSources
  <1>1. SourceInv => MirrorsHaveSources
    BY DEF SourceInv, HasSource, MirrorsHaveSources
  <1> QED
    BY <1>1, SourceInit, SourceStep, TypeCorrect, PTL DEF Spec

--------------------------------------------------------------------------------
(* Events are dropped on conflict only.  Sequence numbers name events: a    *)
(* hook settles the event it was called with and no other, and has inserted *)
(* its row before it acknowledges.                                          *)
HookOK(k) ==
    /\ k.pc \in {"create", "ack"} =>
          /\ k.event.seq <= lastSeq
          /\ \A e \in stream : e.seq = k.event.seq => e = k.event
    /\ k.pc = "ack" => k.event.seq \in created

EventInv ==
    /\ \A e \in stream : e.seq <= lastSeq
    /\ \A e, f \in stream : e.seq = f.seq => e = f
    /\ \A c \in Calls : HookOK(call[c])

LEMMA EventKept ==
  ASSUME EventInv, stream' \subseteq stream, lastSeq' = lastSeq,
         created \subseteq created',
         \A d \in Calls : \/ call'[d] = call[d]
                          \/ call'[d].pc \notin {"create", "ack"}
                          \/ HookOK(call[d])'
  PROVE  EventInv'
  BY DEF EventInv, HookOK

LEMMA EventRequest ==
  ASSUME TypeInv, EventInv, NEW c \in Calls, Request(c)
  PROVE  EventInv'
  <1>1. call \in [Calls -> CallState]
    BY DEF TypeInv, CallsOK
  <1>2. UNCHANGED <<queue, created>>
    BY DEF Request, SignupUser, CreateUser, UpdateUser, DeactivateUser, DeleteUser
  <1> DEFINE NotAHook == \A d \in Calls :
                            call'[d] = call[d] \/ call'[d].pc \notin {"create", "ack"}
  <1>3. ASSUME NEW email \in Emails, NEW username \in Usernames,
               SignupUser(c, email, username)
        PROVE  NotAHook
    BY <1>1, <1>3 DEF SignupUser, Goto, NoCall
  <1>4. ASSUME NEW email \in Emails, NEW username \in Usernames,
               NEW roles \in RoleChoices, NEW agentRoles \in AgentRoles,
               CreateUser(c, email, username, roles, agentRoles)
        PROVE  NotAHook
    BY <1>1, <1>4 DEF CreateUser, Goto, NoCall
  <1>5. ASSUME NEW row \in users["main"], NEW username \in Usernames,
               NEW roles \in RoleChoices, NEW agentRoles \in AgentRoles,
               UpdateUser(c, row, username, roles, agentRoles)
        PROVE  NotAHook
    BY <1>1, <1>5 DEF UpdateUser, Goto, NoCall
  <1>6. ASSUME NEW row \in users["main"], NEW agentRoles \in AgentRoles,
               DeactivateUser(c, row, agentRoles) \/ DeleteUser(c, row, agentRoles)
        PROVE  NotAHook
    BY <1>1, <1>6 DEF DeactivateUser, DeleteUser, Goto, NoCall
  <1>7. NotAHook
    BY <1>3, <1>4, <1>5, <1>6 DEF Request
  <1> QED
    BY <1>2, <1>7, EventKept DEF queue

LEMMA EventPublish ==
  ASSUME TypeInv, EventInv, NEW c \in Calls, PublishEvent(c)
  PROVE  EventInv'
  <1>1. /\ call \in [Calls -> CallState] /\ lastSeq \in Nat /\ stream \subseteq Event
        /\ call[c].event \in Event
    BY DEF TypeInv, CallsOK, DataOK, WellFormed, PublishEvent
  <1>2. \A d \in Calls : call'[d] = call[d] \/ call'[d].pc = "idle"
    BY <1>1 DEF PublishEvent, Goto, NoCall
  <1>3. CASE UNCHANGED <<stream, lastSeq>>
    BY <1>2, <1>3, EventKept DEF PublishEvent
  <1>4. CASE /\ stream' = stream \cup {[call[c].event EXCEPT !.seq = lastSeq + 1]}
             /\ lastSeq' = lastSeq + 1
    <2> DEFINE f == [call[c].event EXCEPT !.seq = lastSeq + 1]
    <2>1. f.seq = lastSeq + 1
      BY <1>1 DEF Event
    <2> HIDE DEF f
    <2>2. stream' = stream \cup {f}
      BY <1>4 DEF f
    <2>3. \A e \in stream : e.seq \in Nat /\ e.seq <= lastSeq
      BY <1>1 DEF EventInv, Event
    <2>4. \A e \in stream' : e \in stream \/ e.seq = lastSeq + 1
      BY <2>1, <2>2
    <2>5. \A e \in stream' : e.seq <= lastSeq'
      BY <1>1, <1>4, <2>3, <2>4
    <2>6. \A e, g \in stream' : e.seq = g.seq => e = g
      BY <1>1, <1>4, <2>2, <2>1, <2>3 DEF EventInv
    <2>7. ASSUME NEW d \in Calls, call'[d].pc \in {"create", "ack"}
          PROVE  /\ call'[d].event.seq <= lastSeq'
                 /\ \A e \in stream' : e.seq = call'[d].event.seq => e = call'[d].event
                 /\ call'[d].pc = "ack" => call'[d].event.seq \in created'
      <3>1. call'[d] = call[d] /\ call[d].event \in Event /\ HookOK(call[d])
        BY <1>2, <2>7 DEF EventInv, TypeInv, CallsOK, WellFormed
      <3>2. call[d].event.seq \in Nat /\ call[d].event.seq <= lastSeq
        BY <2>7, <3>1 DEF Event, HookOK
      <3> QED
        BY <1>1, <1>4, <2>4, <2>7, <3>1, <3>2 DEF HookOK, PublishEvent
    <2> QED
      BY <2>5, <2>6, <2>7 DEF EventInv, HookOK
  <1> QED
    BY <1>3, <1>4 DEF PublishEvent

LEMMA EventContinue ==
  ASSUME TypeInv, EventInv, NEW c \in Calls, Continue(c)
  PROVE  EventInv'
  <1>1. call \in [Calls -> CallState]
    BY DEF TypeInv, CallsOK
  <1>2. CASE SaveUser(c)
    <2>1. \A d \in Calls : call'[d] = call[d] \/ call'[d].pc \in {"idle", "publish"}
      BY <1>2, SaveUserCalls
    <2> QED
      BY <1>2, <2>1, EventKept DEF SaveUser, queue
  <1>3. CASE SetInactive(c) \/ RemoveUser(c) \/ Ack(c) \/ HookFails(c)
    <2>1. \A d \in Calls : call'[d] = call[d] \/ call'[d].pc = "idle"
      BY <1>1, <1>3 DEF SetInactive, RemoveUser, Ack, HookFails, Goto, Dies, NoCall
    <2> QED
      BY <1>3, <2>1, EventKept DEF SetInactive, RemoveUser, Ack, HookFails, queue
  <1>4. CASE HookCreate(c)
    <2>1. /\ call'[c].pc = "ack" /\ call'[c].event = call[c].event
          /\ call[c].pc = "create" /\ HookOK(call[c])
      BY <1>1, <1>4 DEF HookCreate, Goto, CallState, EventInv
    <2>2. HookOK(call[c])'
      BY <1>4, <2>1 DEF HookOK, HookCreate, queue
    <2>3. \A d \in Calls : d = c \/ call'[d] = call[d]
      BY <1>1, <1>4 DEF HookCreate, Goto
    <2> QED
      BY <1>4, <2>2, <2>3, EventKept DEF HookCreate, queue
  <1> QED
    BY <1>2, <1>3, <1>4, EventPublish DEF Continue

LEMMA EventConsume ==
  ASSUME TypeInv, EventInv, NEW c \in Calls, NEW event \in stream, Consume(c, event)
  PROVE  EventInv'
  <1>1. call \in [Calls -> CallState]
    BY DEF TypeInv, CallsOK
  <1>2. stream' = stream /\ lastSeq' = lastSeq /\ created' = created
    BY DEF Consume, Deliver, Redeliver, queue
  <1>3. \A d \in Calls : \/ call'[d] = call[d]
                         \/ call'[d].pc = "create" /\ call'[d].event = event
    BY <1>1 DEF Consume, Deliver, Redeliver, Goto, NoCall
  <1>4. \A d \in Calls : call'[d] = call[d] \/ HookOK(call[d])'
    BY <1>2, <1>3 DEF EventInv, HookOK
  <1> QED
    BY <1>2, <1>4, EventKept

LEMMA EventStep == TypeInv /\ EventInv /\ [Next]_vars => EventInv'
  <1> SUFFICES ASSUME TypeInv, EventInv, [Next]_vars PROVE EventInv'
    OBVIOUS
  <1>1. CASE UNCHANGED vars
    BY <1>1, EventKept DEF vars
  <1>2. ASSUME NEW s \in Sides, Crash(s) \/ Restart(s) PROVE EventInv'
    <2>1. \A d \in Calls : call'[d] = call[d] \/ call'[d].pc = "idle"
      BY <1>2 DEF Crash, Restart, Dies, NoCall
    <2> QED
      BY <1>2, <2>1, EventKept DEF Crash, Restart, queue
  <1>3. CASE Next
    BY <1>2, <1>3, EventRequest, EventContinue, EventConsume DEF Next
  <1> QED
    BY <1>1, <1>3

LEMMA EventInit == Init => EventInv
  BY DEF Init, EventInv, HookOK, NoCall

LEMMA DroppedStep ==
  ASSUME TypeInv, EventInv, [Next]_vars, NEW e \in stream \ stream'
  PROVE  \/ e.seq \in created
         \/ /\ \E c \in Calls : ThrewOn(c, e)
            /\ "error" \in Faults \/ Conflict(Receiver(e), RowOf(e))
  <1>1. PICK c \in Calls : Ack(c) \/ HookFails(c)
    <2>1. ASSUME NEW c \in Calls, Request(c) PROVE stream' = stream
      BY <2>1 DEF Request, SignupUser, CreateUser, UpdateUser, DeactivateUser, DeleteUser,
         queue
    <2>2. ASSUME NEW c \in Calls, Continue(c), ~Ack(c), ~HookFails(c)
          PROVE  stream \subseteq stream'
      BY <2>2 DEF Continue, PublishEvent, SaveUser, SetInactive, RemoveUser, HookCreate,
         queue
    <2>3. ASSUME NEW c \in Calls, NEW event \in stream, Consume(c, event)
          PROVE  stream' = stream
      BY <2>3 DEF Consume, Deliver, Redeliver, queue
    <2>4. ASSUME NEW s \in Sides, Crash(s) \/ Restart(s) PROVE stream' = stream
      BY <2>4 DEF Crash, Restart, queue
    <2> QED
      BY <2>1, <2>2, <2>3, <2>4 DEF Next, vars
  <1>2. /\ call[c].pc \in {"create", "ack"} /\ e.seq = call[c].event.seq
        /\ HookOK(call[c]) /\ call[c].side = Receiver(call[c].event)
    BY <1>1 DEF Ack, HookFails, EventInv, TypeInv, CallsOK, WellFormed
  <1>3. e = call[c].event
    BY <1>2 DEF HookOK
  <1>4. CASE Ack(c)
    BY <1>2, <1>4 DEF HookOK, Ack
  <1>5. CASE HookFails(c)
    <2>1. ThrewOn(c, e)
      BY <1>2, <1>3, <1>5 DEF HookFails, Dies, ThrewOn
    <2> QED
      BY <1>2, <1>3, <1>5, <2>1 DEF HookFails
  <1> QED
    BY <1>1, <1>4, <1>5

\* Whatever fails, dies or is delivered again, an event for which no row was inserted
\* leaves the stream only by its own hook, when createUser threw, in a step that ends
\* the service; where createUser fails on unique columns only, one forbids the row.
THEOREM DroppedOnlyByItsHookHolds == Spec => DroppedOnlyByItsHook
  <1>1. TypeInv /\ EventInv /\ [Next]_vars =>
          [\A e \in stream \ stream' :
              \/ e.seq \in created
              \/ /\ \E c \in Calls : ThrewOn(c, e)
                 /\ "error" \in Faults \/ Conflict(Receiver(e), RowOf(e))]_vars
    BY DroppedStep
  <1> QED
    BY <1>1, EventInit, EventStep, TypeCorrect, PTL DEF Spec, DroppedOnlyByItsHook

--------------------------------------------------------------------------------
(* Deactivated and deleted users.  A row of an id that was given before is  *)
(* only written by an update that has read it while it was active.          *)

LEMMA GoneRequest ==
  ASSUME TypeInv, NEW c \in Calls, Request(c), NEW i \in 1..lastId, Gone(i)
  PROVE  Gone(i)'
  <1>1. /\ users \in [Sides -> SUBSET Row] /\ lastId \in Nat
        /\ call \in [Calls -> CallState]
    BY DEF TypeInv, DataOK, CallsOK
  <1>2. "auth" \in Sides /\ "main" \in Sides
    BY DEF Sides
  <1>3. \A peer, email, username, roles : NewRow(peer, email, username, roles).id # i
    BY <1>1 DEF NewRow
  <1>4. ASSUME NEW email \in Emails, NEW username \in Usernames,
               SignupUser(c, email, username)
        PROVE  Gone(i)'
    <2>1. users'["main"] = users["main"]
      BY <1>1, <1>2, <1>4 DEF SignupUser, Insert
    <2>2. \A d \in Calls : call'[d] = call[d] \/ call'[d].pc = "publish"
      BY <1>1, <1>4 DEF SignupUser, Goto, NoCall
    <2> QED
      BY <2>1, <2>2 DEF Gone
  <1>5. ASSUME NEW email \in Emails, NEW username \in Usernames,
               NEW roles \in RoleChoices, NEW agentRoles \in AgentRoles,
               CreateUser(c, email, username, roles, agentRoles)
        PROVE  Gone(i)'
    <2>1. \A r \in users'["main"] : r \in users["main"] \/ r.id # i
      BY <1>1, <1>2, <1>3, <1>5 DEF CreateUser, Insert
    <2>2. \A d \in Calls : call'[d] = call[d] \/ call'[d].pc = "publish"
      BY <1>1, <1>5 DEF CreateUser, Goto, NoCall
    <2> QED
      BY <2>1, <2>2 DEF Gone
  <1>6. ASSUME NEW row \in users["main"], NEW username \in Usernames,
               NEW roles \in RoleChoices, NEW agentRoles \in AgentRoles,
               UpdateUser(c, row, username, roles, agentRoles)
        PROVE  Gone(i)'
    <2>1. row \in Row /\ row.id # i
      BY <1>1, <1>2, <1>6 DEF UpdateUser, ActiveUsers, Gone
    <2>2. \A d \in Calls : call'[d] = call[d] \/ call'[d].row.id = row.id
      BY <1>1, <1>6, <2>1 DEF UpdateUser, Goto, NoCall, Row
    <2> QED
      BY <1>6, <2>1, <2>2 DEF Gone, UpdateUser
  <1>7. ASSUME NEW row \in users["main"], NEW agentRoles \in AgentRoles,
               DeactivateUser(c, row, agentRoles) \/ DeleteUser(c, row, agentRoles)
        PROVE  Gone(i)'
    <2>1. \A d \in Calls : call'[d] = call[d] \/ call'[d].pc \in {"deactivate", "delete"}
      <3>1. CASE DeactivateUser(c, row, agentRoles)
        BY <1>1, <3>1 DEF DeactivateUser, Goto, NoCall
      <3>2. CASE DeleteUser(c, row, agentRoles)
        BY <1>1, <3>2 DEF DeleteUser, Goto, NoCall
      <3> QED
        BY <1>7, <3>1, <3>2
    <2> QED
      BY <1>7, <2>1 DEF Gone, DeactivateUser, DeleteUser
  <1> QED
    BY <1>4, <1>5, <1>6, <1>7 DEF Request

LEMMA GoneContinue ==
  ASSUME TypeInv, NEW c \in Calls, Continue(c), NEW i \in 1..lastId, Gone(i)
  PROVE  Gone(i)'
  <1>1. /\ users \in [Sides -> SUBSET Row] /\ lastId \in Nat
        /\ call \in [Calls -> CallState] /\ WellFormed(call[c])
    BY DEF TypeInv, DataOK, CallsOK
  <1>2. "main" \in Sides
    BY DEF Sides
  <1>3. CASE PublishEvent(c) \/ Ack(c) \/ HookFails(c)
    <2>1. \A d \in Calls : call'[d] = call[d] \/ call'[d].pc = "idle"
      BY <1>1, <1>3 DEF PublishEvent, Ack, HookFails, Goto, Dies, NoCall
    <2> QED
      BY <1>3, <2>1 DEF Gone, PublishEvent, Ack, HookFails
  <1>4. CASE SaveUser(c)
    <2>1. \A d \in Calls : call'[d] = call[d] \/ call'[d].pc \in {"idle", "publish"}
      BY <1>4, SaveUserCalls
    <2>2. \A r \in users'["main"] : r \in users["main"] \/ r = call[c].row
      BY <1>1, <1>2, <1>4 DEF SaveUser
    <2>3. call[c].row.id # i
      BY <1>4 DEF Gone, SaveUser
    <2> QED
      BY <2>1, <2>2, <2>3 DEF Gone
  <1>5. CASE SetInactive(c)
    <2>1. \A d \in Calls : call'[d] = call[d] \/ call'[d].pc = "idle"
      BY <1>1, <1>5 DEF SetInactive, Goto, NoCall
    <2>2. \A r \in users'["main"] :
             \E q \in users["main"] : q.id = r.id /\ (r.active => q.active)
      <3>1. users["main"] \subseteq Row
        BY <1>1, <1>2
      <3> QED
        BY <1>1, <1>2, <1>5, <3>1 DEF SetInactive, Row
    <2> QED
      BY <2>1, <2>2 DEF Gone
  <1>6. CASE RemoveUser(c)
    <2>1. \A d \in Calls : call'[d] = call[d] \/ call'[d].pc = "idle"
      BY <1>1, <1>6 DEF RemoveUser, Goto, NoCall
    <2>2. users'["main"] \subseteq users["main"]
      BY <1>1, <1>2, <1>6 DEF RemoveUser
    <2> QED
      BY <2>1, <2>2 DEF Gone
  <1>7. CASE HookCreate(c)
    <2>1. \A d \in Calls : call'[d] = call[d] \/ call'[d].pc = "ack"
      BY <1>1, <1>7 DEF HookCreate, Goto, CallState
    <2>2. RowOf(call[c].event).id # i
      BY <1>1 DEF RowOf, NewRow
    <2>3. \A r \in users'["main"] : r \in users["main"] \/ r.id # i
      BY <1>1, <1>2, <1>7, <2>2 DEF HookCreate, Insert
    <2> QED
      BY <2>1, <2>3 DEF Gone
  <1> QED
    BY <1>3, <1>4, <1>5, <1>6, <1>7 DEF Continue

LEMMA GoneStep ==
  ASSUME TypeInv, [Next]_vars, NEW i \in 1..lastId, Gone(i)
  PROVE  Gone(i)'
  <1>1. CASE UNCHANGED vars
    BY <1>1 DEF vars, Gone
  <1>2. ASSUME NEW c \in Calls, NEW event \in stream, Consume(c, event)
        PROVE  Gone(i)'
    <2>1. call \in [Calls -> CallState]
      BY DEF TypeInv, CallsOK
    <2>2. \A d \in Calls : call'[d] = call[d] \/ call'[d].pc = "create"
      BY <1>2, <2>1 DEF Consume, Deliver, Redeliver, Goto, NoCall
    <2> QED
      BY <1>2, <2>2 DEF Gone, Consume, Deliver, Redeliver
  <1>3. ASSUME NEW s \in Sides, Crash(s) \/ Restart(s) PROVE Gone(i)'
    <2>1. \A d \in Calls : call'[d] = call[d] \/ call'[d].pc = "idle"
      BY <1>3 DEF Crash, Restart, Dies, NoCall
    <2> QED
      BY <1>3, <2>1 DEF Gone, Crash, Restart
  <1>4. CASE Next
    BY <1>2, <1>3, <1>4, GoneRequest, GoneContinue DEF Next
  <1> QED
    BY <1>1, <1>4

\* A user of main-api who is inactive or gone, with no update of the row in flight,
\* stays so, for every interleaving of requests and events.
THEOREM GoneIsFinalHolds == Spec => GoneIsFinal
  <1>1. TypeInv /\ [Next]_vars => [\A i \in 1..lastId : Gone(i) => Gone(i)']_vars
    BY GoneStep
  <1> QED
    BY <1>1, TypeCorrect, PTL DEF Spec, GoneIsFinal

--------------------------------------------------------------------------------
(* Roles in main-api.  An update that is about to write sys_admin was asked *)
(* for by a sys_admin: an admin is refused both a list with that role and   *)
(* an update of a row that has it.                                          *)
GrantInv ==
    /\ \A r \in users["main"] : r.id # 0
    /\ \A c \in Calls : call[c].pc = "save" =>
          /\ call[c].row.id # 0
          /\ "sys_admin" \in call[c].row.roles => "sys_admin" \in call[c].agent

LEMMA GrantKept ==
  ASSUME GrantInv,
         \A r \in users'["main"] : \E q \in users["main"] : q.id = r.id,
         \A d \in Calls : call'[d] = call[d] \/ call'[d].pc # "save"
  PROVE  GrantInv'
  BY DEF GrantInv

(* The step of a request to create: who is sys_admin now was made so by one. *)
LEMMA CreateGrants ==
  ASSUME NEW roles \in RoleChoices, NEW agentRoles \in AgentRoles,
         parseAllowedRoles(roles, Agent(agentRoles)) # None,
         "sys_admin" \in parseAllowedRoles(roles, Agent(agentRoles))
  PROVE  "sys_admin" \in agentRoles
  <1>1. roles \in RoleLists /\ Agent(agentRoles) # None
    BY SyncAssumption
  <1>2. Agent(agentRoles).roles = agentRoles
    BY DEF Agent
  <1> QED
    BY <1>1, <1>2, AdminsCannotGrantSysAdmin

LEMMA UpdateGrants ==
  ASSUME NEW row \in Row, row.id # 0, NEW roles \in RoleChoices,
         NEW agentRoles \in AgentRoles,
         checkAllowed_User_UpdateAction(row, Agent(agentRoles), roles),
         "sys_admin" \in updateTargetUserRoles(row, roles)
  PROVE  "sys_admin" \in agentRoles
  <1>1. Agent(agentRoles).roles = agentRoles /\ Agent(agentRoles).id = 0
    BY DEF Agent
  <1>2. CASE roles = None
    BY <1>1, <1>2 DEF checkAllowed_User_UpdateAction, checkAllowedActionOn_User,
       updateTargetUserRoles
  <1>3. CASE roles # None
    <2>1. "sys_admin" \in roles
      BY <1>3 DEF updateTargetUserRoles, findRoles
    <2> QED
      BY <1>1, <1>3, <2>1 DEF checkAllowed_User_UpdateAction
  <1> QED
    BY <1>2, <1>3

LEMMA GrantStep == TypeInv /\ GrantInv /\ [Next]_vars => GrantInv'
  <1> SUFFICES ASSUME TypeInv, GrantInv, [Next]_vars PROVE GrantInv'
    OBVIOUS
  <1>1. /\ users \in [Sides -> SUBSET Row] /\ lastId \in Nat
        /\ call \in [Calls -> CallState]
    BY DEF TypeInv, DataOK, CallsOK
  <1>2. "auth" \in Sides /\ "main" \in Sides
    BY DEF Sides
  <1>3. \A peer, email, username, roles : NewRow(peer, email, username, roles).id # 0
    BY <1>1 DEF NewRow
  <1>4. CASE UNCHANGED vars
    BY <1>4, GrantKept DEF vars
  <1>5. ASSUME NEW c \in Calls, NEW email \in Emails, NEW username \in Usernames,
               SignupUser(c, email, username)
        PROVE  GrantInv'
    <2>1. users'["main"] = users["main"]
      BY <1>1, <1>2, <1>5 DEF SignupUser, Insert
    <2>2. \A d \in Calls : call'[d] = call[d] \/ call'[d].pc = "publish"
      BY <1>1, <1>5 DEF SignupUser, Goto, NoCall
    <2> QED
      BY <2>1, <2>2, GrantKept
  <1>6. ASSUME NEW c \in Calls, NEW email \in Emails, NEW username \in Usernames,
               NEW roles \in RoleChoices, NEW agentRoles \in AgentRoles,
               CreateUser(c, email, username, roles, agentRoles)
        PROVE  GrantInv'
    <2>1. \A r \in users'["main"] : r \in users["main"] \/ r.id # 0
      BY <1>1, <1>2, <1>3, <1>6 DEF CreateUser, Insert
    <2>2. \A d \in Calls : call'[d] = call[d] \/ call'[d].pc = "publish"
      BY <1>1, <1>6 DEF CreateUser, Goto, NoCall
    <2> QED
      BY <2>1, <2>2 DEF GrantInv
  <1>7. ASSUME NEW c \in Calls, NEW row \in users["main"], NEW username \in Usernames,
               NEW roles \in RoleChoices, NEW agentRoles \in AgentRoles,
               UpdateUser(c, row, username, roles, agentRoles)
        PROVE  GrantInv'
    <2>1. row \in Row /\ row.id # 0
      BY <1>1, <1>2 DEF GrantInv
    <2>2. /\ call'[c].row.id = row.id /\ call'[c].agent = agentRoles
          /\ call'[c].row.roles = updateTargetUserRoles(row, roles)
      BY <1>1, <1>7, <2>1 DEF UpdateUser, Goto, NoCall, Row
    <2>3. \A d \in Calls : d = c \/ call'[d] = call[d]
      BY <1>1, <1>7 DEF UpdateUser, Goto
    <2>4. "sys_admin" \in call'[c].row.roles => "sys_admin" \in call'[c].agent
      BY <1>7, <2>1, <2>2, UpdateGrants DEF UpdateUser
    <2>5. users' = users
      BY <1>7 DEF UpdateUser
    <2> QED
      BY <2>1, <2>2, <2>3, <2>4, <2>5 DEF GrantInv
  <1>8. ASSUME NEW c \in Calls, NEW row \in users["main"], NEW agentRoles \in AgentRoles,
               DeactivateUser(c, row, agentRoles) \/ DeleteUser(c, row, agentRoles)
        PROVE  GrantInv'
    <2>1. \A d \in Calls : call'[d] = call[d] \/ call'[d].pc # "save"
      <3>1. CASE DeactivateUser(c, row, agentRoles)
        BY <1>1, <3>1 DEF DeactivateUser, Goto, NoCall
      <3>2. CASE DeleteUser(c, row, agentRoles)
        BY <1>1, <3>2 DEF DeleteUser, Goto, NoCall
      <3> QED
        BY <1>8, <3>1, <3>2
    <2>2. users' = users
      BY <1>8 DEF DeactivateUser, DeleteUser
    <2> QED
      BY <2>1, <2>2, GrantKept
  <1>9. ASSUME NEW c \in Calls, PublishEvent(c) \/ Ack(c) \/ HookFails(c) PROVE GrantInv'
    <2>1. \A d \in Calls : call'[d] = call[d] \/ call'[d].pc = "idle"
      BY <1>1, <1>9 DEF PublishEvent, Ack, HookFails, Goto, Dies, NoCall
    <2> QED
      BY <1>9, <2>1, GrantKept DEF PublishEvent, Ack, HookFails
  <1>10. ASSUME NEW c \in Calls, SaveUser(c) PROVE GrantInv'
    <2>1. \A d \in Calls : call'[d] = call[d] \/ call'[d].pc \in {"idle", "publish"}
      BY <1>10, SaveUserCalls
    <2>2. \A r \in users'["main"] : r \in users["main"] \/ r = call[c].row
      BY <1>1, <1>2, <1>10 DEF SaveUser
    <2>3. call[c].row.id # 0
      BY <1>10 DEF GrantInv, SaveUser
    <2> QED
      BY <2>1, <2>2, <2>3 DEF GrantInv
  <1>11. ASSUME NEW c \in Calls, SetInactive(c) \/ RemoveUser(c) PROVE GrantInv'
    <2>1. \A d \in Calls : call'[d] = call[d] \/ call'[d].pc = "idle"
      BY <1>1, <1>11 DEF SetInactive, RemoveUser, Goto, NoCall
    <2>2. users["main"] \subseteq Row
      BY <1>1, <1>2
    <2>3. \A r \in users'["main"] : \E q \in users["main"] : q.id = r.id
      BY <1>1, <1>2, <1>11, <2>2 DEF SetInactive, RemoveUser, Row
    <2> QED
      BY <2>1, <2>3, GrantKept
  <1>12. ASSUME NEW c \in Calls, HookCreate(c) PROVE GrantInv'
    <2>1. \A d \in Calls : call'[d] = call[d] \/ call'[d].pc = "ack"
      BY <1>1, <1>12 DEF HookCreate, Goto, CallState
    <2>2. RowOf(call[c].event).id # 0
      BY <1>3 DEF RowOf
    <2>3. \A r \in users'["main"] : r \in users["main"] \/ r.id # 0
      BY <1>1, <1>2, <1>12, <2>2 DEF HookCreate, Insert
    <2> QED
      BY <2>1, <2>3 DEF GrantInv
  <1>13. ASSUME NEW c \in Calls, NEW event \in stream, Consume(c, event) PROVE GrantInv'
    <2>1. \A d \in Calls : call'[d] = call[d] \/ call'[d].pc = "create"
      BY <1>1, <1>13 DEF Consume, Deliver, Redeliver, Goto, NoCall
    <2> QED
      BY <1>13, <2>1, GrantKept DEF Consume, Deliver, Redeliver
  <1>14. ASSUME NEW s \in Sides, Crash(s) \/ Restart(s) PROVE GrantInv'
    <2>1. \A d \in Calls : call'[d] = call[d] \/ call'[d].pc = "idle"
      BY <1>14 DEF Crash, Restart, Dies, NoCall
    <2> QED
      BY <1>14, <2>1, GrantKept DEF Crash, Restart
  <1> QED
    BY <1>4, <1>5, <1>6, <1>7, <1>8, <1>9, <1>10, <1>11, <1>12, <1>13, <1>14
       DEF Next, Request, Continue

GrantedBy(c) ==
    /\ call'[c] # call[c]
    /\ \/ call[c].pc = "create"
       \/ call[c].pc = "save" /\ "sys_admin" \in call[c].agent
       \/ call[c].pc = "idle" /\ "sys_admin" \in call'[c].agent

LEMMA GrantsStep ==
  ASSUME TypeInv, GrantInv, [Next]_vars, NEW r \in users'["main"], Grants(r)
  PROVE  \E c \in Calls : GrantedBy(c)
  <1>1. /\ users \in [Sides -> SUBSET Row] /\ call \in [Calls -> CallState]
    BY DEF TypeInv, DataOK, CallsOK
  <1>2. "auth" \in Sides /\ "main" \in Sides
    BY DEF Sides
  <1>3. \A q \in users["main"] : q.id = r.id => q.roles # r.roles
    BY DEF Grants
  <1>4. r \notin users["main"]
    BY <1>3
  <1>5. ASSUME NEW c \in Calls, Request(c) PROVE GrantedBy(c)
    <2>1. ASSUME NEW email \in Emails, NEW username \in Usernames,
                 SignupUser(c, email, username)
          PROVE  FALSE
      BY <1>1, <1>2, <1>4, <2>1 DEF SignupUser, Insert
    <2>2. ASSUME NEW row \in users["main"], NEW username \in Usernames,
                 NEW roles \in RoleChoices, NEW agentRoles \in AgentRoles,
                 UpdateUser(c, row, username, roles, agentRoles)
          PROVE  FALSE
      BY <1>4, <2>2 DEF UpdateUser
    <2>3. ASSUME NEW row \in users["main"], NEW agentRoles \in AgentRoles,
                 DeactivateUser(c, row, agentRoles) \/ DeleteUser(c, row, agentRoles)
          PROVE  FALSE
      BY <1>4, <2>3 DEF DeactivateUser, DeleteUser
    <2>4. ASSUME NEW email \in Emails, NEW username \in Usernames,
                 NEW roles \in RoleChoices, NEW agentRoles \in AgentRoles,
                 CreateUser(c, email, username, roles, agentRoles)
          PROVE  GrantedBy(c)
      <3> DEFINE granted == parseAllowedRoles(roles, Agent(agentRoles))
      <3>1. granted # None /\ (r.roles = granted)
        <4>1. NewRow(None, email, username, granted).roles = granted
          BY DEF NewRow
        <4> HIDE DEF granted
        <4>2. r = NewRow(None, email, username, granted)
          BY <1>1, <1>2, <1>4, <2>4 DEF CreateUser, Insert, granted
        <4> QED
          BY <2>4, <4>1, <4>2 DEF CreateUser, granted
      <3>2. "sys_admin" \in agentRoles
        BY <3>1, CreateGrants DEF Grants
      <3>3. /\ call[c].pc = "idle" /\ call'[c].pc = "publish"
            /\ call'[c].agent = agentRoles
        BY <1>1, <2>4 DEF CreateUser, Accepts, Goto, NoCall
      <3> QED
        BY <3>2, <3>3 DEF GrantedBy
    <2> QED
      BY <1>5, <2>1, <2>2, <2>3, <2>4 DEF Request
  <1>6. ASSUME NEW c \in Calls, Continue(c) PROVE GrantedBy(c)
    <2>1. CASE PublishEvent(c) \/ RemoveUser(c) \/ HookFails(c) \/ Ack(c)
      BY <1>1, <1>2, <1>4, <2>1 DEF PublishEvent, RemoveUser, HookFails, Ack
    <2>2. CASE SetInactive(c)
      <3>1. users["main"] \subseteq Row
        BY <1>1, <1>2
      <3>2. \E q \in users["main"] : q.id = r.id /\ q.roles = r.roles
        BY <1>1, <1>2, <2>2, <3>1 DEF SetInactive, Row
      <3> QED
        BY <1>3, <3>2
    <2>3. CASE SaveUser(c)
      <3>1. r = call[c].row
        BY <1>1, <1>2, <1>4, <2>3 DEF SaveUser
      <3>2. call[c].pc = "save" /\ "sys_admin" \in call[c].agent
        BY <2>3, <3>1 DEF SaveUser, GrantInv, Grants
      <3>3. users' # users
        BY <1>4
      <3>4. call'[c] = [call[c] EXCEPT !.pc = "publish", !.row = None,
                !.event = EventOf("app.user.update", call[c].row, call[c].row.roles)]
        BY <1>1, <2>3, <3>3 DEF SaveUser, Goto
      <3>5. call'[c].pc = "publish"
        BY <1>1, <3>4 DEF CallState
      <3> QED
        BY <3>2, <3>5 DEF GrantedBy
    <2>4. CASE HookCreate(c)
      <3>1. call[c].pc = "create" /\ call'[c].pc = "ack"
        BY <1>1, <2>4 DEF HookCreate, Goto, CallState
      <3> QED
        BY <3>1 DEF GrantedBy
    <2> QED
      BY <1>6, <2>1, <2>2, <2>3, <2>4 DEF Continue
  <1>7. ASSUME NEW c \in Calls, NEW event \in stream, Consume(c, event) PROVE FALSE
    BY <1>4, <1>7 DEF Consume, Deliver, Redeliver
  <1>8. ASSUME NEW s \in Sides, Crash(s) \/ Restart(s) PROVE FALSE
    BY <1>4, <1>8 DEF Crash, Restart
  <1>9. CASE UNCHANGED vars
    BY <1>4, <1>9 DEF vars
  <1> QED
    BY <1>5, <1>6, <1>7, <1>8, <1>9 DEF Next

LEMMA GrantInit == Init => GrantInv
  BY DEF Init, GrantInv, NoCall, Sides

\* In main-api a user becomes sys_admin only by a signup event or by the request of
\* a sys_admin, for all role lists and all updates in flight.
THEOREM SysAdminsAreMadeBySysAdminsHolds == Spec => SysAdminsAreMadeBySysAdmins
  <1>1. TypeInv /\ GrantInv /\ [Next]_vars =>
          [\A r \in users'["main"] : Grants(r) =>
             \E c \in Calls :
                /\ call'[c] # call[c]
                /\ \/ call[c].pc = "create"
                   \/ call[c].pc = "save" /\ "sys_admin" \in call[c].agent
                   \/ call[c].pc = "idle" /\ "sys_admin" \in call'[c].agent]_vars
    BY GrantsStep DEF GrantedBy
  <1> QED
    BY <1>1, GrantInit, GrantStep, TypeCorrect, PTL DEF Spec, SysAdminsAreMadeBySysAdmins
================================================================================
