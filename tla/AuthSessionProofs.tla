--------------------------- MODULE AuthSessionProofs ---------------------------
(***************************************************************************)
(* Proofs about the sessions of AuthService: a withdrawn refresh token     *)
(* never comes back, a delivered one is cached or withdrawn, the cache     *)
(* implements RefreshSessions, sessions are of verified users.             *)
(***************************************************************************)
EXTENDS AuthServiceProofs

\* The queries of the handlers are used by what they return.
USE DEF checkHash, findOneById, findOneBySlug, getRecoveryToken, getValue

(* No call starts a rotation or reaches its reply in this step. *)
Calm ==
    \A c \in Calls :
        /\ Pending(c)' => Pending(c) /\ call'[c].token = call[c].token
        /\ call'[c].pc = "reply" => call[c].pc = "reply"
        /\ call'[c].pc = "reply" =>
              call'[c].user = call[c].user /\ call'[c].token = call[c].token

LEMMA GotoCalm ==
  ASSUME TypeInv, NEW c \in Calls, NEW s, Goto(c, s),
         s.pc \notin {"rotate", "insert", "reply"}
  PROVE  Calm
  <1> SUFFICES ASSUME NEW d \in Calls
               PROVE  /\ Pending(d)' => Pending(d) /\ call'[d].token = call[d].token
                      /\ call'[d].pc = "reply" => call[d].pc = "reply"
                      /\ call'[d].pc = "reply" =>
                            call'[d].user = call[d].user /\ call'[d].token = call[d].token
    BY DEF Calm
  <1>1. call'[d] = IF d = c THEN s ELSE call[d]
    BY DEF TypeInv, TypeOK, Goto
  <1> QED
    BY <1>1 DEF Pending

LEMMA SettleCalm ==
  ASSUME TypeInv, NEW c \in Calls, NEW todo, NEW found, Settle(c, todo, found),
         call[c].pc \in {"revoke", "reset"}
  PROVE  Calm
  <1> DEFINE t == [call[c] EXCEPT !.todo = todo, !.found = found]
  <1>1. t.pc = call[c].pc
    BY DEF TypeInv, TypeOK, CallState
  <1>2. NoCall.pc = "idle"
    BY DEF NoCall
  <1>3. PICK s : s \in {NoCall, t} /\ Goto(c, s)
    BY DEF Settle
  <1> QED
    BY <1>1, <1>2, <1>3, GotoCalm

(* Steps that start no rotation, and at most drop one cached token. *)
LEMMA CalmStep ==
  ASSUME TypeInv, SessionInv, Calm, drawn \subseteq drawn', jwts' = jwts,
         UNCHANGED <<cache, spent>> \/ \E u \in Users : invalidate(u)
  PROVE  SessionInv'
  <1>1. ASSUME NEW v \in Users
        PROVE  cache'[v] \in {cache[v], None} /\ (cache[v] = cache'[v] \/ cache[v] \in spent' \cup {None})
    BY DEF TypeInv, TypeOK, invalidate
  <1>2. spent \subseteq spent' /\ spent' \subseteq drawn
    BY DEF TypeInv, TypeOK, invalidate, SessionInv
  <1>3. \A v \in Users : cache'[v] # None => cache'[v] \notin spent'
    BY <1>1 DEF TypeInv, TypeOK, invalidate, SessionInv
  <1>4. ASSUME NEW c \in Calls, Pending(c)
        PROVE  call[c].token \notin spent'
    BY <1>4 DEF invalidate, SessionInv
  <1>5. ASSUME NEW v \in Users, NEW x \in Uuids, Held(v, x)
        PROVE  Held(v, x)'
    BY <1>5, <1>1, <1>2, AuthAssumption DEF Held
  <1>6. \A v \in Users : cache'[v] \in (drawn' \ spent') \cup {None}
    BY <1>1, <1>3 DEF SessionInv
  <1>7. \A v, w \in Users : cache'[v] = cache'[w] /\ cache'[v] # None => v = w
    BY <1>1 DEF SessionInv
  <1>8. ASSUME NEW c \in Calls, Pending(c)'
        PROVE  /\ call'[c].token \in drawn' \ spent'
               /\ \A v \in Users : cache'[v] # call'[c].token
    <2>1. Pending(c) /\ call'[c].token = call[c].token
      BY <1>8 DEF Calm
    <2>2. call[c].token \in Uuids
      BY <2>1 DEF TypeInv, CallOK, Pending
    <2> QED
      BY <1>1, <1>4, <2>1, <2>2, AuthAssumption DEF SessionInv
  <1>9. \A c, d \in Calls :
          Pending(c)' /\ Pending(d)' /\ call'[c].token = call'[d].token => c = d
    BY DEF Calm, SessionInv
  <1>10. ASSUME NEW c \in Calls, call'[c].pc = "reply"
         PROVE  Held(call[c].user, call[c].token)'
    <2>1. call[c].pc = "reply" /\ call'[c].user = call[c].user /\ call'[c].token = call[c].token
      BY <1>10 DEF Calm
    <2>2. call[c].user \in Users /\ call[c].token \in Uuids
      BY <2>1 DEF TypeInv, CallOK
    <2>3. Held(call[c].user, call[c].token)
      BY <2>1 DEF SessionInv
    <2> QED
      BY <1>5, <2>1, <2>2, <2>3 DEF Held
  <1>11. \A jwt \in jwts' : Held(jwt.sub, jwt.check)'
    <2> SUFFICES ASSUME NEW jwt \in jwts PROVE Held(jwt.sub, jwt.check)'
      OBVIOUS
    <2>1. jwt.sub \in Users /\ jwt.check \in Uuids
      BY DEF TypeInv, TypeOK, RefreshToken
    <2>2. Held(jwt.sub, jwt.check)
      BY DEF SessionInv
    <2> QED
      BY <1>5, <2>1, <2>2
  <1> QED
    BY <1>2, <1>6, <1>7, <1>8, <1>9, <1>10, <1>11 DEF SessionInv, Held

(* A login or a revalidation draws its new refresh token. *)
LEMMA DrawStep ==
  ASSUME TypeInv, SessionInv, NEW c \in Calls, NEW x \in Uuids, Draw(x), NEW s,
         Goto(c, s), s.pc = "rotate", s.token = x,
         UNCHANGED <<cache, spent, jwts>>
  PROVE  SessionInv'
  <1>1. \A d \in Calls : call'[d] = IF d = c THEN s ELSE call[d]
    BY DEF TypeInv, TypeOK, Goto
  <1>2. x \notin drawn /\ drawn' = drawn \cup {x} /\ x # None
    BY AuthAssumption DEF Draw
  <1>3. /\ spent' \subseteq drawn'
        /\ \A u \in Users : cache'[u] \in (drawn' \ spent') \cup {None}
        /\ \A u, v \in Users : cache'[u] = cache'[v] /\ cache'[u] # None => u = v
    BY <1>2 DEF SessionInv
  <1>4. ASSUME NEW d \in Calls, Pending(d)'
        PROVE  /\ call'[d].token \in drawn' \ spent'
               /\ \A u \in Users : cache'[u] # call'[d].token
    BY <1>1, <1>2, <1>4 DEF SessionInv, Pending
  <1>5. ASSUME NEW d \in Calls, NEW e \in Calls, Pending(d)', Pending(e)',
               call'[d].token = call'[e].token
        PROVE  d = e
    BY <1>1, <1>2, <1>5 DEF SessionInv, Pending
  <1>6. ASSUME NEW d \in Calls, call'[d].pc = "reply"
        PROVE  Held(call[d].user, call[d].token)'
    BY <1>1, <1>6 DEF SessionInv, Held
  <1>7. \A jwt \in jwts' : Held(jwt.sub, jwt.check)'
    BY DEF SessionInv, Held
  <1> QED
    BY <1>3, <1>4, <1>5, <1>6, <1>7 DEF SessionInv

(* The SET of a rotation. *)
LEMMA InsertStep ==
  ASSUME TypeInv, SessionInv, NEW c \in Calls, RotateInsert(c)
  PROVE  SessionInv'
  <1> DEFINE u == call[c].user
             x == call[c].token
             s == [call[c] EXCEPT !.pc = "reply"]
  <1>1. /\ s.pc = "reply" /\ s.user = u /\ s.token = x
        /\ \A d \in Calls : call'[d] = IF d = c THEN s ELSE call[d]
    BY DEF TypeInv, TypeOK, CallState, RotateInsert, Goto
  <1>2. Pending(c) /\ u \in Users /\ x \in Uuids /\ x # None
    BY AuthAssumption DEF TypeInv, CallOK, RotateInsert, Pending
  <1>3. /\ x \in drawn \ spent
        /\ \A v \in Users : cache[v] # x
    BY <1>2 DEF SessionInv
  <1>4. /\ \A v \in Users : cache'[v] = IF v = u THEN x ELSE cache[v]
        /\ spent' = spent \cup ({cache[u]} \ {None})
        /\ drawn' = drawn /\ jwts' = jwts
    BY DEF RotateInsert, insert, TypeInv, TypeOK, clients
  <1> HIDE DEF u, x, s
  <1>5. spent' \subseteq drawn'
    BY <1>2, <1>4 DEF SessionInv
  <1>6. ASSUME NEW v \in Users
        PROVE  cache'[v] \in (drawn' \ spent') \cup {None}
    BY <1>2, <1>3, <1>4 DEF SessionInv
  <1>7. \A v, w \in Users : cache'[v] = cache'[w] /\ cache'[v] # None => v = w
    BY <1>3, <1>4 DEF SessionInv
  <1>8. ASSUME NEW d \in Calls, Pending(d)'
        PROVE  /\ call'[d].token \in drawn' \ spent'
               /\ \A v \in Users : cache'[v] # call'[d].token
    <2>1. d # c /\ Pending(d) /\ call'[d] = call[d]
      BY <1>1, <1>8 DEF Pending
    <2>2. call[d].token # x
      BY <1>2, <2>1 DEF SessionInv, x
    <2>3. call[d].token \in drawn \ spent /\ \A v \in Users : cache[v] # call[d].token
      BY <2>1 DEF SessionInv
    <2> QED
      BY <1>2, <1>4, <2>1, <2>2, <2>3
  <1>9. ASSUME NEW d \in Calls, NEW e \in Calls, Pending(d)', Pending(e)',
               call'[d].token = call'[e].token
        PROVE  d = e
    BY <1>1, <1>9 DEF SessionInv, Pending
  <1>10. ASSUME NEW v \in Users, NEW y \in Uuids, Held(v, y)
         PROVE  Held(v, y)'
    BY <1>4, <1>10, AuthAssumption DEF Held
  <1>11. ASSUME NEW d \in Calls, call'[d].pc = "reply"
         PROVE  Held(call[d].user, call[d].token)'
    <2>1. CASE d = c
      BY <1>1, <1>2, <1>4, <2>1 DEF Held
    <2>2. CASE d # c
      <3>1. call'[d] = call[d] /\ call[d].user \in Users /\ call[d].token \in Uuids
        BY <1>1, <1>11, <2>2 DEF TypeInv, CallOK
      <3>2. Held(call[d].user, call[d].token)
        BY <1>11, <3>1 DEF SessionInv
      <3> QED
        BY <1>10, <3>1, <3>2 DEF Held
    <2> QED
      BY <2>1, <2>2
  <1>12. ASSUME NEW jwt \in jwts PROVE Held(jwt.sub, jwt.check)'
    <2>1. jwt.sub \in Users /\ jwt.check \in Uuids
      BY DEF TypeInv, TypeOK, RefreshToken
    <2> QED
      BY <1>10, <2>1 DEF SessionInv
  <1> QED
    BY <1>4, <1>5, <1>6, <1>7, <1>8, <1>9, <1>11, <1>12 DEF SessionInv

(* The reply: what it delivers was held. *)
LEMMA ReplyStep ==
  ASSUME TypeInv, SessionInv, NEW c \in Calls, ReplyTokens(c)
  PROVE  SessionInv'
  <1>1. \A d \in Calls : call'[d] = IF d = c THEN NoCall ELSE call[d]
    BY DEF TypeInv, TypeOK, ReplyTokens, Goto
  <1>2. Held(call[c].user, call[c].token)
    BY DEF SessionInv, ReplyTokens
  <1>3. UNCHANGED <<cache, spent, drawn>>
    BY DEF ReplyTokens
  <1>4. \A jwt \in jwts' : Held(jwt.sub, jwt.check)'
    BY <1>2, <1>3 DEF ReplyTokens, SessionInv, Held
  <1> QED
    BY <1>1, <1>3, <1>4 DEF SessionInv, Held, Pending, NoCall

LEMMA SessionInit == Init => SessionInv
  BY AuthAssumption DEF Init, SessionInv, Pending, NoCall

(* The steps in which every call keeps its distance from a rotation. *)
LEMMA RequestSession ==
  ASSUME TypeInv, SessionInv, NEW c \in Calls, Request(c)
  PROVE  SessionInv'
  <1>1. ASSUME NEW u \in Users, NEW password \in Passwords, LoginUser(c, u, password)
        PROVE  SessionInv'
    <2>1. PICK x \in Uuids :
            /\ Draw(x)
            /\ Goto(c, [NoCall EXCEPT !.pc = "rotate", !.user = u,
                                      !.row = authUser[u], !.token = x])
      BY <1>1 DEF LoginUser
    <2>2. UNCHANGED <<cache, spent, jwts>>
      BY <1>1 DEF LoginUser, clients
    <2>3. /\ [NoCall EXCEPT !.pc = "rotate", !.user = u,
                            !.row = authUser[u], !.token = x].pc = "rotate"
          /\ [NoCall EXCEPT !.pc = "rotate", !.user = u,
                            !.row = authUser[u], !.token = x].token = x
      BY DEF NoCall
    <2> QED
      BY <2>1, <2>2, <2>3, DrawStep
  <1>2. ASSUME NEW s, Goto(c, s), s.pc \notin {"rotate", "insert", "reply"},
               UNCHANGED <<cache, spent, drawn, jwts>>
        PROVE  SessionInv'
    BY <1>2, GotoCalm, CalmStep
  <1>3. ASSUME NEW jwt \in jwts, RevalidateUserTokens(c, jwt)
        PROVE  SessionInv'
    <2> DEFINE s == [NoCall EXCEPT !.pc = "validate", !.user = jwt.sub,
                                   !.row = authUser[jwt.sub], !.token = jwt.check]
    <2>1. Goto(c, s) /\ UNCHANGED <<cache, spent, drawn, jwts>>
      BY <1>3 DEF RevalidateUserTokens, clients
    <2>2. s.pc = "validate"
      BY DEF NoCall
    <2> HIDE DEF s
    <2> QED
      BY <1>2, <2>1, <2>2
  <1>4. ASSUME NEW u \in Users, NEW agent \in Users, RevokeUserAccess(c, u, agent)
        PROVE  SessionInv'
    <2> DEFINE s == [NoCall EXCEPT
                  !.pc = "revoke", !.user = u,
                  !.todo = {"invalidate"} \cup
                           (IF checkAllowedActionOn_User(u, agent) THEN {"find"} ELSE {})]
    <2>1. Goto(c, s) /\ UNCHANGED <<cache, spent, drawn, jwts>>
      BY <1>4 DEF RevokeUserAccess, clients
    <2>2. s.pc = "revoke"
      BY DEF NoCall
    <2> HIDE DEF s
    <2> QED
      BY <1>2, <2>1, <2>2
  <1>5. ASSUME NEW u \in Users, RecoverCredentials(c, u)
        PROVE  SessionInv'
    <2> DEFINE s == [NoCall EXCEPT !.pc = "recover", !.user = u]
    <2>1. Goto(c, s) /\ UNCHANGED <<cache, spent, drawn, jwts>>
      BY <1>5 DEF RecoverCredentials, clients
    <2>2. s.pc = "recover"
      BY DEF NoCall
    <2> HIDE DEF s
    <2> QED
      BY <1>2, <2>1, <2>2
  <1>6. ASSUME NEW m \in mailed, NEW password \in Passwords,
               ResetUserPassword(c, m.token, password)
        PROVE  SessionInv'
    <2>0. PICK r \in recoveryTokens : Goto(c, [NoCall EXCEPT !.pc = "findUser", !.user = r.userId,
                                   !.token = m.token, !.password = password])
      BY <1>6 DEF ResetUserPassword
    <2> DEFINE s == [NoCall EXCEPT !.pc = "findUser", !.user = r.userId,
                                   !.token = m.token, !.password = password]
    <2>1. Goto(c, s) /\ UNCHANGED <<cache, spent, drawn, jwts>>
      BY <1>6, <2>0 DEF ResetUserPassword, clients
    <2>2. s.pc = "findUser"
      BY DEF NoCall
    <2> HIDE DEF s
    <2> QED
      BY <1>2, <2>1, <2>2
  <1>7. ASSUME NEW u \in Users, VerifyAccount(c, u)
        PROVE  SessionInv'
    <2> DEFINE s == [NoCall EXCEPT !.pc = "verify", !.user = u, !.row = authUser[u]]
    <2>1. Goto(c, s) /\ UNCHANGED <<cache, spent, drawn, jwts>>
      BY <1>7 DEF VerifyAccount, clients
    <2>2. s.pc = "verify"
      BY DEF NoCall
    <2> HIDE DEF s
    <2> QED
      BY <1>2, <2>1, <2>2
  <1> QED
    BY <1>1, <1>3, <1>4, <1>5, <1>6, <1>7 DEF Request

LEMMA RotationSession ==
  ASSUME TypeInv, SessionInv, NEW c \in Calls,
         Validate(c) \/ RotateInvalidate(c) \/ RotateInsert(c) \/ ReplyTokens(c)
  PROVE  SessionInv'
  <1>1. CASE Validate(c)
    <2>1. UNCHANGED <<cache, spent, jwts>>
      BY <1>1 DEF Validate, clients
    <2>2. CASE Goto(c, NoCall) /\ UNCHANGED drawn
      BY <2>1, <2>2, GotoCalm, CalmStep DEF NoCall
    <2>3. ASSUME NEW x \in Uuids, Draw(x),
                 Goto(c, [call[c] EXCEPT !.pc = "rotate", !.token = x])
          PROVE  SessionInv'
      <3> DEFINE s == [call[c] EXCEPT !.pc = "rotate", !.token = x]
      <3>1. s.pc = "rotate" /\ s.token = x
        BY DEF TypeInv, TypeOK, CallState
      <3> HIDE DEF s
      <3>2. Goto(c, s)
        BY <2>3 DEF s
      <3> QED
        BY <2>1, <2>3, <3>1, <3>2, DrawStep
    <2> QED
      BY <1>1, <2>2, <2>3 DEF Validate
  <1>2. CASE RotateInvalidate(c)
    <2> DEFINE s == [call[c] EXCEPT !.pc = "insert"]
    <2>1. /\ s.pc = "insert" /\ s.user = call[c].user /\ s.token = call[c].token
          /\ \A d \in Calls : call'[d] = IF d = c THEN s ELSE call[d]
      BY <1>2 DEF TypeInv, TypeOK, CallState, RotateInvalidate, Goto
    <2> HIDE DEF s
    <2>2. Calm
      BY <1>2, <2>1 DEF Calm, Pending, RotateInvalidate
    <2>3. call[c].user \in Users /\ UNCHANGED <<drawn, jwts>> /\ invalidate(call[c].user)
      BY <1>2 DEF TypeInv, CallOK, RotateInvalidate, clients
    <2> QED
      BY <2>2, <2>3, CalmStep
  <1> QED
    BY <1>1, <1>2, InsertStep, ReplyStep

(* The remaining commands touch no rotation; some drop a session. *)
LEMMA OtherSession ==
  ASSUME TypeInv, SessionInv, NEW c \in Calls,
         \/ FindActiveUser(c) \/ DeactivateUser(c) \/ InvalidateBranch(c)
         \/ FindPreviousToken(c) \/ DeletePreviousToken(c) \/ CreateRecoveryToken(c)
         \/ FindUserToReset(c) \/ UpdateUserPassword(c) \/ FindRecoveryTokens(c)
         \/ \E token \in call[c].found : DeleteRecoveryToken(c, token)
         \/ VerifyUserAccount(c) \/ CommandFails(c)
  PROVE  SessionInv'
  <1>0. /\ call[c] \in CallState
        /\ NoCall.pc = "idle"
    BY DEF TypeInv, TypeOK, NoCall
  <1>1. UNCHANGED <<cache, spent>> \/ \E u \in Users : invalidate(u)
    <2>1. CASE InvalidateBranch(c)
      <3>1. call[c].user \in Users
        BY <2>1 DEF TypeInv, CallOK, InvalidateBranch
      <3> QED
        BY <2>1, <3>1 DEF InvalidateBranch
    <2>2. CASE ~InvalidateBranch(c)
      BY <2>2 DEF FindActiveUser, DeactivateUser, FindPreviousToken,
         DeletePreviousToken, CreateRecoveryToken, FindUserToReset, UpdateUserPassword,
         FindRecoveryTokens, DeleteRecoveryToken, VerifyUserAccount, CommandFails
    <2> QED
      BY <2>1, <2>2
  <1>2. drawn \subseteq drawn' /\ jwts' = jwts
    BY DEF FindActiveUser, DeactivateUser, InvalidateBranch, FindPreviousToken,
       DeletePreviousToken, CreateRecoveryToken, FindUserToReset, UpdateUserPassword,
       FindRecoveryTokens, DeleteRecoveryToken, VerifyUserAccount, CommandFails, Draw, clients
  <1>3. Calm
    <2>1. CASE Goto(c, NoCall)
      BY <1>0, <2>1, GotoCalm
    <2>2. ASSUME NEW todo, NEW found, Settle(c, todo, found), call[c].pc \in {"revoke", "reset"}
          PROVE  Calm
      BY <2>2, SettleCalm
    <2>3. call[c].todo # {} => call[c].pc \in {"revoke", "reset"}
      BY DEF TypeInv, CallOK
    <2>4. call[c].found # {} => call[c].pc = "reset"
      BY DEF TypeInv, CallOK
    <2>5. CASE \/ FindActiveUser(c) \/ DeactivateUser(c) \/ InvalidateBranch(c)
               \/ UpdateUserPassword(c) \/ FindRecoveryTokens(c)
      BY <2>2, <2>3, <2>5 DEF FindActiveUser, DeactivateUser, InvalidateBranch,
         UpdateUserPassword, FindRecoveryTokens
    <2>6. ASSUME NEW token \in call[c].found, DeleteRecoveryToken(c, token) PROVE Calm
      BY <2>2, <2>4, <2>6 DEF DeleteRecoveryToken
    <2>7. CASE CommandFails(c)
      BY <2>1, <2>2, <2>3, <2>4, <2>7 DEF CommandFails
    <2>8. CASE CreateRecoveryToken(c) \/ VerifyUserAccount(c)
      BY <2>1, <2>8 DEF CreateRecoveryToken, VerifyUserAccount
    <2>9. CASE FindPreviousToken(c) \/ DeletePreviousToken(c)
      <3>1. [call[c] EXCEPT !.pc = "create"].pc = "create"
        BY <1>0 DEF CallState
      <3>2. ASSUME NEW r \in recoveryTokens,
                   Goto(c, [call[c] EXCEPT !.pc = "delete", !.token = r.token])
            PROVE  Calm
        <4> DEFINE s == [call[c] EXCEPT !.pc = "delete", !.token = r.token]
        <4>1. s.pc = "delete"
          BY <1>0 DEF CallState
        <4> HIDE DEF s
        <4>2. Goto(c, s)
          BY <3>2 DEF s
        <4> QED
          BY <4>1, <4>2, GotoCalm
      <3>3. CASE Goto(c, [call[c] EXCEPT !.pc = "create"])
        BY <3>1, <3>3, GotoCalm
      <3> QED
        BY <2>9, <3>2, <3>3 DEF FindPreviousToken, DeletePreviousToken
    <2>10. CASE FindUserToReset(c)
      <3> DEFINE s == [call[c] EXCEPT !.pc = "reset", !.row = authUser[call[c].user],
                                      !.todo = {"password", "tokens", "invalidate"}]
      <3>1. s.pc = "reset"
        BY <1>0 DEF CallState
      <3>2. Goto(c, s) \/ Goto(c, NoCall)
        BY <2>10 DEF FindUserToReset
      <3> HIDE DEF s
      <3> QED
        BY <2>1, <3>1, <3>2, GotoCalm
    <2> QED
      BY <2>5, <2>6, <2>7, <2>8, <2>9, <2>10
  <1> QED
    BY <1>1, <1>2, <1>3, CalmStep

LEMMA SessionStep == TypeInv /\ SessionInv /\ [Next]_vars => SessionInv'
  <1> SUFFICES ASSUME TypeInv, SessionInv, [Next]_vars PROVE SessionInv'
    OBVIOUS
  <1>1. ASSUME NEW c \in Calls, Continue(c) \/ CommandFails(c) PROVE SessionInv'
    BY <1>1, RotationSession, OtherSession DEF Continue
  <1>2. ASSUME NEW jwt \in jwts, LogoutUser(jwt) PROVE SessionInv'
    <2>1. jwt.sub \in Users
      BY DEF TypeInv, TypeOK, RefreshToken
    <2> QED
      BY <1>2, <2>1, CalmStep DEF LogoutUser, Calm, Pending, clients
  <1>3. CASE Crash
    BY <1>3, CalmStep DEF Crash, Calm, Pending, NoCall, clients
  <1>4. ASSUME NEW x \in Uuids, Expire(x) PROVE SessionInv'
    BY <1>4, CalmStep DEF Expire, Calm, Pending, clients
  <1>5. CASE UNCHANGED vars
    BY <1>5 DEF vars, SessionInv, Pending, Held
  <1> QED
    BY <1>1, <1>2, <1>3, <1>4, <1>5, RequestSession DEF Next

LEMMA SessionInvariant == Spec => [](TypeInv /\ SessionInv)
  <1>1. Init => TypeInv /\ SessionInv
    BY TypeInit, SessionInit
  <1>2. TypeInv /\ SessionInv /\ [Next]_vars => (TypeInv /\ SessionInv)'
    BY TypeStep, SessionStep
  <1> QED
    BY <1>1, <1>2, PTL DEF Spec

\* A refresh token that left the cache is never accepted again.
THEOREM NoRevivalHolds == Spec => []NoRevival
  <1>1. TypeInv /\ SessionInv => NoRevival
    BY AuthAssumption DEF TypeInv, TypeOK, SessionInv, NoRevival
  <1> QED
    BY <1>1, SessionInvariant, PTL

\* A delivered refresh token is the one accepted for its subject or withdrawn, and
\* is accepted for nobody else.
THEOREM DeliveredTokensAreTrackedHolds == Spec => []DeliveredTokensAreTracked
  <1>1. TypeInv /\ SessionInv => DeliveredTokensAreTracked
    <2> SUFFICES ASSUME TypeInv, SessionInv, NEW jwt \in jwts
                 PROVE  /\ cache[jwt.sub] = jwt.check \/ jwt.check \in spent
                        /\ \A u \in Users : cache[u] = jwt.check => u = jwt.sub
      BY DEF DeliveredTokensAreTracked
    <2>1. jwt.sub \in Users /\ jwt.check \in Uuids /\ jwt.check # None
      BY AuthAssumption DEF TypeInv, TypeOK, RefreshToken
    <2>2. cache[jwt.sub] = jwt.check \/ jwt.check \in spent
      BY DEF SessionInv, Held
    <2> QED
      BY <2>1, <2>2 DEF SessionInv
  <1> QED
    BY <1>1, SessionInvariant, PTL

--------------------------------------------------------------------------------
(* Refinement of RefreshSessions: only a DEL and the SET of a rotation touch *)
(* the cache.                                                                *)

LEMMA InvalidateCloses ==
  ASSUME TypeInv, NEW u \in Users, invalidate(u)
  PROVE  [Sessions!Next]_<<cache, spent>>
  <1>1. CASE cache[u] = None
    BY <1>1 DEF invalidate, TypeInv, TypeOK
  <1>2. CASE cache[u] # None
    <2>1. Sessions!Close(u)
      BY <1>2 DEF invalidate, Sessions!Close
    <2> QED
      BY <2>1 DEF Sessions!Next
  <1> QED
    BY <1>1, <1>2

LEMMA InsertOpens ==
  ASSUME TypeInv, SessionInv, NEW c \in Calls, RotateInsert(c)
  PROVE  [Sessions!Next]_<<cache, spent>>
  <1>1. Pending(c) /\ call[c].user \in Users /\ call[c].token \in Uuids
    BY DEF TypeInv, CallOK, RotateInsert, Pending
  <1>2. Sessions!Open(call[c].user, call[c].token)
    BY <1>1 DEF SessionInv, RotateInsert, insert, Sessions!Open
  <1> QED
    BY <1>1, <1>2 DEF Sessions!Next

LEMMA CacheUntouched ==
  ASSUME TypeInv, NEW c \in Calls,
         Request(c) \/ CommandFails(c) \/ Continue(c),
         ~RotateInvalidate(c), ~RotateInsert(c), ~InvalidateBranch(c)
  PROVE  UNCHANGED <<cache, spent>>
  <1>1. CASE Request(c)
    BY <1>1 DEF Request, LoginUser, RevalidateUserTokens, RevokeUserAccess,
       RecoverCredentials, ResetUserPassword, VerifyAccount
  <1>2. CASE CommandFails(c)
    BY <1>2 DEF CommandFails
  <1>3. CASE Continue(c)
    BY <1>3 DEF Continue, Validate, ReplyTokens, FindActiveUser, DeactivateUser,
       FindPreviousToken, DeletePreviousToken, CreateRecoveryToken, FindUserToReset,
       UpdateUserPassword, FindRecoveryTokens, DeleteRecoveryToken, VerifyUserAccount
  <1> QED
    BY <1>1, <1>2, <1>3

LEMMA SessionsStep ==
  TypeInv /\ SessionInv /\ [Next]_vars => [Sessions!Next]_<<cache, spent>>
  <1> SUFFICES ASSUME TypeInv, SessionInv, [Next]_vars
               PROVE  [Sessions!Next]_<<cache, spent>>
    OBVIOUS
  <1>1. ASSUME NEW c \in Calls, Request(c) \/ CommandFails(c) \/ Continue(c)
        PROVE  [Sessions!Next]_<<cache, spent>>
    <2>1. CASE RotateInsert(c)
      BY <2>1, InsertOpens
    <2>2. CASE RotateInvalidate(c) \/ InvalidateBranch(c)
      <3>1. call[c].user \in Users /\ invalidate(call[c].user)
        BY <2>2 DEF TypeInv, CallOK, RotateInvalidate, InvalidateBranch
      <3> QED
        BY <3>1, InvalidateCloses
    <2>3. CASE ~RotateInsert(c) /\ ~RotateInvalidate(c) /\ ~InvalidateBranch(c)
      BY <1>1, <2>3, CacheUntouched
    <2> QED
      BY <2>1, <2>2, <2>3
  <1>2. ASSUME NEW jwt \in jwts, LogoutUser(jwt)
        PROVE  [Sessions!Next]_<<cache, spent>>
    <2>1. jwt.sub \in Users /\ invalidate(jwt.sub)
      BY <1>2 DEF TypeInv, TypeOK, RefreshToken, LogoutUser
    <2> QED
      BY <2>1, InvalidateCloses
  <1>3. CASE Crash \/ UNCHANGED vars \/ \E x \in Uuids : Expire(x)
    BY <1>3 DEF Crash, Expire, vars
  <1> QED
    BY <1>1, <1>2, <1>3 DEF Next

\* Whatever the interleaving of the handlers, their failures and the crashes, the
\* cache behaves as the abstract sessions: opened with unused tokens only.
THEOREM SessionsRefined == Spec => ImplementsSessions
  <1>1. Init => Sessions!Init
    BY DEF Init, Sessions!Init
  <1> QED
    BY <1>1, SessionsStep, SessionInvariant, PTL DEF Spec, ImplementsSessions, Sessions!Spec

--------------------------------------------------------------------------------
(* Sessions are of verified users: no write un-verifies an account.         *)

LEMMA VerifiedStays ==
  ASSUME TypeInv, [Next]_vars, NEW u \in Users, authUser[u].verified
  PROVE  authUser'[u].verified
  <1>1. ASSUME NEW c \in Calls, DeactivateUser(c) \/ UpdateUserPassword(c)
        PROVE  authUser'[u].verified
    <2>1. call[c].user \in Users
      BY <1>1 DEF TypeInv, CallOK, DeactivateUser, UpdateUserPassword
    <2> QED
      BY <1>1, <2>1 DEF TypeInv, TypeOK, AuthUser, DeactivateUser, UpdateUserPassword
  <1>2. ASSUME NEW c \in Calls, VerifyUserAccount(c)
        PROVE  authUser'[u].verified
    <2>1. call[c].user \in Users /\ call[c].row \in AuthUser
      BY <1>2 DEF TypeInv, CallOK, VerifyUserAccount
    <2> QED
      BY <1>2, <2>1 DEF TypeInv, TypeOK, AuthUser, VerifyUserAccount
  <1>3. ASSUME NEW c \in Calls, Request(c) PROVE UNCHANGED authUser
    BY <1>3 DEF Request, LoginUser, RevalidateUserTokens, RevokeUserAccess,
       RecoverCredentials, ResetUserPassword, VerifyAccount, database
  <1>4. ASSUME NEW c \in Calls, Continue(c),
               ~DeactivateUser(c), ~UpdateUserPassword(c), ~VerifyUserAccount(c)
        PROVE  UNCHANGED authUser
    BY <1>4 DEF Continue, Validate, RotateInvalidate, RotateInsert, ReplyTokens,
       FindActiveUser, InvalidateBranch, FindPreviousToken, DeletePreviousToken,
       CreateRecoveryToken, FindUserToReset, FindRecoveryTokens, DeleteRecoveryToken, database
  <1>5. CASE UNCHANGED authUser
    BY <1>5
  <1> QED
    BY <1>1, <1>2, <1>3, <1>4, <1>5
       DEF Next, vars, CommandFails, LogoutUser, Expire, Crash, database

(* Where a call on its way to a session, or to the save of a verification,  *)
(* comes from: it was there before, or it begins with a row that is active  *)
(* and, for a session, verified.                                            *)
Openers == {"validate", "rotate", "insert", "reply", "verify"}

Continues(s, t) ==
    /\ t.pc \in Openers /\ s.user = t.user
    /\ s.pc \in {"validate", "rotate", "insert"} => t.pc \in {"validate", "rotate", "insert"}

Begins(s) ==
    /\ s.user \in Users
    /\ authUser[s.user].active
    /\ s.pc # "verify" => authUser[s.user].verified

LEMMA OpenersBegin ==
  ASSUME TypeInv, [Next]_vars, NEW c \in Calls, call'[c].pc \in Openers
  PROVE  Continues(call'[c], call[c]) \/ Begins(call'[c])
  <1> DEFINE Good == Continues(call'[c], call[c]) \/ Begins(call'[c])
  <1>1. CASE call'[c] = call[c]
    BY <1>1 DEF Continues
  <1>2. ASSUME NEW d \in Calls, NEW s, Goto(d, s),
               s.pc \in Openers => Continues(s, call[d]) \/ Begins(s)
        PROVE  Good
    <2>1. call'[c] = IF c = d THEN s ELSE call[c]
      BY <1>2 DEF TypeInv, TypeOK, Goto
    <2> QED
      BY <1>1, <1>2, <2>1
  <1> HIDE DEF Good
  <1>3. NoCall.pc \notin Openers
    BY DEF NoCall, Openers
  <1>4. ASSUME NEW d \in Calls, NEW todo, NEW found, Settle(d, todo, found),
               call[d].pc \in {"revoke", "reset"}
        PROVE  Good
    <2> DEFINE t == [call[d] EXCEPT !.todo = todo, !.found = found]
    <2>1. t.pc \notin Openers
      BY <1>4 DEF TypeInv, TypeOK, CallState, Openers
    <2> HIDE DEF t
    <2>2. Goto(d, NoCall) \/ Goto(d, t)
      BY <1>4 DEF Settle, t
    <2> QED
      BY <1>2, <1>3, <2>1, <2>2
  <1>5. ASSUME NEW d \in Calls, Request(d) PROVE Good
    <2>1. ASSUME NEW u \in Users, NEW password \in Passwords, LoginUser(d, u, password)
          PROVE  Good
      <3>1. PICK x \in Uuids : Goto(d, [NoCall EXCEPT !.pc = "rotate", !.user = u,
                                                     !.row = authUser[u], !.token = x])
        BY <2>1 DEF LoginUser
      <3> DEFINE s == [NoCall EXCEPT !.pc = "rotate", !.user = u,
                                     !.row = authUser[u], !.token = x]
      <3>2. s.user = u
        BY DEF NoCall
      <3> HIDE DEF s
      <3>3. Goto(d, s) /\ Begins(s)
        BY <2>1, <3>1, <3>2 DEF s, Begins, LoginUser
      <3> QED
        BY <1>2, <3>3
    <2>2. ASSUME NEW jwt \in jwts, RevalidateUserTokens(d, jwt)
          PROVE  Good
      <3> DEFINE s == [NoCall EXCEPT !.pc = "validate", !.user = jwt.sub,
                                     !.row = authUser[jwt.sub], !.token = jwt.check]
      <3>1. jwt.sub \in Users /\ s.user = jwt.sub
        BY DEF TypeInv, TypeOK, RefreshToken, NoCall
      <3> HIDE DEF s
      <3>2. Goto(d, s) /\ Begins(s)
        BY <2>2, <3>1 DEF s, Begins, RevalidateUserTokens, userCanPerformAction
      <3> QED
        BY <1>2, <3>2
    <2>3. ASSUME NEW u \in Users, VerifyAccount(d, u)
          PROVE  Good
      <3> DEFINE s == [NoCall EXCEPT !.pc = "verify", !.user = u, !.row = authUser[u]]
      <3>1. s.user = u /\ s.pc = "verify"
        BY DEF NoCall
      <3> HIDE DEF s
      <3>2. Goto(d, s) /\ Begins(s)
        BY <2>3, <3>1 DEF s, Begins, VerifyAccount
      <3> QED
        BY <1>2, <3>2
    <2>4. ASSUME NEW u \in Users, NEW agent \in Users, RevokeUserAccess(d, u, agent)
          PROVE  Good
      <3> DEFINE s == [NoCall EXCEPT
                        !.pc = "revoke", !.user = u,
                        !.todo = {"invalidate"} \cup
                          (IF checkAllowedActionOn_User(u, agent) THEN {"find"} ELSE {})]
      <3>1. s.pc \notin Openers
        BY DEF NoCall, Openers
      <3> HIDE DEF s
      <3>2. Goto(d, s)
        BY <2>4 DEF s, RevokeUserAccess
      <3> QED
        BY <1>2, <3>1, <3>2
    <2>5. ASSUME NEW u \in Users, RecoverCredentials(d, u)
          PROVE  Good
      <3> DEFINE s == [NoCall EXCEPT !.pc = "recover", !.user = u]
      <3>1. s.pc \notin Openers
        BY DEF NoCall, Openers
      <3> HIDE DEF s
      <3>2. Goto(d, s)
        BY <2>5 DEF s, RecoverCredentials
      <3> QED
        BY <1>2, <3>1, <3>2
    <2>6. ASSUME NEW m \in mailed, NEW password \in Passwords,
                 ResetUserPassword(d, m.token, password)
          PROVE  Good
      <3>1. PICK r \in recoveryTokens :
              Goto(d, [NoCall EXCEPT !.pc = "findUser", !.user = r.userId,
                                     !.token = m.token, !.password = password])
        BY <2>6 DEF ResetUserPassword
      <3> DEFINE s == [NoCall EXCEPT !.pc = "findUser", !.user = r.userId,
                                     !.token = m.token, !.password = password]
      <3>2. s.pc \notin Openers
        BY DEF NoCall, Openers
      <3> HIDE DEF s
      <3>3. Goto(d, s)
        BY <3>1 DEF s
      <3> QED
        BY <1>2, <3>2, <3>3
    <2> QED
      BY <1>5, <2>1, <2>2, <2>3, <2>4, <2>5, <2>6 DEF Request
  <1>6. ASSUME NEW d \in Calls, Continue(d) PROVE Good
    <2>0. call[d] \in CallState
      BY DEF TypeInv, TypeOK
    <2>1. ASSUME NEW x \in Uuids, call[d].pc = "validate",
                 Goto(d, [call[d] EXCEPT !.pc = "rotate", !.token = x])
          PROVE  Good
      <3> DEFINE s == [call[d] EXCEPT !.pc = "rotate", !.token = x]
      <3>1. s.user = call[d].user
        BY <2>0 DEF CallState
      <3> HIDE DEF s
      <3>2. Goto(d, s) /\ Continues(s, call[d])
        BY <2>1, <3>1 DEF s, Continues, Openers
      <3> QED
        BY <1>2, <3>2
    <2>2. ASSUME NEW pc \in Points, Goto(d, [call[d] EXCEPT !.pc = pc]),
                 call[d].pc \in {"rotate", "insert"} \/ pc \notin Openers
          PROVE  Good
      <3> DEFINE s == [call[d] EXCEPT !.pc = pc]
      <3>1. s.user = call[d].user /\ s.pc = pc
        BY <2>0 DEF CallState
      <3> HIDE DEF s
      <3>2. Goto(d, s)
        BY <2>2 DEF s
      <3>3. s.pc \in Openers => Continues(s, call[d])
        BY <2>2, <3>1 DEF Continues, Openers
      <3> QED
        BY <1>2, <3>2, <3>3
    <2>3. ASSUME NEW r \in recoveryTokens,
                 Goto(d, [call[d] EXCEPT !.pc = "delete", !.token = r.token])
          PROVE  Good
      <3> DEFINE s == [call[d] EXCEPT !.pc = "delete", !.token = r.token]
      <3>1. s.pc \notin Openers
        BY <2>0 DEF CallState, Openers
      <3> HIDE DEF s
      <3>2. Goto(d, s)
        BY <2>3 DEF s
      <3> QED
        BY <1>2, <3>1, <3>2
    <2>4. CASE FindUserToReset(d)
      <3> DEFINE s == [call[d] EXCEPT !.pc = "reset", !.row = authUser[call[d].user],
                                      !.todo = {"password", "tokens", "invalidate"}]
      <3>1. s.pc \notin Openers
        BY <2>0 DEF CallState, Openers
      <3>2. Goto(d, s) \/ Goto(d, NoCall)
        BY <2>4 DEF FindUserToReset
      <3> HIDE DEF s
      <3> QED
        BY <1>2, <1>3, <3>1, <3>2
    <2>5. /\ call[d].todo # {} => call[d].pc \in {"revoke", "reset"}
          /\ call[d].found # {} => call[d].pc = "reset"
      BY DEF TypeInv, CallOK
    <2>6. CASE \/ FindActiveUser(d) \/ DeactivateUser(d) \/ InvalidateBranch(d)
               \/ UpdateUserPassword(d) \/ FindRecoveryTokens(d)
      BY <1>4, <2>5, <2>6 DEF FindActiveUser, DeactivateUser, InvalidateBranch,
         UpdateUserPassword, FindRecoveryTokens
    <2>7. ASSUME NEW token \in call[d].found, DeleteRecoveryToken(d, token) PROVE Good
      BY <1>4, <2>5, <2>7 DEF DeleteRecoveryToken
    <2>8. CASE Goto(d, NoCall)
      BY <1>2, <1>3, <2>8
    <2>9. CASE Validate(d)
      BY <2>1, <2>8, <2>9 DEF Validate
    <2>10. CASE RotateInvalidate(d) \/ RotateInsert(d)
      BY <2>2, <2>10 DEF RotateInvalidate, RotateInsert, Points
    <2>11. CASE FindPreviousToken(d) \/ DeletePreviousToken(d)
      <3>1. "create" \in Points /\ "create" \notin Openers
        BY DEF Points, Openers
      <3> QED
        BY <2>2, <2>3, <2>11, <3>1 DEF FindPreviousToken, DeletePreviousToken
    <2>12. CASE ReplyTokens(d) \/ CreateRecoveryToken(d) \/ VerifyUserAccount(d)
      BY <2>8, <2>12 DEF ReplyTokens, CreateRecoveryToken, VerifyUserAccount
    <2> QED
      BY <1>6, <2>4, <2>6, <2>7, <2>9, <2>10, <2>11, <2>12 DEF Continue
  <1>7. ASSUME NEW d \in Calls, CommandFails(d) PROVE Good
    <2>1. /\ call[d].todo # {} => call[d].pc \in {"revoke", "reset"}
          /\ call[d].found # {} => call[d].pc = "reset"
      BY DEF TypeInv, CallOK
    <2> QED
      BY <1>2, <1>3, <1>4, <1>7, <2>1 DEF CommandFails
  <1>8. CASE UNCHANGED call
    BY <1>1, <1>8 DEF Good
  <1>9. CASE Crash
    BY <1>3, <1>9 DEF Crash
  <1> QED
    BY <1>5, <1>6, <1>7, <1>8, <1>9 DEF Next, vars, LogoutUser, Expire, Good

(* An entry of the cache comes from the SET of a rotation of that user. *)
LEMMA EntriesAreInserted ==
  ASSUME TypeInv, [Next]_vars, NEW u \in Users
  PROVE  \/ cache'[u] \in {cache[u], None}
         \/ \E c \in Calls : call[c].pc = "insert" /\ call[c].user = u
  <1>1. ASSUME NEW v \in Users, invalidate(v) PROVE cache'[u] \in {cache[u], None}
    BY <1>1 DEF TypeInv, TypeOK, invalidate
  <1>2. ASSUME NEW c \in Calls, Request(c) \/ CommandFails(c) \/ Continue(c)
        PROVE  \/ cache'[u] \in {cache[u], None}
               \/ call[c].pc = "insert" /\ call[c].user = u
    <2>1. CASE RotateInsert(c)
      BY <2>1 DEF TypeInv, TypeOK, RotateInsert, insert
    <2>2. CASE RotateInvalidate(c) \/ InvalidateBranch(c)
      <3>1. call[c].user \in Users /\ invalidate(call[c].user)
        BY <2>2 DEF TypeInv, CallOK, RotateInvalidate, InvalidateBranch
      <3> QED
        BY <1>1, <3>1
    <2>3. CASE ~RotateInsert(c) /\ ~RotateInvalidate(c) /\ ~InvalidateBranch(c)
      BY <1>2, <2>3, CacheUntouched
    <2> QED
      BY <2>1, <2>2, <2>3
  <1>3. ASSUME NEW jwt \in jwts, LogoutUser(jwt) PROVE cache'[u] \in {cache[u], None}
    <2>1. jwt.sub \in Users /\ invalidate(jwt.sub)
      BY <1>3 DEF TypeInv, TypeOK, RefreshToken, LogoutUser
    <2> QED
      BY <1>1, <2>1
  <1>4. CASE Crash \/ UNCHANGED vars \/ \E x \in Uuids : Expire(x)
    BY <1>4 DEF Crash, Expire, vars
  <1> QED
    BY <1>2, <1>3, <1>4 DEF Next

LEMMA VerifiedInit == Init => VerifiedInv
  BY DEF Init, VerifiedInv, SessionsAreOfVerifiedUsers, NoCall

LEMMA VerifiedStep == TypeInv /\ VerifiedInv /\ [Next]_vars => VerifiedInv'
  <1> SUFFICES ASSUME TypeInv, VerifiedInv, [Next]_vars PROVE VerifiedInv'
    OBVIOUS
  <1>1. ASSUME NEW u \in Users, authUser[u].verified PROVE authUser'[u].verified
    BY <1>1, VerifiedStays
  <1>2. ASSUME NEW c \in Calls, call'[c].pc \in {"validate", "rotate", "insert"}
        PROVE  authUser'[call'[c].user].verified
    <2>1. Continues(call'[c], call[c]) \/ Begins(call'[c])
      BY <1>2, OpenersBegin DEF Openers
    <2>2. CASE Begins(call'[c])
      BY <1>1, <1>2, <2>2 DEF Begins
    <2>3. CASE Continues(call'[c], call[c])
      BY <1>1, <1>2, <2>3 DEF Continues, Openers, VerifiedInv, TypeInv, CallOK
    <2> QED
      BY <1>2, <2>1, <2>2, <2>3
  <1>3. ASSUME NEW u \in Users, cache'[u] # None
        PROVE  authUser'[u].verified
    <2>1. CASE cache'[u] \in {cache[u], None}
      BY <1>1, <1>3, <2>1 DEF VerifiedInv, SessionsAreOfVerifiedUsers
    <2>2. CASE \E c \in Calls : call[c].pc = "insert" /\ call[c].user = u
      BY <1>1, <2>2 DEF VerifiedInv
    <2> QED
      BY <2>1, <2>2, EntriesAreInserted
  <1> QED
    BY <1>2, <1>3 DEF VerifiedInv, SessionsAreOfVerifiedUsers

\* Only verified accounts have a session, although the row a session is opened
\* for was read before.
THEOREM SessionsAreOfVerifiedUsersHolds == Spec => []SessionsAreOfVerifiedUsers
  <1>1. Init => TypeInv /\ VerifiedInv
    BY TypeInit, VerifiedInit
  <1>2. TypeInv /\ VerifiedInv /\ [Next]_vars => (TypeInv /\ VerifiedInv)'
    BY TypeStep, VerifiedStep
  <1>3. VerifiedInv => SessionsAreOfVerifiedUsers
    BY DEF VerifiedInv
  <1> QED
    BY <1>1, <1>2, <1>3, PTL DEF Spec

--------------------------------------------------------------------------------
(* Deactivation is final once the calls that overlapped it are over. *)

(* Only the save of a verification that read an active row re-activates. *)
LEMMA InactiveStays ==
  ASSUME TypeInv, [Next]_vars, NEW u \in Users, ~authUser[u].active,
         \A c \in Calls : call[c].user = u => call[c].pc # "verify"
  PROVE  ~authUser'[u].active
  <1>1. ASSUME NEW c \in Calls, DeactivateUser(c) \/ UpdateUserPassword(c)
        PROVE  ~authUser'[u].active
    <2>1. call[c].user \in Users
      BY <1>1 DEF TypeInv, CallOK, DeactivateUser, UpdateUserPassword
    <2> QED
      BY <1>1, <2>1 DEF TypeInv, TypeOK, AuthUser, DeactivateUser, UpdateUserPassword
  <1>2. ASSUME NEW c \in Calls, VerifyUserAccount(c)
        PROVE  ~authUser'[u].active
    BY <1>2 DEF TypeInv, TypeOK, VerifyUserAccount
  <1>3. ASSUME NEW c \in Calls, Request(c) PROVE UNCHANGED authUser
    BY <1>3 DEF Request, LoginUser, RevalidateUserTokens, RevokeUserAccess,
       RecoverCredentials, ResetUserPassword, VerifyAccount, database
  <1>4. ASSUME NEW c \in Calls, Continue(c),
               ~DeactivateUser(c), ~UpdateUserPassword(c), ~VerifyUserAccount(c)
        PROVE  UNCHANGED authUser
    BY <1>4 DEF Continue, Validate, RotateInvalidate, RotateInsert, ReplyTokens,
       FindActiveUser, InvalidateBranch, FindPreviousToken, DeletePreviousToken,
       CreateRecoveryToken, FindUserToReset, FindRecoveryTokens, DeleteRecoveryToken, database
  <1>5. CASE UNCHANGED authUser
    BY <1>5
  <1> QED
    BY <1>1, <1>2, <1>3, <1>4, <1>5
       DEF Next, vars, CommandFails, LogoutUser, Expire, Crash, database

LEMMA LockoutStep ==
  ASSUME TypeInv, [Next]_vars, NEW u \in Users, LockedOut(u)
  PROVE  LockedOut(u)' /\ cache'[u] \in {cache[u], None}
  <1>1. /\ ~authUser[u].active
        /\ \A c \in Calls : call[c].user = u => call[c].pc \notin Openers
    BY DEF LockedOut, Openers
  <1>2. ~authUser'[u].active
    BY <1>1, InactiveStays DEF Openers
  <1>3. ASSUME NEW c \in Calls, call'[c].user = u, call'[c].pc \in Openers
        PROVE  FALSE
    BY <1>1, <1>3, OpenersBegin DEF Continues, Begins
  <1>4. cache'[u] \in {cache[u], None}
    BY <1>1, EntriesAreInserted DEF Openers
  <1> QED
    BY <1>2, <1>3, <1>4 DEF LockedOut, Openers

\* A user who is inactive and has no login, revalidation or verification in flight
\* stays so for ever, and opens no session.
THEOREM LockoutIsFinalHolds == Spec => LockoutIsFinal
  <1>1. TypeInv /\ [Next]_vars => [LockoutKept]_vars
    BY LockoutStep DEF LockoutKept
  <1> QED
    BY <1>1, TypeCorrect, PTL DEF Spec, LockoutIsFinal
================================================================================
