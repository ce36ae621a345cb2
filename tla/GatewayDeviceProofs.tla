--------------------------- MODULE GatewayDeviceProofs ---------------------------
(***************************************************************************)
(* The gateway, its browsers and auth-ms together implement DeviceSessions *)
(* (and with it RefreshSessions): the refresh token of a session reaches   *)
(* one browser, once, for any sets of browsers, users, requests and random *)
(* values and whatever the order of guards, handlers and responses.        *)
(***************************************************************************)
EXTENDS GatewayProofs

\* The queries of the handlers are used by what they return.
USE DEF checkHash, findOneById, findOneBySlug, getRecoveryToken, getValue

--------------------------------------------------------------------------------
(* Every rotation is for a request that waits for it: what a handler replies *)
(* is never lost at auth-ms, it goes out with a response.                    *)

Turning == {"validate", "rotate", "insert", "reply"}

AwaitedInv ==
    \A c \in Calls : call[c].pc \in Turning =>
        http[c].pc = "sent" /\ http[c].route \in CookieRoutes

LEMMA OffGoto ==
  ASSUME TypeInv, NEW c \in Calls, NEW s, Goto(c, s), s.pc \notin Turning
  PROVE  call'[c].pc \notin Turning
  BY DEF TypeInv, TypeOK, Goto

LEMMA OffSettle ==
  ASSUME TypeInv, NEW c \in Calls, NEW todo, NEW found, Settle(c, todo, found),
         call[c].todo # {} \/ call[c].found # {}
  PROVE  call'[c].pc \notin Turning
  <1> DEFINE t == [call[c] EXCEPT !.todo = todo, !.found = found]
  <1>1. t.pc = call[c].pc /\ call[c].pc \notin Turning
    BY DEF TypeInv, TypeOK, CallState, CallOK, Turning
  <1>2. PICK s : s \in {NoCall, t} /\ Goto(c, s)
    BY DEF Settle
  <1>3. NoCall.pc \notin Turning
    BY DEF NoCall, Turning
  <1> QED
    BY <1>1, <1>2, <1>3, OffGoto

(* A handler does not come to a rotation but from one. *)
LEMMA TurnsOn ==
  ASSUME TypeInv, NEW c \in Calls, Continue(c) \/ CommandFails(c),
         call'[c].pc \in Turning
  PROVE  call[c].pc \in Turning
  <1> SUFFICES ASSUME call[c].pc \notin Turning PROVE FALSE
    OBVIOUS
  <1>0. NoCall.pc \notin Turning /\ call[c] \in CallState
    BY DEF NoCall, Turning, TypeInv, TypeOK
  <1>1. ASSUME Goto(c, NoCall) PROVE FALSE
    BY <1>0, <1>1, OffGoto
  <1>2. ASSUME NEW pc \in {"create", "delete"}, NEW token,
               \/ Goto(c, [call[c] EXCEPT !.pc = pc])
               \/ Goto(c, [call[c] EXCEPT !.pc = pc, !.token = token])
        PROVE  FALSE
    <2>1. /\ [call[c] EXCEPT !.pc = pc].pc \notin Turning
          /\ [call[c] EXCEPT !.pc = pc, !.token = token].pc \notin Turning
      BY <1>0 DEF CallState, Turning
    <2> QED
      BY <1>2, <2>1, OffGoto
  <1>3. ASSUME FindUserToReset(c) PROVE FALSE
    <2> DEFINE t == [call[c] EXCEPT !.pc = "reset", !.row = authUser[call[c].user],
                                    !.todo = {"password", "tokens", "invalidate"}]
    <2>1. t.pc \notin Turning
      BY <1>0 DEF CallState, Turning
    <2>2. Goto(c, t) \/ Goto(c, NoCall)
      BY <1>3 DEF FindUserToReset
    <2> HIDE DEF t
    <2> QED
      BY <1>1, <2>1, <2>2, OffGoto
  <1>4. ASSUME \/ FindActiveUser(c) \/ DeactivateUser(c) \/ InvalidateBranch(c)
               \/ UpdateUserPassword(c) \/ FindRecoveryTokens(c)
        PROVE  FALSE
    <2>1. PICK todo, found : Settle(c, todo, found) /\ call[c].todo # {}
      BY <1>4 DEF FindActiveUser, DeactivateUser, InvalidateBranch, UpdateUserPassword,
         FindRecoveryTokens
    <2> QED
      BY <2>1, OffSettle
  <1>5. ASSUME NEW token \in call[c].found, DeleteRecoveryToken(c, token) PROVE FALSE
    BY <1>5, OffSettle DEF DeleteRecoveryToken
  <1>6. ASSUME FindPreviousToken(c) \/ DeletePreviousToken(c) PROVE FALSE
    BY <1>2, <1>6 DEF FindPreviousToken, DeletePreviousToken
  <1>7. ASSUME VerifyUserAccount(c) \/ CreateRecoveryToken(c) PROVE FALSE
    BY <1>1, <1>7 DEF VerifyUserAccount, CreateRecoveryToken
  <1>8. ASSUME CommandFails(c) PROVE FALSE
    <2>1. ASSUME NEW branch \in call[c].todo, NEW todo, NEW found, Settle(c, todo, found)
          PROVE  FALSE
      BY <2>1, OffSettle
    <2>2. ASSUME NEW token \in call[c].found, NEW todo, NEW found, Settle(c, todo, found)
          PROVE  FALSE
      BY <2>2, OffSettle
    <2> QED
      BY <1>1, <1>8, <2>1, <2>2 DEF CommandFails
  <1>9. ~Validate(c) /\ ~RotateInvalidate(c) /\ ~RotateInsert(c) /\ ~ReplyTokens(c)
    BY DEF Validate, RotateInvalidate, RotateInsert, ReplyTokens, Turning
  <1> QED
    BY <1>3, <1>4, <1>5, <1>6, <1>7, <1>8, <1>9 DEF Continue

(* Only a login or a revalidation that is forwarded begins one. *)
LEMMA TurnsForwarded ==
  ASSUME TypeInv, NEW c \in Calls, Forwards(c), call'[c].pc \in Turning
  PROVE  http[c].route \in CookieRoutes
  <1>1. ASSUME ForwardVerify(c) PROVE FALSE
    <2>1. [NoCall EXCEPT !.pc = "verify", !.user = http[c].user,
                         !.row = authUser[http[c].user]].pc \notin Turning
      BY DEF NoCall, Turning
    <2> QED
      BY <1>1, <2>1, OffGoto DEF ForwardVerify, VerifyAccount
  <1>2. ASSUME ForwardRecover(c) PROVE FALSE
    <2>1. [NoCall EXCEPT !.pc = "recover", !.user = http[c].user].pc \notin Turning
      BY DEF NoCall, Turning
    <2> QED
      BY <1>2, <2>1, OffGoto DEF ForwardRecover, RecoverCredentials
  <1>3. ASSUME ForwardReset(c) PROVE FALSE
    <2>1. ASSUME NEW r
          PROVE  [NoCall EXCEPT !.pc = "findUser", !.user = r.userId,
                    !.token = http[c].token, !.password = http[c].password].pc \notin Turning
      BY DEF NoCall, Turning
    <2> QED
      BY <1>3, <2>1, OffGoto DEF ForwardReset, ResetUserPassword
  <1> QED
    BY <1>1, <1>2, <1>3 DEF Forwards, ForwardLogin, ForwardRevalidate, Passed, CookieRoutes

(* A step concerns one request. *)
Others(c) == \A d \in Calls : d # c => http'[d] = http[d]

LEMMA OneRequest ==
  ASSUME Requests, NEW c \in Calls,
         \/ \E b \in Browsers : SendCredentials(c, b) \/ SendCookie(c, b) \/ SendBearer(c, b)
         \/ Serve(c) \/ Abandon(c) \/ FirstCommandFails(c) \/ HandlerFails(c)
  PROVE  Others(c)
  <1>1. ASSUME NEW s, Becomes(c, s) PROVE Others(c)
    BY <1>1 DEF Others, Becomes, Requests
  <1>2. ASSUME NEW status, Respond(c, status) PROVE Others(c)
    BY <1>2 DEF Others, Respond, Requests
  <1>3. ASSUME Forward(c) \/ Pass(c) PROVE Others(c)
    BY <1>3 DEF Others, Forward, Pass, Requests
  <1>4. ASSUME NEW b \in Browsers, SendCredentials(c, b) \/ SendCookie(c, b) \/ SendBearer(c, b)
        PROVE  Others(c)
    <2>1. PICK route, request : Send(c, b, route, request)
      BY <1>4 DEF SendCredentials, SendCookie, SendBearer
    <2> QED
      BY <1>1, <2>1 DEF Send, Becomes
  <1>5. ASSUME ThrottlerGuard(c) \/ CsrfGuard(c) \/ UserRoleGuard(c) PROVE Others(c)
    BY <1>2, <1>3, <1>5 DEF ThrottlerGuard, CsrfGuard, UserRoleGuard
  <1>6. ASSUME JwtAuthGuard(c) PROVE Others(c)
    <2>1. CASE http' = [http EXCEPT ![c].todo = Tail(http[c].todo), ![c].user = http[c].bearer]
      BY <2>1 DEF Others, Requests
    <2> QED
      BY <1>2, <1>6, <2>1 DEF JwtAuthGuard
  <1>7. ASSUME \/ ValidationPipe(c) \/ EmitSignup(c) \/ RefuseWithoutCookie(c)
               \/ FirstCommandFails(c) \/ RefusedByHandler(c) \/ RefusedCode(c)
               \/ ForwardLogout(c) \/ ForwardToMainApi(c)
        PROVE  Others(c)
    BY <1>2, <1>7 DEF ValidationPipe, EmitSignup, RefuseWithoutCookie, FirstCommandFails,
       RefusedByHandler, RefusedCode, ForwardLogout, ForwardToMainApi
  <1>8. ASSUME Forwards(c) PROVE Others(c)
    BY <1>3, <1>8, ForwardsAreForwarded
  <1>9. ASSUME HandlerStep(c) PROVE Others(c)
    <2>1. CASE http' = [http EXCEPT ![c].pc = "answered", ![c].status = 200,
                          ![c].cookie = [sub |-> call[c].user, check |-> call[c].token]]
      BY <2>1 DEF Others, Requests
    <2>2. CASE http' = http
      BY <2>2 DEF Others
    <2> HIDE DEF Respond
    <2> QED
      BY <1>2, <1>9, <2>1, <2>2 DEF HandlerStep, Answer
  <1>10. ASSUME HandlerFails(c) PROVE Others(c)
    BY <1>2, <1>10 DEF HandlerFails, Others
  <1>11. ASSUME Receive(c) \/ Abandon(c) PROVE Others(c)
    BY <1>1, <1>11 DEF Receive, Abandon, Becomes
  <1> QED
    BY <1>4, <1>5, <1>6, <1>7, <1>8, <1>9, <1>10, <1>11 DEF Serve, Forwards

(* A request that is at auth-ms or answered waits for one thing only. *)
LEMMA RequestMoves ==
  ASSUME Requests, [GNext]_gvars, NEW c \in Calls, http[c].pc \in {"sent", "answered"}
  PROVE  \/ http'[c] = http[c]
         \/ HandlerStep(c) \/ HandlerFails(c)
         \/ Abandon(c) \/ Receive(c)
  <1> DEFINE Moves(d) == \/ \E b \in Browsers : \/ SendCredentials(d, b)
                                               \/ SendCookie(d, b) \/ SendBearer(d, b)
                         \/ Serve(d) \/ Abandon(d) \/ FirstCommandFails(d) \/ HandlerFails(d)
  <1>1. ASSUME NEW d \in Calls, d # c, Moves(d) PROVE http'[c] = http[c]
    BY <1>1, OneRequest DEF Others
  <1>2. ASSUME Moves(c)
        PROVE  HandlerStep(c) \/ HandlerFails(c) \/ Abandon(c) \/ Receive(c)
    <2>1. ASSUME NEW b \in Browsers, SendCredentials(c, b) \/ SendCookie(c, b) \/ SendBearer(c, b)
          PROVE  FALSE
      BY <2>1 DEF SendCredentials, SendCookie, SendBearer, Send
    <2>2. ASSUME \/ ThrottlerGuard(c) \/ JwtAuthGuard(c) \/ CsrfGuard(c) \/ UserRoleGuard(c)
                 \/ ValidationPipe(c) \/ EmitSignup(c) \/ RefuseWithoutCookie(c)
                 \/ FirstCommandFails(c) \/ RefusedByHandler(c) \/ RefusedCode(c)
                 \/ ForwardLogout(c) \/ ForwardToMainApi(c)
          PROVE  FALSE
      BY <2>2 DEF ThrottlerGuard, JwtAuthGuard, CsrfGuard, UserRoleGuard, Runs,
         ValidationPipe, EmitSignup, RefuseWithoutCookie, FirstCommandFails,
         RefusedByHandler, RefusedCode, ForwardLogout, ForwardToMainApi, Passed
    <2>3. ~Forwards(c)
      BY ForwardsAreForwarded
    <2> QED
      BY <1>2, <2>1, <2>2, <2>3 DEF Serve, Forwards
  <1>3. ASSUME UNCHANGED http PROVE http'[c] = http[c]
    BY <1>3
  <1>4. \/ \E d \in Calls : Moves(d)
        \/ UNCHANGED http
    BY DEF GNext, Environment, CookiesExpire, gvars
  <1> HIDE DEF Moves
  <1> QED
    BY <1>1, <1>2, <1>3, <1>4

(* The answer to a rotation that goes on, or ends with its reply. *)
LEMMA TurningAnswer ==
  ASSUME TypeInv, NEW c \in Calls, HandlerStep(c), http[c].pc = "sent",
         call[c].pc \in Turning
  PROVE  \/ call'[c].pc = "idle"
         \/ http' = http
  <1>1. call[c].todo = {} /\ call[c].pc # "idle"
    BY DEF TypeInv, CallOK, Turning
  <1>2. CASE call[c].pc = "reply"
    <2>1. ReplyTokens(c)
      BY <1>2, OnlyReplies DEF HandlerStep
    <2> QED
      BY <2>1 DEF TypeInv, TypeOK, ReplyTokens, Goto, NoCall
  <1>3. CASE call'[c].pc # "idle" /\ call[c].pc # "reply"
    <2>1. Thrown(c) = None
      BY <1>1, <1>3 DEF Thrown, Turning
    <2> QED
      BY <1>3, <2>1 DEF HandlerStep, Answer
  <1> QED
    BY <1>2, <1>3

LEMMA AwaitedStep == GInv /\ AwaitedInv /\ [GNext]_gvars => AwaitedInv'
  <1> SUFFICES ASSUME GInv, AwaitedInv, [GNext]_gvars, NEW c \in Calls,
                      call'[c].pc \in Turning
               PROVE  http'[c].pc = "sent" /\ http'[c].route \in CookieRoutes
    BY DEF AwaitedInv
  <1>0. TypeInv /\ Requests
    BY DEF GInv
  <1>1. ASSUME http[c].pc = "sent", http[c].route \in CookieRoutes, call[c].pc \in Turning
        PROVE  http'[c].pc = "sent" /\ http'[c].route \in CookieRoutes
    <2>1. CASE http'[c] = http[c]
      BY <1>1, <2>1
    <2>2. CASE HandlerStep(c)
      BY <1>0, <1>1, <2>2, TurningAnswer DEF Turning
    <2>3. ASSUME HandlerFails(c) PROVE FALSE
      <3>1. call[c].pc \notin {"idle", "revoke", "reset"} /\ CommandFails(c)
            /\ call[c].todo = {} /\ call[c].found = {}
        BY <1>0, <1>1, <2>3 DEF HandlerFails, Turning, TypeInv, CallOK
      <3> QED
        BY <1>0, <3>1 DEF CommandFails, TypeInv, TypeOK, Goto, NoCall, Turning
    <2>4. ~Abandon(c) /\ ~Receive(c)
      BY <1>1 DEF Abandon, Receive, Turning
    <2> QED
      BY <1>0, <1>1, <2>1, <2>2, <2>3, <2>4, RequestMoves
  <1>2. CASE call'[c] = call[c]
    BY <1>1, <1>2 DEF AwaitedInv
  <1>3. ASSUME NEW d \in Calls, Forwards(d), Request(d)
        PROVE  http'[c].pc = "sent" /\ http'[c].route \in CookieRoutes
    <2>1. CASE d = c
      BY <1>0, <1>3, <2>1, TurnsForwarded, ForwardsAreForwarded, ForwardedHttp
    <2>2. CASE d # c
      BY <1>0, <1>2, <1>3, <2>2, CallsAlone
    <2> QED
      BY <2>1, <2>2
  <1>4. ASSUME NEW d \in Calls, HandlerStep(d) \/ HandlerFails(d)
        PROVE  http'[c].pc = "sent" /\ http'[c].route \in CookieRoutes
    <2>1. Continue(d) \/ CommandFails(d)
      BY <1>4 DEF HandlerStep, HandlerFails
    <2>2. CASE d = c
      BY <1>0, <1>1, <2>1, <2>2, TurnsOn DEF AwaitedInv
    <2>3. CASE d # c
      BY <1>0, <1>2, <2>1, <2>3, CallsAlone
    <2> QED
      BY <2>2, <2>3
  <1>5. ASSUME NEW d \in Calls, ForwardLogout(d) PROVE call' = call
    BY <1>5 DEF ForwardLogout, LogoutUser
  <1>6. CASE Crash \/ \E x \in Uuids : Expire(x)
    BY <1>2, <1>6 DEF Crash, Expire, NoCall, Turning
  <1> QED
    BY <1>2, <1>3, <1>4, <1>5, <1>6, StepKinds DEF vars

--------------------------------------------------------------------------------
(* A step, sorted by what the browsers and their cookies have of it.         *)

DeviceInv == FreshInv /\ CookieInv /\ AwaitedInv

(* No cookie is delivered, answered or changed. *)
Undelivered ==
    /\ jar' = jar /\ jwts' = jwts
    /\ \A c \in Calls : Carrying(http[c]) \/ Carrying(http'[c]) => http'[c] = http[c]

LEMMA JarMoves ==
  ASSUME [GNext]_gvars
  PROVE  \/ jar' = jar
         \/ \E c \in Calls : Receive(c)
         \/ \E b \in Browsers : CookiesExpire(b)
  <1>1. ASSUME NEW c \in Calls, Serve(c) \/ Abandon(c), ~Receive(c) PROVE jar' = jar
    <2>1. CASE Forwards(c)
      BY <2>1, ForwardsAreForwarded DEF Forward
    <2>2. CASE ForwardLogout(c) \/ HandlerStep(c)
      BY <2>2 DEF ForwardLogout, HandlerStep
    <2> QED
      BY <1>1, <2>1, <2>2, GatewayAlone DEF Serve, Forwards
  <1>2. ASSUME NEW c \in Calls, FirstCommandFails(c) \/ HandlerFails(c) PROVE jar' = jar
    BY <1>2 DEF FirstCommandFails, HandlerFails
  <1> QED
    BY <1>1, <1>2, SendsAlone DEF GNext, Environment, gvars

(* A refresh token is delivered with the response that carries it. *)
LEMMA JwtsMove ==
  ASSUME GInv, AwaitedInv, [GNext]_gvars, jwts' # jwts
  PROVE  \E c \in Calls : Replies(c)
  <1>0. TypeInv
    BY DEF GInv
  <1>1. PICK c \in Calls : HandlerStep(c)
    <2>1. ASSUME NEW c \in Calls, Request(c) PROVE FALSE
      BY <2>1, RequestGrowsNot DEF clients
    <2>2. ASSUME NEW c \in Calls, ForwardLogout(c) PROVE FALSE
      BY <2>2 DEF ForwardLogout, LogoutUser, clients
    <2>3. ASSUME NEW c \in Calls, HandlerFails(c) PROVE FALSE
      BY <2>3 DEF HandlerFails, CommandFails, clients
    <2>4. ~Crash /\ ~\E x \in Uuids : Expire(x)
      BY DEF Crash, Expire, clients
    <2> QED
      BY <2>1, <2>2, <2>3, <2>4, StepKinds DEF vars
  <1>2. ReplyTokens(c)
    BY <1>1 DEF HandlerStep, Continue, Validate, RotateInvalidate, RotateInsert,
       FindActiveUser, DeactivateUser, InvalidateBranch, FindPreviousToken,
       DeletePreviousToken, CreateRecoveryToken, FindUserToReset, UpdateUserPassword,
       FindRecoveryTokens, DeleteRecoveryToken, VerifyUserAccount, clients
  <1>3. call[c].pc = "reply" /\ call[c].todo = {} /\ http[c].pc = "sent"
    BY <1>0, <1>2 DEF ReplyTokens, AwaitedInv, Turning, TypeInv, CallOK
  <1>4. Thrown(c) = None
    BY <1>3 DEF Thrown
  <1> QED
    BY <1>1, <1>2, <1>3, <1>4 DEF HandlerStep, Answer, Replies

LEMMA DeviceKinds ==
  ASSUME DeviceInv, [GNext]_gvars
  PROVE  \/ Undelivered
         \/ \E c \in Calls : Replies(c)
         \/ \E c \in Calls : Receive(c)
         \/ \E b \in Browsers : CookiesExpire(b)
  <1> SUFFICES ASSUME ~\E c \in Calls : Replies(c),
                      ~\E c \in Calls : Receive(c),
                      ~\E b \in Browsers : CookiesExpire(b)
               PROVE  Undelivered
    OBVIOUS
  <1>0. GInv /\ SentInv /\ AwaitedInv /\ Requests
    BY DEF DeviceInv, FreshInv, GInv
  <1>1. jar' = jar /\ jwts' = jwts
    BY <1>0, JarMoves, JwtsMove
  <1>2. ASSUME NEW c \in Calls, Carrying(http[c]) PROVE http'[c] = http[c]
    <2>1. http[c].pc = "answered"
      BY <1>2 DEF Carrying
    <2>2. HandlerStep(c) \/ HandlerFails(c) => http' = http
      BY <2>1 DEF HandlerStep, HandlerFails, Answer
    <2>3. ~Abandon(c)
      BY <2>1 DEF Abandon
    <2> QED
      BY <1>0, <2>1, <2>2, <2>3, RequestMoves
  <1>3. ASSUME NEW c \in Calls, Carrying(http'[c]) PROVE http'[c] = http[c]
    <2>1. CASE Quiet
      BY <1>3, <2>1 DEF Quiet, Carrying, Succeeded
    <2>2. ASSUME NEW d \in Calls, Forwards(d) PROVE http'[c] = http[c]
      BY <1>0, <1>3, <2>2, ForwardsAreForwarded, ForwardedHttp DEF Carrying
    <2>3. ASSUME NEW d \in Calls, Finishes(d) PROVE http'[c] = http[c]
      BY <1>0, <1>3, <2>3, FinishedHttp DEF Carrying, CookieRoutes
    <2> QED
      BY <1>0, <2>1, <2>2, <2>3, StepDelivery
  <1> QED
    BY <1>1, <1>2, <1>3 DEF Undelivered

--------------------------------------------------------------------------------
(* The refinement mapping.                                                   *)

LEMMA HolderNow ==
  ASSUME CookieInv, NEW u \in Users
  PROVE  /\ \A b \in Browsers : Current(b, u) => Holder(u) = b
         /\ (\A b \in Browsers : ~Current(b, u)) => Holder(u) = None
  <1>1. ASSUME NEW b \in Browsers, Current(b, u) PROVE Holder(u) = b
    <2>1. Holder(u) = CHOOSE d \in Browsers : Current(d, u)
      BY <1>1 DEF Holder
    <2>2. Holder(u) \in Browsers /\ Current(Holder(u), u)
      BY <1>1, <2>1
    <2> QED
      BY <1>1, <2>2 DEF CookieInv, Current
  <1> QED
    BY <1>1 DEF Holder

LEMMA HolderThen ==
  ASSUME CookieInv', NEW u \in Users
  PROVE  /\ \A b \in Browsers : Current(b, u)' => Holder(u)' = b
         /\ (\A b \in Browsers : ~Current(b, u)') => Holder(u)' = None
  <1>1. ASSUME NEW b \in Browsers, Current(b, u)' PROVE Holder(u)' = b
    <2>1. Holder(u)' = CHOOSE d \in Browsers : Current(d, u)'
      BY <1>1 DEF Holder
    <2>2. Holder(u)' \in Browsers
          /\ jar'[Holder(u)'].auth # None /\ jar'[Holder(u)'].auth.check = cache'[u]
      BY <1>1, <2>1 DEF Current
    <2> QED
      BY <1>1, <2>2 DEF CookieInv, Current
  <1> QED
    BY <1>1 DEF Holder

(* A browser that is current before and after, or neither, is the holder     *)
(* before and after, or neither.                                             *)
LEMMA HolderKept ==
  ASSUME CookieInv, CookieInv', NEW u \in Users,
         \A b \in Browsers : Current(b, u)' <=> Current(b, u)
  PROVE  Holder(u)' = Holder(u)
  BY HolderNow, HolderThen

(* What a browser has was delivered. *)
LEMMA CurrentDelivered ==
  ASSUME GInv, NEW u \in Users, NEW b \in Browsers, Current(b, u)
  PROVE  cache[u] # None /\ jar[b].auth \in jwts
  BY AuthAssumption, Delivered DEF GInv, Jars, Current

LEMMA OnItsWayCarried ==
  ASSUME GInv, NEW u \in Users, cache[u] # None
  PROVE  OnItsWay(u) <=> \E c \in Calls : /\ Carrying(http[c])
                                          /\ http[c].cookie = [sub |-> u, check |-> cache[u]]
  <1>1. [sub |-> u, check |-> cache[u]] # None
    BY GatewayAssumption DEF GInv, TypeInv, TypeOK, RefreshToken
  <1> QED
    BY <1>1 DEF OnItsWay, Carrying, CookieRoutes

(* Delivered, and not on its way: out of the cache, the tokens and the       *)
(* responses before a step and those after it.                               *)
LEMMA HandedKept ==
  ASSUME GInv, GInv', NEW u \in Users, cache'[u] = cache[u],
         [sub |-> u, check |-> cache[u]] \in jwts'
            <=> [sub |-> u, check |-> cache[u]] \in jwts,
         \A c \in Calls :
            /\ Carrying(http'[c]) /\ http'[c].cookie = [sub |-> u, check |-> cache[u]]
            <=> /\ Carrying(http[c]) /\ http[c].cookie = [sub |-> u, check |-> cache[u]]
  PROVE  Handed(u)' <=> Handed(u)
  <1>1. CASE cache[u] = None
    BY <1>1 DEF Handed
  <1>2. CASE cache[u] # None
    <2> DEFINE j == [sub |-> u, check |-> cache[u]]
    <2>1. OnItsWay(u) <=> \E c \in Calls : Carrying(http[c]) /\ http[c].cookie = j
      BY <1>2, OnItsWayCarried
    <2>2. OnItsWay(u)' <=> \E c \in Calls : Carrying(http'[c]) /\ http'[c].cookie = j
      <3>1. j # None
        BY <1>2, GatewayAssumption DEF GInv, TypeInv, TypeOK, RefreshToken
      <3> QED
        BY <3>1 DEF OnItsWay, Carrying, CookieRoutes
    <2> QED
      BY <1>2, <2>1, <2>2 DEF Handed
  <1> QED
    BY <1>1, <1>2

(* A step of DeviceSessions, or none. *)
DeviceVars == <<cache, spent, [u \in Users |-> Holder(u)], [u \in Users |-> Handed(u)]>>

LEMMA Stutters ==
  ASSUME cache' = cache, spent' = spent,
         \A u \in Users : Holder(u)' = Holder(u),
         \A u \in Users : Handed(u)' <=> Handed(u)
  PROVE  UNCHANGED DeviceVars
  <1>1. \A u \in Users : Handed(u)' = Handed(u)
    BY DEF Handed
  <1> QED
    BY <1>1 DEF DeviceVars

(* The same holders but for one session, of which nobody has the token. *)
LEMMA Unhands ==
  ASSUME NEW u \in Users, Holder(u)' = None, ~Handed(u)',
         \A v \in Users : v # u => Holder(v)' = Holder(v) /\ (Handed(v)' <=> Handed(v))
  PROVE  Devices!Unhanded(u)
  <1>1. /\ Handed(u)' = FALSE
        /\ \A v \in Users : v # u => Handed(v)' = Handed(v)
    BY DEF Handed
  <1>2. [v \in Users |-> Holder(v)]' = [[v \in Users |-> Holder(v)] EXCEPT ![u] = None]
    OBVIOUS
  <1>3. [v \in Users |-> Handed(v)]' = [[v \in Users |-> Handed(v)] EXCEPT ![u] = FALSE]
    BY <1>1
  <1> QED
    BY <1>2, <1>3 DEF Devices!Unhanded

LEMMA Closes ==
  ASSUME NEW u \in Users, Sessions!Close(u), Devices!Unhanded(u)
  PROVE  Devices!Next
  BY DEF Sessions!Close, Devices!Close, Devices!Sessions!Close, Devices!Next

LEMMA Opens ==
  ASSUME NEW u \in Users, NEW x \in Uuids, Sessions!Open(u, x), Devices!Unhanded(u)
  PROVE  Devices!Next
  BY DEF Sessions!Open, Devices!Open, Devices!Sessions!Open, Devices!Next

--------------------------------------------------------------------------------
(* Steps that deliver nothing: sessions open and close.                      *)

LEMMA UndeliveredKeeps ==
  ASSUME DeviceInv, DeviceInv', Undelivered, NEW u \in Users, cache'[u] = cache[u]
  PROVE  Holder(u)' = Holder(u) /\ (Handed(u)' <=> Handed(u))
  <1>1. \A b \in Browsers : Current(b, u)' <=> Current(b, u)
    BY DEF Current, Undelivered
  <1> QED
    BY <1>1, HolderKept, HandedKept DEF DeviceInv, FreshInv, Undelivered

(* The token of a session just opened, or of none, is nobody's. *)
LEMMA UndeliveredUnhands ==
  ASSUME DeviceInv, DeviceInv', Undelivered, NEW u \in Users,
         cache'[u] = None \/ \A jwt \in jwts : jwt.check # cache'[u]
  PROVE  Holder(u)' = None /\ ~Handed(u)'
  <1>1. ASSUME NEW b \in Browsers, Current(b, u)' PROVE FALSE
    <2>1. jar[b].auth \in jwts /\ jar[b].auth.check = cache'[u]
      BY <1>1 DEF Current, Undelivered, DeviceInv, FreshInv, GInv, Jars
    <2>2. cache'[u] # None
      BY <2>1, Delivered, AuthAssumption DEF DeviceInv, FreshInv, GInv
    <2> QED
      BY <2>1, <2>2
  <1>2. ASSUME Handed(u)' PROVE FALSE
    BY <1>2 DEF Handed, Undelivered
  <1> QED
    BY <1>1, <1>2, HolderThen DEF DeviceInv

LEMMA UndeliveredStep ==
  ASSUME DeviceInv, DeviceInv', Undelivered, [Sessions!Next]_<<cache, spent>>
  PROVE  [Devices!Next]_DeviceVars
  <1>0. /\ cache \in [Users -> Uuids \cup {None}]
        /\ \A jwt \in jwts : jwt.sub \in Users /\ Held(jwt.sub, jwt.check)
    BY Delivered DEF DeviceInv, FreshInv, GInv, TypeInv, TypeOK, SessionInv
  <1>1. CASE UNCHANGED <<cache, spent>>
    BY <1>1, UndeliveredKeeps, Stutters
  <1>2. ASSUME NEW u \in Users, Sessions!Close(u) PROVE Devices!Next
    <2>1. cache'[u] = None /\ \A v \in Users : v # u => cache'[v] = cache[v]
      BY <1>0, <1>2 DEF Sessions!Close
    <2> QED
      BY <1>2, <2>1, UndeliveredKeeps, UndeliveredUnhands, Unhands, Closes
  <1>3. ASSUME NEW u \in Users, NEW x \in Uuids, Sessions!Open(u, x) PROVE Devices!Next
    <2>1. cache'[u] = x /\ \A v \in Users : v # u => cache'[v] = cache[v]
      BY <1>0, <1>3 DEF Sessions!Open
    <2>2. \A jwt \in jwts : jwt.check # x
      BY <1>0, <1>3 DEF Sessions!Open, Held
    <2> QED
      BY <1>3, <2>1, <2>2, UndeliveredKeeps, UndeliveredUnhands, Unhands, Opens
  <1> QED
    BY <1>1, <1>2, <1>3 DEF Sessions!Next

--------------------------------------------------------------------------------
(* The reply of a rotation: its token is on its way, as good as not handed   *)
(* out.                                                                      *)

LEMMA ReplyDevices ==
  ASSUME DeviceInv, DeviceInv', NEW c \in Calls, Replies(c)
  PROVE  UNCHANGED DeviceVars
  <1> DEFINE k == [sub |-> call[c].user, check |-> call[c].token]
  <1>0. Requests /\ cache' = cache /\ spent' = spent /\ jar' = jar
        /\ jwts' = jwts \cup {k}
    BY DEF DeviceInv, FreshInv, GInv, Replies, ReplyTokens, database
  <1>1. /\ http[c].pc = "sent" /\ http'[c].cookie = k
        /\ http'[c].pc = "answered" /\ http'[c].status = 200
        /\ http'[c].route \in CookieRoutes
        /\ \A d \in Calls : d # c => http'[d] = http[d]
    <2>1. http[c].route \in CookieRoutes
      BY DEF DeviceInv, AwaitedInv, Replies, ReplyTokens, Turning
    <2> QED
      BY <1>0, <2>1 DEF Requests, HttpState, Replies
  <1>2. k \notin jwts
    <2>1. \A jwt \in jwts : jwt.check # call[c].token
      BY DEF DeviceInv, FreshInv, HotInv, Replies, ReplyTokens, Hot
    <2> QED
      BY <2>1
  <1> HIDE DEF k
  <1>3. ASSUME NEW u \in Users PROVE Handed(u)' <=> Handed(u)
    <2> DEFINE j == [sub |-> u, check |-> cache[u]]
    <2>1. CASE j = k
      <3>1. OnItsWay(u)'
        BY <1>0, <1>1, <2>1 DEF OnItsWay, CookieRoutes
      <3> QED
        BY <1>2, <2>1, <3>1 DEF Handed
    <2>2. CASE j # k
      <3>1. \A d \in Calls : Carrying(http'[d]) /\ http'[d].cookie = j
                             <=> Carrying(http[d]) /\ http[d].cookie = j
        BY <1>1, <2>2 DEF Carrying
      <3> QED
        BY <1>0, <2>2, <3>1, HandedKept DEF DeviceInv, FreshInv
    <2> QED
      BY <2>1, <2>2
  <1>4. ASSUME NEW u \in Users PROVE Holder(u)' = Holder(u)
    BY <1>0, HolderKept DEF Current, DeviceInv
  <1> QED
    BY <1>0, <1>3, <1>4, Stutters

--------------------------------------------------------------------------------
(* Steps that change one browser's cookies.                                  *)

(* The browser loses what it had, or keeps it. *)
LEMMA DropDevices ==
  ASSUME CookieInv, CookieInv', cache' = cache, spent' = spent, NEW b0 \in Browsers,
         \A u \in Users : Handed(u)' <=> Handed(u),
         \A u \in Users, b \in Browsers : b # b0 => (Current(b, u)' <=> Current(b, u)),
         \A u \in Users : Current(b0, u)' => Current(b0, u)
  PROVE  [Devices!Next]_DeviceVars
  <1>1. ASSUME NEW u \in Users, \A b \in Browsers : Current(b, u)' <=> Current(b, u)
        PROVE  Holder(u)' = Holder(u)
    BY <1>1, HolderKept
  <1>2. CASE \A u \in Users : Current(b0, u)' <=> Current(b0, u)
    BY <1>1, <1>2, Stutters
  <1>3. ASSUME NEW u \in Users, Current(b0, u), ~Current(b0, u)' PROVE Devices!Forget(u)
    <2>1. Holder(u) = b0 /\ Holder(u) # None
      BY <1>3, HolderNow, GatewayAssumption
    <2>2. Holder(u)' = None
      <3>1. \A b \in Browsers : ~Current(b, u)'
        BY <1>3, <2>1, HolderNow
      <3> QED
        BY <3>1, HolderThen
    <2>3. ASSUME NEW v \in Users, v # u PROVE Holder(v)' = Holder(v)
      <3>1. ~Current(b0, v)
        BY <1>3, <2>3 DEF Current
      <3> QED
        BY <1>1, <3>1
    <2>4. [v \in Users |-> Holder(v)]' = [[v \in Users |-> Holder(v)] EXCEPT ![u] = None]
      BY <2>2, <2>3
    <2>5. \A v \in Users : Handed(v)' = Handed(v)
      BY DEF Handed
    <2> QED
      BY <2>1, <2>4, <2>5 DEF Devices!Forget
  <1> QED
    BY <1>2, <1>3 DEF Devices!Next

LEMMA ReceiveDevices ==
  ASSUME DeviceInv, DeviceInv', NEW c \in Calls, Receive(c)
  PROVE  [Devices!Next]_DeviceVars
  <1> DEFINE k == http[c].cookie
  <1>0. GInv /\ GInv' /\ Requests /\ Jars /\ CookieInv /\ CookieInv'
    BY DEF DeviceInv, FreshInv, GInv
  <1>1. cache' = cache /\ spent' = spent /\ jwts' = jwts
    BY DEF Receive, vars
  <1>2. PICK b0 \in Browsers : b0 = http[c].browser /\ http[c].pc = "answered"
    BY <1>0 DEF Requests, RequestOK, Receive
  <1>3. \A b \in Browsers : jar'[b] = IF b = b0 THEN CookiesAfter(c) ELSE jar[b]
    BY <1>0, <1>2 DEF Jars, Receive
  <1>4. \A d \in Calls : Carrying(http'[d]) <=> d # c /\ Carrying(http[d])
    BY <1>0, ReceivedHttp DEF Carrying, NoRequest
  <1>5. \A d \in Calls : d # c => http'[d] = http[d]
    BY <1>0, ReceivedHttp
  <1>6. ASSUME NEW u \in Users, NEW b \in Browsers, b # b0
        PROVE  Current(b, u)' <=> Current(b, u)
    BY <1>1, <1>3, <1>6 DEF Current
  <1> HIDE DEF k
  <1>7. ASSUME NEW u \in Users, ~(Carrying(http[c]) /\ k = [sub |-> u, check |-> cache[u]])
        PROVE  Handed(u)' <=> Handed(u)
    BY <1>0, <1>1, <1>4, <1>5, <1>7, HandedKept DEF k
  <1>8. CASE ~Carrying(http[c])
    <2>1. CookiesAfter(c).auth \in {jar[b0].auth, None}
      BY <1>2, <1>8 DEF CookiesAfter, SessionCookies, NoCookies, Carrying, CookieRoutes
    <2>2. \A u \in Users : Current(b0, u)' => Current(b0, u)
      BY <1>1, <1>2, <1>3, <2>1 DEF Current
    <2> QED
      BY <1>0, <1>1, <1>2, <1>6, <1>7, <1>8, <2>2, DropDevices
  <1>9. CASE Carrying(http[c])
    <2>1. k \in jwts /\ k # None /\ k.sub \in Users
      BY <1>0, <1>9, Delivered DEF Carrying, Requests, RequestOK, GInv, k
    <2>2. CookiesAfter(c).auth = k
      BY <1>9 DEF CookiesAfter, SessionCookies, Carrying, CookieRoutes, k
    <2>3. k = [sub |-> k.sub, check |-> k.check]
      BY <1>0, <2>1, Delivered DEF GInv, RefreshToken
    <2>4. CASE k.check # cache[k.sub]
      <3>1. \A u \in Users : k # [sub |-> u, check |-> cache[u]]
        BY <2>4
      <3>2. \A u \in Users : ~Current(b0, u)'
        BY <1>1, <1>2, <1>3, <2>2, <2>4 DEF Current
      <3> QED
        BY <1>0, <1>1, <1>2, <1>6, <1>7, <3>1, <3>2, DropDevices
    <2>5. CASE k.check = cache[k.sub]
      <3>1. PICK u \in Users : cache[u] # None /\ k = [sub |-> u, check |-> cache[u]]
        BY <1>0, <2>1, <2>3, <2>5, Delivered, AuthAssumption DEF GInv
      <3>2. Current(b0, u)' /\ \A v \in Users : v # u => ~Current(b0, v)'
        BY <1>1, <1>2, <1>3, <2>1, <2>2, <3>1 DEF Current
      <3>3. ~Handed(u)
        BY <1>0, <1>9, <2>1, <3>1, OnItsWayCarried DEF Handed, k
      <3>4. Handed(u)'
        <4>1. ASSUME NEW d \in Calls, Carrying(http'[d]), http'[d].cookie = k PROVE FALSE
          BY <1>0, <1>4, <1>5, <1>9, <4>1 DEF CookieInv, k
        <4>2. ~OnItsWay(u)'
          BY <1>1, <2>1, <3>1, <4>1 DEF OnItsWay, Carrying, CookieRoutes
        <4> QED
          BY <1>1, <2>1, <3>1, <4>2 DEF Handed
      <3>5. \A v \in Users : v # u => Handed(v)' = Handed(v)
        <4>1. \A v \in Users : v # u => (Handed(v)' <=> Handed(v))
          BY <1>7, <3>1
        <4> QED
          BY <4>1 DEF Handed
      <3>6. Holder(u)' = b0
        BY <1>0, <1>2, <3>2, HolderThen
      <3>7. ASSUME NEW v \in Users, v # u
            PROVE  Holder(v)' = IF Holder(v) = b0 THEN None ELSE Holder(v)
        BY <1>0, <1>2, <1>6, <3>2, <3>7, HolderNow, HolderThen
      <3>8. [v \in Users |-> Holder(v)]' =
              [v \in Users |-> IF v = u THEN b0
                               ELSE IF [w \in Users |-> Holder(w)][v] = b0 THEN None
                               ELSE [w \in Users |-> Holder(w)][v]]
        BY <3>6, <3>7
      <3>9. [v \in Users |-> Handed(v)]' =
               [[v \in Users |-> Handed(v)] EXCEPT ![u] = TRUE]
        <4>1. Handed(u)' = TRUE
          BY <3>4 DEF Handed
        <4> QED
          BY <3>5, <4>1
      <3>10. Devices!Hand(u, b0)
        BY <1>1, <3>1, <3>3, <3>8, <3>9 DEF Devices!Hand
      <3> QED
        BY <1>2, <3>10 DEF Devices!Next
    <2> QED
      BY <2>4, <2>5
  <1> QED
    BY <1>8, <1>9

LEMMA ExpiryDevices ==
  ASSUME DeviceInv, DeviceInv', NEW b0 \in Browsers, CookiesExpire(b0)
  PROVE  [Devices!Next]_DeviceVars
  <1>0. GInv /\ GInv' /\ Jars /\ CookieInv /\ CookieInv'
    BY DEF DeviceInv, FreshInv, GInv
  <1>1. cache' = cache /\ spent' = spent /\ jwts' = jwts /\ http' = http
    BY DEF CookiesExpire, vars
  <1>2. \A b \in Browsers : IF b = b0 THEN jar'[b].auth = None ELSE jar'[b] = jar[b]
    BY <1>0 DEF Jars, CookiesExpire
  <1>3. \A u \in Users : Handed(u)' <=> Handed(u)
    BY <1>0, <1>1, HandedKept
  <1>4. /\ \A u \in Users, b \in Browsers : b # b0 => (Current(b, u)' <=> Current(b, u))
        /\ \A u \in Users : ~Current(b0, u)'
    BY <1>1, <1>2 DEF Current
  <1> QED
    BY <1>0, <1>1, <1>3, <1>4, DropDevices

--------------------------------------------------------------------------------
(* The invariant of the refinement, and the refinement. *)

LEMMA DeviceInit == GInit => DeviceInv
  <1> SUFFICES ASSUME GInit PROVE DeviceInv
    OBVIOUS
  <1>1. AwaitedInv
    BY DEF GInit, Init, AwaitedInv, NoCall, Turning
  <1> QED
    BY <1>1, GTypeInit, CookieInit, HotInit, SessionInit DEF GInit, DeviceInv, FreshInv

LEMMA DeviceStep == DeviceInv /\ [GNext]_gvars => DeviceInv'
  <1> SUFFICES ASSUME DeviceInv, [GNext]_gvars PROVE DeviceInv'
    OBVIOUS
  <1>1. FreshInv /\ GInv /\ TypeInv /\ [Next]_vars
    BY StepRefined DEF DeviceInv, FreshInv, GInv
  <1>2. GInv' /\ SessionInv' /\ HotInv' /\ SentInv'
    BY <1>1, GTypeStep, SessionStep, HotInvStep, SentStep DEF FreshInv
  <1> QED
    BY <1>1, <1>2, AwaitedStep, CookieStep DEF DeviceInv, FreshInv

LEMMA DevicesStep == DeviceInv /\ DeviceInv' /\ [GNext]_gvars => [Devices!Next]_DeviceVars
  <1> SUFFICES ASSUME DeviceInv, DeviceInv', [GNext]_gvars
               PROVE  [Devices!Next]_DeviceVars
    OBVIOUS
  <1>1. [Sessions!Next]_<<cache, spent>>
    BY StepRefined, SessionsStep DEF DeviceInv, FreshInv, GInv
  <1> QED
    BY <1>1, DeviceKinds, UndeliveredStep, ReplyDevices, ReceiveDevices, ExpiryDevices

LEMMA DevicesInit == GInit => Devices!Init
  <1> SUFFICES ASSUME GInit PROVE Devices!Init
    OBVIOUS
  <1>1. cache = [u \in Users |-> None] /\ spent = {}
    BY DEF GInit, Init
  <1>2. ASSUME NEW u \in Users PROVE Holder(u) = None /\ Handed(u) = FALSE
    BY <1>1 DEF GInit, NoCookies, Holder, Handed, Current
  <1>3. Devices!Sessions!Init
    BY <1>1 DEF Devices!Sessions!Init
  <1> QED
    BY <1>2, <1>3 DEF Devices!Init

\* The cache and the cookies of all browsers implement DeviceSessions: each
\* session's refresh token reaches one browser, once, in whatever order responses
\* arrive, and a browser that has lost it never has it again.
THEOREM DevicesRefined == GSpec => ImplementsDevices
  <1>1. GInit => DeviceInv /\ Devices!Init
    BY DeviceInit, DevicesInit
  <1>2. DeviceInv /\ [GNext]_gvars => DeviceInv' /\ [Devices!Next]_DeviceVars
    BY DeviceStep, DevicesStep
  <1> QED
    BY <1>1, <1>2, PTL DEF GSpec, ImplementsDevices, Devices!Spec, DeviceVars

\* What auth-ms promises about sessions and passwords, it promises behind the
\* gateway to every browser: nothing the guards let through, and no order of
\* responses, breaks what was proved of AuthService.
THEOREM GatewayKeepsPromises ==
  GSpec => /\ ImplementsSessions /\ LockoutIsFinal /\ PasswordsChangeByOwnToken
           /\ [](NoRevival /\ DeliveredTokensAreTracked /\ SessionsAreOfVerifiedUsers)
  <1>1. GSpec => Spec
    BY AuthServiceRefined DEF ImplementsAuthService
  <1> QED
    BY <1>1, SessionsRefined, LockoutIsFinalHolds, PasswordsChangeByOwnTokenHolds,
       NoRevivalHolds, DeliveredTokensAreTrackedHolds, SessionsAreOfVerifiedUsersHolds, PTL

================================================================================
