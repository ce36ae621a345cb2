--------------------------------- MODULE Gateway ---------------------------------
(***************************************************************************)
(* The HTTP side of the system: browsers with their cookies, the gateway   *)
(* (apps/client-api-gateway) with its guards and controllers, and behind   *)
(* it auth-ms, whose handlers are those of AuthService.                    *)
(*                                                                         *)
(* A request has a slot c; the call auth-ms runs for it is call[c].  The   *)
(* gateway awaits each guard of a route in turn, then forwards the request *)
(* and awaits the reply, for as long as it takes; the response reaches the *)
(* browser later, in any order with others.                                *)
(*                                                                         *)
(* main-api is behind the gateway too (UserSync); here it is a service     *)
(* that answers.                                                           *)
(***************************************************************************)
EXTENDS AuthService, ErrorPath, Sequences

CONSTANTS
    Browsers,
    Guests    \* the users who are neither USER, ADMIN nor SYS_ADMIN

ASSUME GatewayAssumption ==
    /\ Guests \subseteq Users \ (SysAdmins \cup Admins)
    /\ None \notin Browsers
    /\ None \notin Exceptions
    /\ None \notin RefreshToken

VARIABLES
    http,  \* the request in progress in every slot
    jar    \* cookies of each browser: Authentication and the CSRF token

gvars == <<vars, http, jar>>

(* The routes of the two controllers.  "write" stands for the routes of      *)
(* UserController behind @Protected(): create, update, deactivate.           *)
(* Guards in the order they run: those of the class, then those of the       *)
(* method, where decorators apply from the bottom up, but applyDecorators    *)
(* from the first to the last.                                               *)
Private == <<"jwt">>
CsrfCheck == <<"csrf">>
RoleCheck == <<"role">>    \* @AuthorizedRoles
Protected == CsrfCheck \o RoleCheck

Guards ==
    [ signup     |-> << >>,
      login      |-> << >>,
      verify     |-> << >>,
      recover    |-> << >>,
      reset      |-> << >>,
      logout     |-> CsrfCheck,
      revalidate |-> CsrfCheck,
      denyAccess |-> RoleCheck \o Private \o CsrfCheck,
      read       |-> Private,
      write      |-> Private \o Protected,
      delete     |-> Private \o CsrfCheck \o RoleCheck ]

Routes == DOMAIN Guards
UserRoutes == {"read", "write", "delete"}
AuthRoutes == {"login", "verify", "recover", "reset", "logout", "revalidate"}  \* client.send

\* @AuthorizedRoles and @Protected (which rejects guests).  The roles are those of the
\* cache entry, which are those of the row.
AuthorizedRoles(route) ==
    IF route \in {"delete", "denyAccess"} THEN SysAdmins ELSE Users \ Guests

HttpState ==
    [ pc       : {"idle", "guards", "sent", "answered"},
      browser  : Browsers \cup {None},
      route    : Routes \cup {None},
      todo     : Seq({"jwt", "csrf", "role"}),   \* guards still to run
      bearer   : Users \cup {None},              \* subject of the access token sent
      csrf     : BOOLEAN,                        \* CSRF cookie and header were sent
      cookie   : RefreshToken \cup {None},       \* the Authentication cookie, sent or to be set
      user     : Users \cup {None},              \* req.user, or the account the body names
      token    : Uuids \cup {None},              \* the recovery token in the body
      password : Passwords \cup {None},
      status   : Statuses \cup {None} ]

NoRequest ==
    [ pc |-> "idle", browser |-> None, route |-> None, todo |-> << >>, bearer |-> None,
      csrf |-> FALSE, cookie |-> None, user |-> None, token |-> None, password |-> None,
      status |-> None ]

NoCookies == [auth |-> None, csrf |-> FALSE]

GInit ==
    /\ Init
    /\ http = [c \in Calls |-> NoRequest]
    /\ jar = [b \in Browsers |-> NoCookies]

--------------------------------------------------------------------------------
(* Helpers. *)

Respond(c, status) ==
    http' = [http EXCEPT ![c].pc = "answered", ![c].status = status, ![c].todo = << >>]

\* The guards have let the request through; it is on its way to a service.
Passed(c, route) ==
    http[c].pc = "guards" /\ http[c].todo = << >> /\ http[c].route = route

\* Bound: a request that leads to a random value is sent while one is left for it.
Drawing == {"login", "revalidate", "recover"}
RequestDrawsLeft ==
    Cardinality(drawn)
      + Cardinality({c \in Calls : call[c].pc \in {"validate", "recover", "delete", "create"}})
      + Cardinality({c \in Calls : http[c].pc = "guards" /\ http[c].route \in Drawing})
    < MaxDraws

--------------------------------------------------------------------------------
(* The browser sends a request, with the cookies it has and, to the routes of  *)
(* UserController, an access token it was given at a login or revalidation.    *)
Send(c, b, route, request) ==
    /\ route \in Operations
    /\ http[c].pc = "idle" /\ call[c].pc = "idle"
    /\ route \in Drawing => RequestDrawsLeft
    /\ http' = [http EXCEPT ![c] =
          [request EXCEPT !.pc = "guards", !.browser = b, !.route = route,
                          !.todo = Guards[route], !.csrf = jar[b].csrf]]
    /\ UNCHANGED <<vars, jar>>

SendCredentials(c, b) ==
    \/ Send(c, b, "signup", NoRequest)
    \/ \E u \in Users, password \in Passwords :
          Send(c, b, "login", [NoRequest EXCEPT !.user = u, !.password = password])
    \/ \E u \in Users, route \in {"verify", "recover"} :
          Send(c, b, route, [NoRequest EXCEPT !.user = u])
    \/ \E m \in mailed, password \in Passwords :
          Send(c, b, "reset", [NoRequest EXCEPT !.token = m.token, !.password = password])

SendCookie(c, b) ==
    \E route \in {"logout", "revalidate"} :
        Send(c, b, route, [NoRequest EXCEPT !.cookie = jar[b].auth])

SendBearer(c, b) ==
    \E route \in UserRoutes \cup {"denyAccess"} :
        \E bearer \in {jwt.sub : jwt \in jwts} :
            Send(c, b, route, [NoRequest EXCEPT !.bearer = bearer])

--------------------------------------------------------------------------------
(* Guards.  Each one is awaited; the next runs if it passes. *)

Runs(guard, c) == http[c].pc = "guards" /\ http[c].todo # << >> /\ Head(http[c].todo) = guard

Pass(c) == http' = [http EXCEPT ![c].todo = Tail(http[c].todo)]

\* The throttler comes before every other guard.
ThrottlerGuard(c) ==
    /\ http[c].pc = "guards" /\ http[c].todo = Guards[http[c].route]
    /\ Respond(c, gatewayStatus["ThrottlerException"])
    /\ UNCHANGED <<vars, jar>>

\* JwtAuthGuard and JwtStrategy: the token may have expired by now.  (One that does
\* not verify is answered 401 as well; the cookies it would clear have another path
\* and are neither sent here nor cleared.)
JwtAuthGuard(c) ==
    /\ Runs("jwt", c)
    /\ \/ http' = [http EXCEPT ![c].todo = Tail(http[c].todo), ![c].user = http[c].bearer]
       \/ Respond(c, gatewayStatus["TokenExpiredError"])
    /\ UNCHANGED <<vars, jar>>

\* CsrfTokenService: only what it generated verifies.
verifyCsrfToken(c) == http[c].csrf

CsrfGuard(c) ==
    /\ Runs("csrf", c)
    /\ IF verifyCsrfToken(c) THEN Pass(c) ELSE Respond(c, gatewayStatus["UnauthorizedException"])
    /\ UNCHANGED <<vars, jar>>

\* CacheService.getValue of the gateway: the key of no user is malformed; Redis may
\* not answer, or with what does not parse; the entry of a user is there or not.
MalformedKey(agent) == agent = None
ReadsFail(agent) == ~MalformedKey(agent) /\ "error" \in Faults
HasEntry(agent) == ~MalformedKey(agent) /\ cache[agent] # None

\* Mutant: the roles are taken from the token, without the cache.
UserRoleGuardByToken(c) ==
    LET agent == http[c].user IN
    /\ Runs("role", c)
    /\ IF MalformedKey(agent) THEN Respond(c, gatewayStatus["BadRequestException"])
       ELSE IF agent \in AuthorizedRoles(http[c].route) THEN Pass(c)
       ELSE Respond(c, gatewayStatus["ForbiddenException"])
    /\ UNCHANGED <<vars, jar>>

\* UserRoleGuard: the agent's entry in the cache.  Without req.user the key is
\* malformed; without an entry there is no session; the roles of the entry decide.
UserRoleGuard(c) ==
    LET agent == http[c].user IN
    /\ Runs("role", c)
    /\ \/ MalformedKey(agent) /\ Respond(c, gatewayStatus["BadRequestException"])
       \/ ReadsFail(agent) /\ \E exception \in {"Error", "InternalServerErrorException"} :
             Respond(c, gatewayStatus[exception])
       \/ /\ ~MalformedKey(agent) /\ ~HasEntry(agent)
          /\ Respond(c, gatewayStatus["UnauthorizedException"])
       \/ HasEntry(agent) /\ agent \in AuthorizedRoles(http[c].route) /\ Pass(c)
       \/ /\ HasEntry(agent) /\ agent \notin AuthorizedRoles(http[c].route)
          /\ Respond(c, gatewayStatus["ForbiddenException"])
    /\ UNCHANGED <<vars, jar>>

--------------------------------------------------------------------------------
(* The controllers forward the request; the handler of auth-ms makes its first *)
(* reads and goes on, or throws.  denyAccess never comes here: its role guard  *)
(* runs before anyone has set req.user.                                        *)

cannotPerformAction(row) ==
    IF ~row.active THEN "UnauthorizedRpcException"
    ELSE IF ~row.verified THEN "BadRequestRpcException"
    ELSE None

\* What a handler throws on its first reads, or None.
Refusal(request) ==
    LET row == authUser[request.user] IN
    IF request.route = "login" /\ row.hash # request.password
    THEN "UnauthorizedRpcException"
    ELSE IF request.route \in {"login", "recover"} THEN cannotPerformAction(row)
    ELSE IF request.route \in {"logout", "revalidate"} /\ request.cookie.check \in expired
    THEN "TokenExpiredError"
    ELSE IF request.route = "revalidate" THEN cannotPerformAction(authUser[request.cookie.sub])
    ELSE IF request.route = "reset" /\ (\/ request.token \in expired
                                        \/ \A r \in recoveryTokens : r.token # request.token)
    THEN "BadRequestRpcException"
    ELSE IF request.route = "verify" /\ ~row.active THEN "UnauthorizedRpcException"
    ELSE IF request.route = "verify" /\ row.verified THEN "BadRequestRpcException"
    ELSE None

\* The pipes run after the guards: a body may not have the form the validation pipe
\* wants, and the id in the path of UserController's routes may be no UUID.
ValidationPipe(c) ==
    /\ http[c].pc = "guards" /\ http[c].todo = << >>
    /\ http[c].route \in {"signup", "login", "verify", "recover", "reset"} \cup UserRoutes
    /\ Respond(c, gatewayStatus["BadRequestException"])
    /\ UNCHANGED <<vars, jar>>

\* A signup is an event to auth-ms (UserSync has its handler): nobody waits for it.
EmitSignup(c) == Passed(c, "signup") /\ Respond(c, 200) /\ UNCHANGED <<vars, jar>>

\* Routes whose controller wants the cookie.
MissesCookie(c) == http[c].route \in {"logout", "revalidate"} /\ http[c].cookie = None

RefuseWithoutCookie(c) ==
    /\ http[c].pc = "guards" /\ http[c].todo = << >> /\ MissesCookie(c)
    /\ Respond(c, gatewayStatus["UnauthorizedException"])
    /\ UNCHANGED <<vars, jar>>

\* The first statement of the handler fails, in the database or in Redis.
FirstCommandFails(c) ==
    /\ "error" \in Faults
    /\ http[c].pc = "guards" /\ http[c].todo = << >> /\ http[c].route \in AuthRoutes
    /\ ~MissesCookie(c)
    /\ \E exception \in {"QueryFailedError", "AggregateError"} : Respond(c, answer(exception))
    /\ UNCHANGED <<vars, jar>>

RefusedByHandler(c) ==
    /\ http[c].pc = "guards" /\ http[c].todo = << >> /\ http[c].route \in AuthRoutes
    /\ ~MissesCookie(c)
    /\ Refusal(http[c]) # None
    /\ Respond(c, answer(Refusal(http[c])))
    /\ UNCHANGED <<vars, jar>>

\* A code is valid within its hour only.
RefusedCode(c) ==
    /\ Passed(c, "verify")
    /\ Respond(c, answer("BadRequestRpcException"))
    /\ UNCHANGED <<vars, jar>>

Forward(c) == http' = [http EXCEPT ![c].pc = "sent"] /\ UNCHANGED jar

ForwardLogin(c) ==
    Passed(c, "login") /\ LoginUser(c, http[c].user, http[c].password) /\ Forward(c)

ForwardVerify(c) == Passed(c, "verify") /\ VerifyAccount(c, http[c].user) /\ Forward(c)

ForwardRecover(c) == Passed(c, "recover") /\ RecoverCredentials(c, http[c].user) /\ Forward(c)

ForwardReset(c) ==
    Passed(c, "reset") /\ ResetUserPassword(c, http[c].token, http[c].password) /\ Forward(c)

ForwardRevalidate(c) ==
    /\ Passed(c, "revalidate") /\ http[c].cookie # None
    /\ RevalidateUserTokens(c, http[c].cookie)
    /\ Forward(c)

ForwardLogout(c) ==
    /\ Passed(c, "logout") /\ http[c].cookie # None
    /\ LogoutUser(http[c].cookie)
    /\ Respond(c, 200)
    /\ UNCHANGED jar

\* A request of UserController, served by main-api.
ForwardToMainApi(c) ==
    /\ http[c].pc = "guards" /\ http[c].todo = << >> /\ http[c].route \in UserRoutes
    /\ \E status \in MainApiReplies : Respond(c, status)
    /\ UNCHANGED <<vars, jar>>

--------------------------------------------------------------------------------
(* auth-ms at work.  The reply is sent when the handler ends or a promise it *)
(* awaits is rejected: a branch of Promise.all that fails answers for all,   *)
(* while the others run on.                                                  *)

\* What the step of call c throws, or None.
Thrown(c) ==
    IF call[c].pc = "validate" /\ call'[c].pc = "idle" THEN "UnauthorizedRpcException"
    ELSE IF call[c].pc = "findUser" /\ call'[c].pc = "idle"
    THEN cannotPerformAction(authUser[call[c].user])
    ELSE IF "password" \in call[c].todo /\ "password" \notin call'[c].todo
              /\ call[c].password = call[c].row.hash
    THEN "BadRequestRpcException"
    ELSE IF call[c].pc = "create" /\ mailed' = mailed THEN "Error"
    ELSE None

\* Mutants: the new cookie goes out with the SET, before it is confirmed; a handler
\* that throws is logged and never answered.
AnswerBeforeStored(c) ==
    IF http[c].pc # "sent" THEN http' = http
    ELSE IF Thrown(c) # None THEN Respond(c, answer(Thrown(c)))
    ELSE IF call[c].pc = "insert"
    THEN http' = [http EXCEPT ![c].pc = "answered", ![c].status = 200,
                    ![c].cookie = [sub |-> call[c].user, check |-> call[c].token]]
    ELSE IF call'[c].pc = "idle" THEN Respond(c, 200)
    ELSE http' = http

AnswerReplies(c) ==
    IF http[c].pc # "sent" \/ Thrown(c) # None THEN http' = http
    ELSE IF call[c].pc = "reply"
    THEN http' = [http EXCEPT ![c].pc = "answered", ![c].status = 200,
                    ![c].cookie = [sub |-> call[c].user, check |-> call[c].token]]
    ELSE IF call'[c].pc = "idle" THEN Respond(c, 200)
    ELSE http' = http

\* The request after a step of its handler.
Answer(c) ==
    IF http[c].pc # "sent" THEN http' = http
    ELSE IF Thrown(c) # None THEN Respond(c, answer(Thrown(c)))
    ELSE IF call[c].pc = "reply"
    THEN http' = [http EXCEPT ![c].pc = "answered", ![c].status = 200,
                    ![c].cookie = [sub |-> call[c].user, check |-> call[c].token]]
    ELSE IF call'[c].pc = "idle" THEN Respond(c, 200)
    ELSE http' = http

HandlerStep(c) == Continue(c) /\ Answer(c) /\ UNCHANGED jar

\* Mutant: the branches are awaited with allSettled, which passes over a failure.
HandlerFailsSettled(c) ==
    /\ CommandFails(c)
    /\ IF http[c].pc = "sent" /\ call'[c].pc = "idle" THEN Respond(c, 500) ELSE http' = http
    /\ UNCHANGED jar

\* The database refuses a statement or cannot be reached, or Redis.
HandlerFails(c) ==
    /\ CommandFails(c)
    /\ IF http[c].pc = "sent"
       THEN \E exception \in {"QueryFailedError", "AggregateError"} :
               Respond(c, answer(exception))
       ELSE http' = http
    /\ UNCHANGED jar

--------------------------------------------------------------------------------
(* The response reaches the browser, with the cookies the controller set or    *)
(* cleared if the request succeeded.                                           *)

SessionCookies(c) == [auth |-> http[c].cookie, csrf |-> TRUE]

\* Mutant: the cookies are set also when the request failed.
CookiesOfAnyAnswer(c) ==
    IF http[c].route \in {"login", "revalidate"} THEN SessionCookies(c)
    ELSE IF http[c].route \in {"logout", "recover", "reset"} THEN NoCookies
    ELSE jar[http[c].browser]

CookiesAfter(c) ==
    IF http[c].status # 200 THEN jar[http[c].browser]
    ELSE IF http[c].route \in {"login", "revalidate"} THEN SessionCookies(c)
    ELSE IF http[c].route \in {"logout", "recover", "reset"} THEN NoCookies
    ELSE jar[http[c].browser]

Receive(c) ==
    /\ http[c].pc = "answered"
    /\ jar' = [jar EXCEPT ![http[c].browser] = CookiesAfter(c)]
    /\ http' = [http EXCEPT ![c] = NoRequest]
    /\ UNCHANGED vars

\* Both cookies have the same maxAge; a user may also clear the Authentication
\* cookie by hand.
CookiesExpire(b) ==
    /\ "expiry" \in Faults
    /\ jar[b].auth # None
    /\ \E csrf \in BOOLEAN : jar' = [jar EXCEPT ![b] = [auth |-> None, csrf |-> csrf]]
    /\ UNCHANGED <<vars, http>>

\* auth-ms has died with the call; the gateway waits for ever, the browser does not.
Abandon(c) ==
    /\ http[c].pc = "sent" /\ call[c].pc = "idle"
    /\ http' = [http EXCEPT ![c] = NoRequest]
    /\ UNCHANGED <<vars, jar>>

--------------------------------------------------------------------------------
Serve(c) ==
    \/ ThrottlerGuard(c) \/ JwtAuthGuard(c) \/ CsrfGuard(c) \/ UserRoleGuard(c)
    \/ ValidationPipe(c) \/ EmitSignup(c)
    \/ RefuseWithoutCookie(c) \/ RefusedByHandler(c) \/ RefusedCode(c)
    \/ ForwardLogin(c) \/ ForwardVerify(c) \/ ForwardRecover(c) \/ ForwardReset(c)
    \/ ForwardRevalidate(c) \/ ForwardLogout(c) \/ ForwardToMainApi(c)
    \/ HandlerStep(c)
    \/ Receive(c)

Environment ==
    \/ \E c \in Calls : FirstCommandFails(c) \/ HandlerFails(c)
    \/ \E x \in Uuids : Expire(x) /\ UNCHANGED <<http, jar>>
    \/ Crash /\ UNCHANGED <<http, jar>>
    \/ \E b \in Browsers : CookiesExpire(b)

GNext ==
    \/ \E c \in Calls, b \in Browsers :
          SendCredentials(c, b) \/ SendCookie(c, b) \/ SendBearer(c, b)
    \/ \E c \in Calls : Serve(c) \/ Abandon(c)
    \/ Environment

GSpec == GInit /\ [][GNext]_gvars
GFairSpec == GSpec /\ \A c \in Calls : WF_gvars(Serve(c))

--------------------------------------------------------------------------------
(* Properties. *)

\* Types of the state.
GTypeOK ==
    /\ TypeOK
    /\ http \in [Calls -> HttpState]
    /\ jar \in [Browsers -> [auth : RefreshToken \cup {None}, csrf : BOOLEAN]]

\* Whatever browsers send and in whatever order guards, handlers and responses
\* run, the gateway makes auth-ms do only what AuthService does with tokens it has
\* delivered or mailed: AuthService's clients are the gateway's.
ImplementsAuthService == Spec

\* loginUser ("forces single device login"): two browsers never both hold the
\* refresh token that is accepted for a user, whichever responses are still on
\* their way.
Current(b, u) == jar[b].auth # None /\ jar[b].auth.sub = u /\ jar[b].auth.check = cache[u]
SingleDevice ==
    \A u \in Users, b, d \in Browsers : Current(b, u) /\ Current(d, u) => b = d

\* The same promise in full: the cache and the cookies of all browsers implement
\* DeviceSessions.  The refresh token of a session reaches one browser, once, also
\* when responses arrive late and out of order; a browser that has lost it, to a
\* later login, a logout or its expiry, never has it again.
OnItsWay(u) == \E c \in Calls :
    /\ http[c].pc = "answered" /\ http[c].status = 200
    /\ http[c].route \in {"login", "revalidate"}
    /\ http[c].cookie = [sub |-> u, check |-> cache[u]]

Holder(u) == IF \E b \in Browsers : Current(b, u) THEN CHOOSE b \in Browsers : Current(b, u)
             ELSE None

Handed(u) ==
    cache[u] # None /\ [sub |-> u, check |-> cache[u]] \in jwts /\ ~OnItsWay(u)

Devices == INSTANCE DeviceSessions WITH
    Devices <- Browsers, session <- cache,
    holder <- [u \in Users |-> Holder(u)], handed <- [u \in Users |-> Handed(u)]
ImplementsDevices == Devices!Spec

\* u has no session, no login or revalidation of u is about to store one, and no
\* request of u is past the role guard.
LoggedOut(u) ==
    /\ cache[u] = None
    /\ \A c \in Calls : call[c].user = u => call[c].pc \notin {"rotate", "insert"}
    /\ \A c \in Calls :
          http[c].user = u /\ http[c].route \in {"write", "delete"} /\ http[c].todo = << >>
              => http[c].pc # "guards"

LogsIn(c, u) ==
    /\ http[c].route = "login" /\ http[c].user = u /\ http[c].password = authUser[u].hash
    /\ call[c].pc = "idle" /\ call'[c].pc = "rotate"

LogoutKept == \A u \in Users : LoggedOut(u) => LoggedOut(u)' \/ \E c \in Calls : LogsIn(c, u)

\* Once a session is over (logged out, revoked or dropped by a reset), only a login
\* with the password opens the role-guarded routes again: neither access tokens
\* that have not expired, nor cookies still in a browser, nor revalidations in
\* flight (UserRoleGuard: "checks refresh token in cache for invalidation").
LogoutShutsOut == [][LogoutKept]_gvars

\* A reset answered with success has used its recovery token up, although its three
\* branches run side by side and any of them may fail (resetUserPassword: "Remove
\* recovery tokens (one time use)").
ResetAnswered == \A c \in Calls :
    http[c].pc = "answered" /\ http[c].route = "reset" /\ http[c].status = 200
        => \A r \in recoveryTokens : r.token # http[c].token

\* Every request is answered and the answer arrives, also when a branch fails while
\* others run on or a guard refuses, as long as auth-ms does not die.
EveryRequestEnds == \A c \in Calls : http[c].pc # "idle" ~> http[c].pc = "idle"

\* The integration test of deny-access ("it should allow only highest privilege user
\* to perform this action"): a sys_admin with a session, a valid access token and the
\* CSRF token is not answered 400.
SysAdminsMayDenyAccess ==
    \A c \in Calls :
        /\ http[c].route = "denyAccess" /\ http[c].csrf /\ http[c].pc = "answered"
        /\ http[c].bearer \in SysAdmins /\ cache[http[c].bearer] # None
        => http[c].status # 400
================================================================================
