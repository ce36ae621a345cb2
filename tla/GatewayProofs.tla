------------------------------ MODULE GatewayProofs ------------------------------
(***************************************************************************)
(* Proofs about Gateway, for any sets of browsers, users, calls, random    *)
(* values and passwords: the gateway implements AuthService, keeps its     *)
(* types, never lets two browsers hold one refresh token, opens no guarded *)
(* route after a logout without a login, and answers a reset with success  *)
(* only when its recovery token is gone.                                   *)
(***************************************************************************)
EXTENDS Gateway, AuthSessionProofs, AuthRecoveryProofs, SequenceTheorems

\* The queries of the handlers are used by what they return.
USE DEF checkHash, findOneById, findOneBySlug, getRecoveryToken, getValue

--------------------------------------------------------------------------------
(* Errors are answered with a status of HTTP, and never as a success.        *)

LEMMA StatusOfExceptions ==
  ASSUME NEW exception \in Exceptions
  PROVE  statusCode(exception) \in {NoStatus, 400, 401, 500}
  <1>1. CASE exception \in DOMAIN RpcStatus
    BY <1>1 DEF statusCode, RpcStatus
  <1>2. CASE exception \notin DOMAIN RpcStatus
    BY <1>2 DEF statusCode
  <1> QED
    BY <1>1, <1>2

\* Whatever a handler throws, also when the filter of its service loses the status
\* or overwrites it, the gateway answers 400, 401 or 500.
THEOREM ErrorsAreAnswered ==
  \A exception \in Exceptions : answer(exception) \in {400, 401, 500}
  BY StatusOfExceptions DEF answer, NoStatus

LEMMA AnswerStatus ==
  ASSUME NEW exception \in Exceptions
  PROVE  answer(exception) \in Statuses /\ answer(exception) # 200
  BY ErrorsAreAnswered DEF Statuses

LEMMA GatewayStatus ==
  /\ gatewayStatus["UnauthorizedException"] = 401
  /\ gatewayStatus["ForbiddenException"] = 403
  /\ gatewayStatus["BadRequestException"] = 400
  /\ gatewayStatus["TokenExpiredError"] = 401
  /\ gatewayStatus["ThrottlerException"] = 429
  /\ gatewayStatus["Error"] = 500
  /\ gatewayStatus["InternalServerErrorException"] = 500
  BY DEF gatewayStatus

LEMMA KnownExceptions ==
  /\ "UnauthorizedRpcException" \in Exceptions /\ "BadRequestRpcException" \in Exceptions
  /\ "TokenExpiredError" \in Exceptions /\ "QueryFailedError" \in Exceptions
  /\ "AggregateError" \in Exceptions /\ "Error" \in Exceptions
  /\ MainApiErrors \subseteq Exceptions
  BY DEF Exceptions, RpcStatus, TokenErrors, TypeOrmErrors, OtherErrors, MainApiErrors

--------------------------------------------------------------------------------
(* The inductive invariant: what a request in progress carries.              *)

(* Guards still to run, and what the route needs of its request, when J are  *)
(* the refresh tokens delivered and N the recovery tokens mailed.            *)
GuardsLeft(r) ==
    /\ r.route \in AuthRoutes \ {"logout", "revalidate"} => r.todo = << >>
    /\ r.route \in {"write", "delete"} =>
          r.todo \in {<<"jwt", "csrf", "role">>, <<"csrf", "role">>, <<"role">>, << >>}

Carries(r, N) ==
    /\ r.route = "login" => r.user \in Users /\ r.password \in Passwords
    /\ r.route \in {"verify", "recover"} => r.user \in Users
    /\ r.route = "reset" => r.password \in Passwords /\ \E m \in N : m.token = r.token

RequestOK(r, J, N) ==
    /\ r \in HttpState
    /\ r.pc # "idle" => r.browser \in Browsers /\ r.route \in Routes
    /\ r.cookie \in J \cup {None}
    /\ r.pc = "guards" => GuardsLeft(r) /\ Carries(r, N)

Requests ==
    /\ http \in [Calls -> HttpState]
    /\ \A c \in Calls : RequestOK(http[c], jwts, mailed)

Jars == jar \in [Browsers -> [auth : jwts \cup {None}, csrf : BOOLEAN]]

GInv == TypeInv /\ Requests /\ Jars

LEMMA NoRequestOK ==
  ASSUME NEW J, NEW N
  PROVE  RequestOK(NoRequest, J, N)
  <1>1. << >> \in Seq({"jwt", "csrf", "role"})
    OBVIOUS
  <1>2. NoRequest \in HttpState
    BY <1>1 DEF NoRequest, HttpState
  <1> QED
    BY <1>2 DEF RequestOK, NoRequest

LEMMA GTypeInit == GInit => GInv
  <1> SUFFICES ASSUME GInit PROVE GInv
    OBVIOUS
  <1>1. TypeInv
    BY TypeInit DEF GInit
  <1>2. Requests
    BY NoRequestOK DEF GInit, Requests, RequestOK
  <1>3. Jars
    BY DEF GInit, Jars, NoCookies
  <1> QED
    BY <1>1, <1>2, <1>3 DEF GInv

(* More tokens delivered or mailed leave a request well formed. *)
LEMMA RequestGrows ==
  ASSUME NEW r, NEW J, NEW N, NEW K, NEW O, RequestOK(r, J, N), J \subseteq K, N \subseteq O
  PROVE  RequestOK(r, K, O)
  BY DEF RequestOK, Carries

Grow == jwts \subseteq jwts' /\ mailed \subseteq mailed'

(* A step that replaces one request. *)
Becomes(c, s) == http' = [http EXCEPT ![c] = s]

LEMMA BecomesOK ==
  ASSUME Requests, NEW c \in Calls, NEW s, Becomes(c, s), RequestOK(s, jwts', mailed'), Grow
  PROVE  Requests'
  <1>1. http' \in [Calls -> HttpState]
    BY DEF Requests, Becomes, RequestOK
  <1>2. ASSUME NEW d \in Calls PROVE RequestOK(http'[d], jwts', mailed')
    <2>1. CASE d = c
      BY <2>1 DEF Requests, Becomes
    <2>2. CASE d # c
      <3>1. http'[d] = http[d]
        BY <2>2 DEF Requests, Becomes
      <3>2. RequestOK(http[d], jwts', mailed')
        BY RequestGrows DEF Requests, Grow
      <3> QED
        BY <3>1, <3>2
    <2> QED
      BY <2>1, <2>2
  <1> QED
    BY <1>1, <1>2 DEF Requests

LEMMA RequestsKept ==
  ASSUME Requests, http' = http, Grow
  PROVE  Requests'
  BY RequestGrows DEF Requests, Grow

LEMMA JarsKept ==
  ASSUME Jars, jar' = jar, Grow
  PROVE  Jars'
  BY DEF Jars, Grow

(* An answer. *)
LEMMA RespondOK ==
  ASSUME Requests, NEW c \in Calls, NEW status \in Statuses, Respond(c, status),
         http[c].pc # "idle", Grow
  PROVE  Requests'
  <1> DEFINE s == [http[c] EXCEPT !.pc = "answered", !.status = status, !.todo = << >>]
  <1>1. RequestOK(http[c], jwts, mailed) /\ http[c] \in HttpState
    BY DEF Requests
  <1>2. << >> \in Seq({"jwt", "csrf", "role"})
    OBVIOUS
  <1>3. s \in HttpState
    BY <1>1, <1>2 DEF HttpState
  <1>4. s.pc = "answered" /\ s.browser = http[c].browser /\ s.route = http[c].route
        /\ s.cookie = http[c].cookie
    BY <1>1 DEF HttpState
  <1>6. Becomes(c, s)
    BY <1>1 DEF Respond, Becomes, Requests, HttpState
  <1> HIDE DEF s
  <1>5. RequestOK(s, jwts', mailed')
    BY <1>1, <1>3, <1>4 DEF RequestOK, Grow
  <1> QED
    BY <1>5, <1>6, BecomesOK

(* Decorators put their guards one after the other. *)
LEMMA TwoGuards ==
  ASSUME NEW S, NEW a \in S, NEW b \in S
  PROVE  <<a>> \o <<b>> = <<a, b>>
  <1>1. <<a>> \in Seq(S) /\ <<b>> \in Seq(S) /\ <<a, b>> \in Seq(S)
    OBVIOUS
  <1>2. Len(<<a>> \o <<b>>) = Len(<<a, b>>) /\ <<a>> \o <<b>> \in Seq(S)
    BY <1>1, ConcatProperties
  <1>3. \A i \in 1..2 : (<<a>> \o <<b>>)[i] = <<a, b>>[i]
    BY <1>1, ConcatProperties
  <1> QED
    BY <1>1, <1>2, <1>3, SeqEqual, Len(<<a, b>>) = 2

LEMMA ThreeGuards ==
  ASSUME NEW S, NEW a \in S, NEW b \in S, NEW c \in S
  PROVE  <<a>> \o <<b, c>> = <<a, b, c>>
  <1>1. <<a>> \in Seq(S) /\ <<b, c>> \in Seq(S) /\ <<a, b, c>> \in Seq(S)
    OBVIOUS
  <1>2. Len(<<a>> \o <<b, c>>) = Len(<<a, b, c>>) /\ <<a>> \o <<b, c>> \in Seq(S)
    BY <1>1, ConcatProperties
  <1>3. \A i \in 1..3 : (<<a>> \o <<b, c>>)[i] = <<a, b, c>>[i]
    BY <1>1, ConcatProperties
  <1> QED
    BY <1>1, <1>2, <1>3, SeqEqual, Len(<<a, b, c>>) = 3

LEMMA ThreeGuardsLeft ==
  ASSUME NEW S, NEW a \in S, NEW b \in S, NEW c \in S
  PROVE  <<a, b>> \o <<c>> = <<a, b, c>>
  <1>1. <<a, b>> \in Seq(S) /\ <<c>> \in Seq(S) /\ <<a, b, c>> \in Seq(S)
    OBVIOUS
  <1>2. Len(<<a, b>> \o <<c>>) = Len(<<a, b, c>>) /\ <<a, b>> \o <<c>> \in Seq(S)
    BY <1>1, ConcatProperties
  <1>3. \A i \in 1..3 : (<<a, b>> \o <<c>>)[i] = <<a, b, c>>[i]
    BY <1>1, ConcatProperties
  <1> QED
    BY <1>1, <1>2, <1>3, SeqEqual, Len(<<a, b, c>>) = 3

LEMMA RoutesOfGuards ==
  /\ Routes = {"signup", "login", "verify", "recover", "reset", "logout", "revalidate",
               "denyAccess", "read", "write", "delete"}
  /\ \A route \in Routes : Guards[route] \in Seq({"jwt", "csrf", "role"})
  /\ \A route \in AuthRoutes \ {"logout", "revalidate"} : Guards[route] = << >>
  /\ \A route \in {"write", "delete"} : Guards[route] = <<"jwt", "csrf", "role">>
  <1>1. /\ << >> \in Seq({"jwt", "csrf", "role"})
        /\ <<"csrf">> \in Seq({"jwt", "csrf", "role"})
        /\ <<"jwt">> \in Seq({"jwt", "csrf", "role"})
        /\ <<"role", "jwt", "csrf">> \in Seq({"jwt", "csrf", "role"})
        /\ <<"jwt", "csrf", "role">> \in Seq({"jwt", "csrf", "role"})
    OBVIOUS
  <1>2. Routes = {"signup", "login", "verify", "recover", "reset", "logout", "revalidate",
                  "denyAccess", "read", "write", "delete"}
    BY DEF Routes, Guards
  <1>4. /\ Guards["signup"] = << >> /\ Guards["login"] = << >> /\ Guards["verify"] = << >>
        /\ Guards["recover"] = << >> /\ Guards["reset"] = << >>
        /\ Guards["logout"] = <<"csrf">> /\ Guards["revalidate"] = <<"csrf">>
        /\ Guards["denyAccess"] = <<"role", "jwt", "csrf">> /\ Guards["read"] = <<"jwt">>
        /\ Guards["write"] = <<"jwt", "csrf", "role">>
        /\ Guards["delete"] = <<"jwt", "csrf", "role">>
    <2> DEFINE G == {"jwt", "csrf", "role"}
    <2>1. /\ <<"csrf">> \o <<"role">> = <<"csrf", "role">>
          /\ <<"jwt">> \o <<"csrf">> = <<"jwt", "csrf">>
          /\ <<"role">> \o <<"jwt">> = <<"role", "jwt">>
      BY TwoGuards, "jwt" \in G, "csrf" \in G, "role" \in G
    <2>2. /\ RoleCheck \o Private \o CsrfCheck = <<"role", "jwt", "csrf">>
          /\ Private \o CsrfCheck \o RoleCheck = <<"jwt", "csrf", "role">>
      BY <2>1, ThreeGuardsLeft, "jwt" \in G, "csrf" \in G, "role" \in G
      DEF Private, CsrfCheck, RoleCheck
    <2>3. Private \o Protected = <<"jwt", "csrf", "role">>
      BY <2>1, ThreeGuards, "jwt" \in G, "csrf" \in G, "role" \in G
      DEF Private, Protected, CsrfCheck, RoleCheck
    <2> QED
      BY <2>2, <2>3 DEF Guards, Private, CsrfCheck
  <1>3. \A route \in Routes : Guards[route] \in Seq({"jwt", "csrf", "role"})
    BY <1>1, <1>2, <1>4
  <1> QED
    BY <1>2, <1>3, <1>4 DEF AuthRoutes

(* A new request, with what its route needs. *)
LEMMA SendOK ==
  ASSUME Requests, Jars, NEW c \in Calls, NEW b \in Browsers, NEW route \in Routes,
         NEW request \in HttpState, Send(c, b, route, request),
         request.cookie \in jwts \cup {None},
         route = "login" => request.user \in Users /\ request.password \in Passwords,
         route \in {"verify", "recover"} => request.user \in Users,
         route = "reset" => /\ request.password \in Passwords
                            /\ \E m \in mailed : m.token = request.token
  PROVE  Requests'
  <1> DEFINE s == [request EXCEPT !.pc = "guards", !.browser = b, !.route = route,
                                  !.todo = Guards[route], !.csrf = jar[b].csrf]
  <1>1. jar[b].csrf \in BOOLEAN
    BY DEF Jars
  <1>2. Guards[route] \in Seq({"jwt", "csrf", "role"})
    BY RoutesOfGuards
  <1>3. s \in HttpState
    BY <1>1, <1>2 DEF HttpState
  <1>4. /\ s.pc = "guards" /\ s.browser = b /\ s.route = route /\ s.todo = Guards[route]
        /\ s.cookie = request.cookie /\ s.user = request.user
        /\ s.password = request.password /\ s.token = request.token
    BY DEF HttpState
  <1>5. Becomes(c, s) /\ Grow /\ jwts' = jwts /\ mailed' = mailed
    BY DEF Send, Becomes, Grow, vars
  <1> HIDE DEF s
  <1>6. GuardsLeft(s)
    BY <1>4, RoutesOfGuards DEF GuardsLeft
  <1>7. Carries(s, mailed)
    BY <1>4 DEF Carries
  <1>8. RequestOK(s, jwts', mailed')
    BY <1>3, <1>4, <1>5, <1>6, <1>7 DEF RequestOK
  <1> QED
    BY <1>5, <1>8, BecomesOK

LEMMA Delivered ==
  ASSUME TypeInv
  PROVE  /\ jwts \subseteq RefreshToken
         /\ \A jwt \in jwts : jwt.sub \in Users /\ jwt.check \in Uuids
         /\ \A m \in mailed : m.token \in Uuids
  BY DEF TypeInv, TypeOK, RefreshToken, RecoveryToken

LEMMA BlankRequest == NoRequest \in HttpState /\ NoRequest.cookie = None
  BY NoRequestOK DEF RequestOK, NoRequest

LEMMA SendsOK ==
  ASSUME GInv, NEW c \in Calls, NEW b \in Browsers,
         SendCredentials(c, b) \/ SendCookie(c, b) \/ SendBearer(c, b)
  PROVE  Requests'
  <1>0. Requests /\ Jars /\ TypeInv
    BY DEF GInv
  <1>1. CASE Send(c, b, "signup", NoRequest)
    BY <1>0, <1>1, BlankRequest, RoutesOfGuards, SendOK
  <1>2. ASSUME NEW u \in Users, NEW password \in Passwords,
               Send(c, b, "login", [NoRequest EXCEPT !.user = u, !.password = password])
        PROVE  Requests'
    <2> DEFINE q == [NoRequest EXCEPT !.user = u, !.password = password]
    <2>3. [NoRequest EXCEPT !.user = u] \in HttpState
      BY BlankRequest DEF HttpState
    <2>4. q \in HttpState
      BY <2>3 DEF HttpState
    <2>5. q.cookie = None /\ q.user = u /\ q.password = password
      BY BlankRequest DEF HttpState
    <2>1. q \in HttpState /\ q.cookie = None /\ q.user = u /\ q.password = password
      BY <2>4, <2>5
    <2> HIDE DEF q
    <2>2. Send(c, b, "login", q)
      BY <1>2 DEF q
    <2> QED
      BY <1>0, <2>1, <2>2, RoutesOfGuards, SendOK
  <1>3. ASSUME NEW u \in Users, NEW route \in {"verify", "recover"},
               Send(c, b, route, [NoRequest EXCEPT !.user = u])
        PROVE  Requests'
    <2> DEFINE q == [NoRequest EXCEPT !.user = u]
    <2>1. q \in HttpState /\ q.cookie = None /\ q.user = u
      BY BlankRequest DEF HttpState
    <2> HIDE DEF q
    <2>2. Send(c, b, route, q)
      BY <1>3 DEF q
    <2> QED
      BY <1>0, <2>1, <2>2, RoutesOfGuards, SendOK
  <1>4. ASSUME NEW m \in mailed, NEW password \in Passwords,
               Send(c, b, "reset", [NoRequest EXCEPT !.token = m.token, !.password = password])
        PROVE  Requests'
    <2> DEFINE q == [NoRequest EXCEPT !.token = m.token, !.password = password]
    <2>0. m.token \in Uuids
      BY <1>0, Delivered
    <2>1. q \in HttpState /\ q.cookie = None /\ q.token = m.token /\ q.password = password
      BY <2>0, BlankRequest DEF HttpState
    <2> HIDE DEF q
    <2>2. Send(c, b, "reset", q)
      BY <1>4 DEF q
    <2> QED
      BY <1>0, <2>1, <2>2, RoutesOfGuards, SendOK
  <1>5. CASE SendCookie(c, b)
    <2> DEFINE q == [NoRequest EXCEPT !.cookie = jar[b].auth]
    <2>0. jar[b].auth \in jwts \cup {None} /\ jwts \subseteq RefreshToken
      BY <1>0, Delivered DEF Jars
    <2>1. q \in HttpState /\ q.cookie = jar[b].auth
      BY <2>0, BlankRequest DEF HttpState
    <2>2. PICK route \in {"logout", "revalidate"} : Send(c, b, route, q)
      BY <1>5 DEF SendCookie
    <2> HIDE DEF q
    <2> QED
      BY <1>0, <2>0, <2>1, <2>2, RoutesOfGuards, SendOK
  <1>6. CASE SendBearer(c, b)
    <2>1. PICK route \in UserRoutes \cup {"denyAccess"} :
            \E bearer \in {jwt.sub : jwt \in jwts} :
                Send(c, b, route, [NoRequest EXCEPT !.bearer = bearer])
      BY <1>6 DEF SendBearer
    <2>2. PICK bearer \in {jwt.sub : jwt \in jwts} :
                Send(c, b, route, [NoRequest EXCEPT !.bearer = bearer])
      BY <2>1
    <2>3. bearer \in Users
      BY <1>0, Delivered
    <2> DEFINE q == [NoRequest EXCEPT !.bearer = bearer]
    <2>4. q \in HttpState /\ q.cookie = None
      BY <2>3, BlankRequest DEF HttpState
    <2>5. Send(c, b, route, q)
      BY <2>2
    <2> HIDE DEF q
    <2> QED
      BY <1>0, <2>4, <2>5, RoutesOfGuards, SendOK DEF UserRoutes
  <1> QED
    BY <1>1, <1>2, <1>3, <1>4, <1>5, <1>6 DEF SendCredentials

LEMMA TailsOfGuards ==
  /\ Tail(<<"jwt", "csrf", "role">>) = <<"csrf", "role">>
  /\ Tail(<<"csrf", "role">>) = <<"role">>
  /\ Tail(<<"role">>) = << >>
  /\ Head(<<"jwt", "csrf", "role">>) = "jwt"
  /\ Head(<<"csrf", "role">>) = "csrf"
  /\ Head(<<"role">>) = "role"
  /\ <<"role">> # << >> /\ <<"csrf", "role">> # << >> /\ <<"jwt", "csrf", "role">> # << >>
  OBVIOUS

(* A guard lets the request through, and may name the user. *)
LEMMA AdvanceOK ==
  ASSUME Requests, NEW c \in Calls, NEW v \in Users \cup {None},
         http[c].pc = "guards", http[c].todo # << >>,
         Becomes(c, [http[c] EXCEPT !.todo = Tail(http[c].todo), !.user = v]), Grow
  PROVE  Requests'
  <1> DEFINE s == [http[c] EXCEPT !.todo = Tail(http[c].todo), !.user = v]
  <1>1. RequestOK(http[c], jwts, mailed) /\ http[c] \in HttpState
    BY DEF Requests
  <1>2. http[c].todo \in Seq({"jwt", "csrf", "role"})
    BY <1>1 DEF HttpState
  <1>3. Tail(http[c].todo) \in Seq({"jwt", "csrf", "role"})
    BY <1>2
  <1>4. s \in HttpState
    BY <1>1, <1>3 DEF HttpState
  <1>5. /\ s.pc = "guards" /\ s.browser = http[c].browser /\ s.route = http[c].route
        /\ s.cookie = http[c].cookie /\ s.todo = Tail(http[c].todo)
        /\ s.password = http[c].password /\ s.token = http[c].token
    BY <1>1 DEF HttpState
  <1> HIDE DEF s
  <1>6. GuardsLeft(http[c]) /\ Carries(http[c], mailed)
    BY <1>1 DEF RequestOK
  <1>7. GuardsLeft(s)
    BY <1>5, <1>6, TailsOfGuards DEF GuardsLeft
  <1>8. http[c].route \notin AuthRoutes \ {"logout", "revalidate"}
    BY <1>6 DEF GuardsLeft
  <1>9. Carries(s, mailed)
    BY <1>5, <1>6, <1>8 DEF Carries, AuthRoutes
  <1>10. RequestOK(s, jwts', mailed')
    BY <1>1, <1>4, <1>5, <1>7, <1>9, RequestGrows DEF RequestOK, Grow
  <1> QED
    BY <1>10, BecomesOK DEF s

LEMMA GuardsOK ==
  ASSUME Requests, NEW c \in Calls, Grow,
         ThrottlerGuard(c) \/ JwtAuthGuard(c) \/ CsrfGuard(c) \/ UserRoleGuard(c)
  PROVE  Requests'
  <1>0. http[c] \in HttpState /\ http \in [Calls -> HttpState]
    BY DEF Requests
  <1>1. {400, 401, 403, 429, 500} \subseteq Statuses
    BY DEF Statuses
  <1>2. http[c].pc = "guards"
    BY DEF ThrottlerGuard, JwtAuthGuard, CsrfGuard, UserRoleGuard, Runs
  <1>3. ASSUME NEW status \in {400, 401, 403, 429, 500}, Respond(c, status)
        PROVE  Requests'
    BY <1>1, <1>2, <1>3, RespondOK
  <1>4. ASSUME Pass(c), http[c].todo # << >>
        PROVE  Requests'
    <2>1. Becomes(c, [http[c] EXCEPT !.todo = Tail(http[c].todo), !.user = http[c].user])
      BY <1>0, <1>4 DEF Pass, Becomes, HttpState
    <2>2. http[c].user \in Users \cup {None}
      BY <1>0 DEF HttpState
    <2> QED
      BY <1>2, <1>4, <2>1, <2>2, AdvanceOK
  <1>5. CASE ThrottlerGuard(c)
    BY <1>3, <1>5, GatewayStatus DEF ThrottlerGuard
  <1>6. CASE JwtAuthGuard(c)
    <2>1. CASE Respond(c, gatewayStatus["TokenExpiredError"])
      BY <1>3, <2>1, GatewayStatus
    <2>2. CASE http' = [http EXCEPT ![c].todo = Tail(http[c].todo), ![c].user = http[c].bearer]
      <3>1. Becomes(c, [http[c] EXCEPT !.todo = Tail(http[c].todo), !.user = http[c].bearer])
        BY <1>0, <2>2 DEF Becomes, HttpState
      <3>2. http[c].bearer \in Users \cup {None} /\ http[c].todo # << >>
        BY <1>0, <1>6 DEF HttpState, JwtAuthGuard, Runs
      <3> QED
        BY <1>2, <3>1, <3>2, AdvanceOK
    <2> QED
      BY <1>6, <2>1, <2>2 DEF JwtAuthGuard
  <1>7. CASE CsrfGuard(c)
    BY <1>3, <1>4, <1>7, GatewayStatus DEF CsrfGuard, Runs
  <1>8. CASE UserRoleGuard(c)
    BY <1>3, <1>4, <1>8, GatewayStatus DEF UserRoleGuard, Runs
  <1> QED
    BY <1>5, <1>6, <1>7, <1>8

LEMMA RefusalIsKnown ==
  ASSUME NEW request, Refusal(request) # None
  PROVE  Refusal(request) \in Exceptions
  BY KnownExceptions DEF Refusal, cannotPerformAction

LEMMA ThrownIsKnown ==
  ASSUME NEW c \in Calls, Thrown(c) # None
  PROVE  Thrown(c) \in Exceptions
  BY KnownExceptions DEF Thrown, cannotPerformAction

LEMMA RefusalsOK ==
  ASSUME Requests, NEW c \in Calls, Grow,
         \/ ValidationPipe(c) \/ EmitSignup(c) \/ RefuseWithoutCookie(c)
         \/ FirstCommandFails(c) \/ RefusedByHandler(c) \/ RefusedCode(c)
         \/ ForwardLogout(c) \/ ForwardToMainApi(c)
  PROVE  Requests'
  <1>1. http[c].pc = "guards"
    BY DEF ValidationPipe, EmitSignup, RefuseWithoutCookie, FirstCommandFails,
       RefusedByHandler, RefusedCode, ForwardLogout, ForwardToMainApi, Passed
  <1>2. ASSUME NEW status \in Statuses, Respond(c, status)
        PROVE  Requests'
    BY <1>1, <1>2, RespondOK
  <1>3. {200, 400, 401} \subseteq Statuses
    BY DEF Statuses
  <1>4. CASE ValidationPipe(c) \/ EmitSignup(c) \/ RefuseWithoutCookie(c) \/ ForwardLogout(c)
    BY <1>2, <1>3, <1>4, GatewayStatus
       DEF ValidationPipe, EmitSignup, RefuseWithoutCookie, ForwardLogout
  <1>5. CASE FirstCommandFails(c)
    <2>1. PICK exception \in {"QueryFailedError", "AggregateError"} :
            Respond(c, answer(exception))
      BY <1>5 DEF FirstCommandFails
    <2> QED
      BY <1>2, <2>1, AnswerStatus, KnownExceptions
  <1>6. CASE RefusedByHandler(c)
    <2>1. Refusal(http[c]) # None /\ Respond(c, answer(Refusal(http[c])))
      BY <1>6 DEF RefusedByHandler
    <2>2. answer(Refusal(http[c])) \in Statuses
      BY <2>1, RefusalIsKnown, AnswerStatus
    <2> QED
      BY <1>2, <2>1, <2>2
  <1>7. CASE RefusedCode(c)
    BY <1>2, <1>7, AnswerStatus, KnownExceptions DEF RefusedCode
  <1>8. CASE ForwardToMainApi(c)
    <2>1. PICK status \in MainApiReplies : Respond(c, status)
      BY <1>8 DEF ForwardToMainApi
    <2>2. status \in Statuses
      BY <1>3, AnswerStatus, KnownExceptions DEF MainApiReplies
    <2> QED
      BY <1>2, <2>1, <2>2
  <1> QED
    BY <1>4, <1>5, <1>6, <1>7, <1>8

LEMMA ForwardOK ==
  ASSUME Requests, NEW c \in Calls, Grow, Forward(c), http[c].pc = "guards"
  PROVE  Requests'
  <1> DEFINE s == [http[c] EXCEPT !.pc = "sent"]
  <1>1. RequestOK(http[c], jwts, mailed) /\ http[c] \in HttpState
    BY DEF Requests
  <1>2. s \in HttpState
    BY <1>1 DEF HttpState
  <1>3. /\ s.pc = "sent" /\ s.browser = http[c].browser /\ s.route = http[c].route
        /\ s.cookie = http[c].cookie
    BY <1>1 DEF HttpState
  <1>4. Becomes(c, s)
    BY <1>1 DEF Forward, Becomes, Requests, HttpState
  <1> HIDE DEF s
  <1>5. RequestOK(s, jwts', mailed')
    BY <1>1, <1>2, <1>3 DEF RequestOK, Grow
  <1> QED
    BY <1>4, <1>5, BecomesOK

(* A call at its reply has nothing else to do. *)
LEMMA OnlyReplies ==
  ASSUME TypeInv, NEW c \in Calls, Continue(c), call[c].pc = "reply"
  PROVE  ReplyTokens(c)
  <1>1. call[c].todo = {} /\ call[c].found = {}
    BY DEF TypeInv, CallOK
  <1> QED
    BY <1>1 DEF Continue, Validate, RotateInvalidate, RotateInsert, FindActiveUser,
       DeactivateUser, InvalidateBranch, FindPreviousToken, DeletePreviousToken,
       CreateRecoveryToken, FindUserToReset, UpdateUserPassword, FindRecoveryTokens,
       VerifyUserAccount

LEMMA DeliveryType ==
  ASSUME NEW r \in HttpState, NEW status \in Statuses, NEW jwt \in RefreshToken
  PROVE  [r EXCEPT !.pc = "answered", !.status = status, !.cookie = jwt] \in HttpState
  BY DEF HttpState

LEMMA AnswerOK ==
  ASSUME TypeInv, Requests, NEW c \in Calls, Grow, Continue(c), Answer(c)
  PROVE  Requests'
  <1>1. CASE http' = http
    BY <1>1, RequestsKept
  <1>2. CASE http[c].pc = "sent" /\ Thrown(c) # None
    <2>1. answer(Thrown(c)) \in Statuses
      BY <1>2, ThrownIsKnown, AnswerStatus
    <2>2. Respond(c, answer(Thrown(c)))
      BY <1>2 DEF Answer
    <2> QED
      BY <1>2, <2>1, <2>2, RespondOK
  <1>3. CASE http[c].pc = "sent" /\ Thrown(c) = None /\ call[c].pc = "reply"
    <2> DEFINE jwt == [sub |-> call[c].user, check |-> call[c].token]
               s == [http[c] EXCEPT !.pc = "answered", !.status = 200, !.cookie = jwt]
    <2>1. ReplyTokens(c)
      BY <1>3, OnlyReplies
    <2>2. jwt \in jwts'
      BY <2>1 DEF ReplyTokens
    <2>3. call[c].user \in Users /\ call[c].token \in Uuids
      BY <1>3 DEF TypeInv, CallOK
    <2>4. jwt \in RefreshToken
      BY <2>3 DEF RefreshToken
    <2>5. RequestOK(http[c], jwts, mailed) /\ http[c] \in HttpState
      BY DEF Requests
    <2>6. http' = [http EXCEPT ![c].pc = "answered", ![c].status = 200, ![c].cookie = jwt]
      BY <1>3 DEF Answer
    <2> HIDE DEF jwt
    <2>11. 200 \in Statuses
      BY DEF Statuses
    <2>7. s \in HttpState
      BY <2>4, <2>5, <2>11, DeliveryType
    <2>8. /\ s.pc = "answered" /\ s.browser = http[c].browser /\ s.route = http[c].route
          /\ s.cookie = jwt
      BY <2>5 DEF HttpState
    <2>9. Becomes(c, s)
      BY <2>5, <2>6 DEF Becomes, Requests, HttpState
    <2> HIDE DEF s
    <2>10. RequestOK(s, jwts', mailed')
      BY <1>3, <2>2, <2>5, <2>7, <2>8 DEF RequestOK
    <2> QED
      BY <2>9, <2>10, BecomesOK
  <1>4. CASE http[c].pc = "sent" /\ Respond(c, 200)
    BY <1>4, RespondOK DEF Statuses
  <1> QED
    BY <1>1, <1>2, <1>3, <1>4 DEF Answer

LEMMA HandlerFailsOK ==
  ASSUME Requests, NEW c \in Calls, Grow, HandlerFails(c)
  PROVE  Requests'
  <1>1. CASE http' = http
    BY <1>1, RequestsKept
  <1>2. CASE http[c].pc = "sent"
    <2>1. PICK exception \in {"QueryFailedError", "AggregateError"} :
            Respond(c, answer(exception))
      BY <1>2 DEF HandlerFails
    <2> QED
      BY <1>2, <2>1, AnswerStatus, KnownExceptions, RespondOK
  <1> QED
    BY <1>1, <1>2 DEF HandlerFails

(* The cookies of a response are delivered ones. *)
LEMMA ReceiveOK ==
  ASSUME Requests, Jars, NEW c \in Calls, Receive(c)
  PROVE  Requests' /\ Jars'
  <1>1. Grow /\ jwts' = jwts /\ mailed' = mailed
    BY DEF Receive, Grow, vars
  <1>2. RequestOK(http[c], jwts, mailed)
    BY DEF Requests
  <1>3. http[c].browser \in Browsers /\ http[c].cookie \in jwts \cup {None}
    BY <1>2 DEF RequestOK, Receive
  <1>4. CookiesAfter(c) \in [auth : jwts \cup {None}, csrf : BOOLEAN]
    BY <1>3 DEF CookiesAfter, SessionCookies, NoCookies, Jars
  <1>5. Jars'
    BY <1>1, <1>3, <1>4 DEF Jars, Receive
  <1>6. Requests'
    BY <1>1, NoRequestOK, BecomesOK DEF Receive, Becomes
  <1> QED
    BY <1>5, <1>6

--------------------------------------------------------------------------------
(* The gateway implements AuthService.                                       *)

LEMMA ContinueGrows ==
  ASSUME NEW c \in Calls, Continue(c) \/ CommandFails(c)
  PROVE  Grow
  <1>1. CASE CommandFails(c)
    BY <1>1 DEF CommandFails, Grow, clients
  <1>2. CASE ReplyTokens(c)
    BY <1>2 DEF ReplyTokens, Grow
  <1>3. CASE CreateRecoveryToken(c)
    BY <1>3 DEF CreateRecoveryToken, sendRecoveryToken, Grow
  <1>4. CASE Continue(c) /\ ~ReplyTokens(c) /\ ~CreateRecoveryToken(c)
    BY <1>4 DEF Continue, Validate, RotateInvalidate, RotateInsert, FindActiveUser,
       DeactivateUser, InvalidateBranch, FindPreviousToken, DeletePreviousToken,
       FindUserToReset, UpdateUserPassword, FindRecoveryTokens, DeleteRecoveryToken,
       VerifyUserAccount, Grow, clients
  <1> QED
    BY <1>1, <1>2, <1>3, <1>4

(* Every step that takes a request to auth-ms is one that a client of          *)
(* AuthService may take: its tokens were delivered or mailed.                  *)
Forwards(c) ==
    \/ ForwardLogin(c) \/ ForwardVerify(c) \/ ForwardRecover(c)
    \/ ForwardReset(c) \/ ForwardRevalidate(c)

LEMMA ForwardsAreForwarded ==
  ASSUME NEW c \in Calls, Forwards(c)
  PROVE  Forward(c) /\ http[c].pc = "guards"
  BY DEF Forwards, ForwardLogin, ForwardVerify, ForwardRecover, ForwardReset,
     ForwardRevalidate, Passed

LEMMA ForwardsAreRequests ==
  ASSUME GInv, NEW c \in Calls, Forwards(c)
  PROVE  Request(c)
  <1>0. RequestOK(http[c], jwts, mailed)
    BY DEF GInv, Requests
  <1>1. http[c].pc = "guards"
    BY ForwardsAreForwarded
  <1>2. Carries(http[c], mailed) /\ http[c].cookie \in jwts \cup {None}
    BY <1>0, <1>1 DEF RequestOK
  <1>3. CASE ForwardLogin(c)
    BY <1>2, <1>3 DEF ForwardLogin, Passed, Carries, Request
  <1>4. CASE ForwardVerify(c) \/ ForwardRecover(c)
    BY <1>2, <1>4 DEF ForwardVerify, ForwardRecover, Passed, Carries, Request
  <1>5. CASE ForwardReset(c)
    <2>1. PICK m \in mailed : m.token = http[c].token
      BY <1>2, <1>5 DEF ForwardReset, Passed, Carries
    <2>2. ResetUserPassword(c, m.token, http[c].password) /\ http[c].password \in Passwords
      BY <1>2, <1>5, <2>1 DEF ForwardReset, Passed, Carries
    <2> QED
      BY <2>2 DEF Request
  <1>6. CASE ForwardRevalidate(c)
    BY <1>2, <1>6 DEF ForwardRevalidate, Request
  <1> QED
    BY <1>3, <1>4, <1>5, <1>6 DEF Forwards

LEMMA LogoutsAreRequests ==
  ASSUME GInv, NEW c \in Calls, ForwardLogout(c)
  PROVE  \E jwt \in jwts : LogoutUser(jwt)
  BY DEF GInv, Requests, RequestOK, ForwardLogout

(* Steps of the gateway and the browsers alone. *)
LEMMA GatewayAlone ==
  ASSUME NEW c \in Calls,
         \/ ThrottlerGuard(c) \/ JwtAuthGuard(c) \/ CsrfGuard(c) \/ UserRoleGuard(c)
         \/ ValidationPipe(c) \/ EmitSignup(c) \/ RefuseWithoutCookie(c)
         \/ FirstCommandFails(c) \/ RefusedByHandler(c) \/ RefusedCode(c)
         \/ ForwardToMainApi(c) \/ Abandon(c)
  PROVE  UNCHANGED <<vars, jar>>
  BY DEF ThrottlerGuard, JwtAuthGuard, CsrfGuard, UserRoleGuard, ValidationPipe,
     EmitSignup, RefuseWithoutCookie, FirstCommandFails, RefusedByHandler, RefusedCode,
     ForwardToMainApi, Abandon

LEMMA SendsAlone ==
  ASSUME NEW c \in Calls, NEW b \in Browsers,
         SendCredentials(c, b) \/ SendCookie(c, b) \/ SendBearer(c, b)
  PROVE  UNCHANGED <<vars, jar>>
  BY DEF SendCredentials, SendCookie, SendBearer, Send

(* One step of the gateway, sorted by what it is to auth-ms. *)
LEMMA StepKinds ==
  ASSUME GInv, [GNext]_gvars
  PROVE  \/ UNCHANGED vars
         \/ \E c \in Calls : Forwards(c) /\ Request(c)
         \/ \E c \in Calls : ForwardLogout(c)
         \/ \E c \in Calls : HandlerStep(c)
         \/ \E c \in Calls : HandlerFails(c)
         \/ (Crash \/ \E x \in Uuids : Expire(x)) /\ UNCHANGED <<http, jar>>
  <1>1. ASSUME NEW c \in Calls, Serve(c) \/ Abandon(c)
        PROVE  \/ UNCHANGED vars
               \/ (Forwards(c) /\ Request(c))
               \/ ForwardLogout(c) \/ HandlerStep(c)
    <2>1. CASE Forwards(c)
      BY <2>1, ForwardsAreRequests
    <2>2. CASE Receive(c)
      BY <2>2 DEF Receive
    <2> QED
      BY <1>1, <2>1, <2>2, GatewayAlone DEF Serve, Forwards
  <1>2. CASE Environment
    <2>1. ASSUME NEW c \in Calls, FirstCommandFails(c) PROVE UNCHANGED vars
      BY <2>1, GatewayAlone
    <2>2. ASSUME NEW b \in Browsers, CookiesExpire(b) PROVE UNCHANGED vars
      BY <2>2 DEF CookiesExpire
    <2> QED
      BY <1>2, <2>1, <2>2 DEF Environment
  <1>3. CASE UNCHANGED gvars
    BY <1>3 DEF gvars
  <1> QED
    BY <1>1, <1>2, <1>3, SendsAlone DEF GNext

LEMMA StepRefined == GInv /\ [GNext]_gvars => [Next]_vars
  <1> SUFFICES ASSUME GInv, [GNext]_gvars PROVE [Next]_vars
    OBVIOUS
  <1>1. ASSUME NEW c \in Calls, HandlerStep(c) PROVE Continue(c)
    BY <1>1 DEF HandlerStep
  <1>2. ASSUME NEW c \in Calls, HandlerFails(c) PROVE CommandFails(c)
    BY <1>2 DEF HandlerFails
  <1> QED
    BY <1>1, <1>2, StepKinds, LogoutsAreRequests DEF Next

LEMMA RequestGrowsNot ==
  ASSUME NEW c \in Calls, Request(c)
  PROVE  UNCHANGED clients
  BY DEF Request, LoginUser, RevalidateUserTokens, RevokeUserAccess, RecoverCredentials,
     ResetUserPassword, VerifyAccount

LEMMA StepGrows == [Next]_vars => Grow
  <1> SUFFICES ASSUME [Next]_vars PROVE Grow
    OBVIOUS
  <1>1. ASSUME NEW c \in Calls, Request(c) PROVE Grow
    BY <1>1, RequestGrowsNot DEF Grow, clients
  <1>2. ASSUME NEW jwt \in jwts, LogoutUser(jwt) PROVE Grow
    BY <1>2 DEF LogoutUser, Grow, clients
  <1>3. CASE Crash \/ UNCHANGED vars \/ \E x \in Uuids : Expire(x)
    BY <1>3 DEF Crash, Expire, Grow, clients, vars
  <1> QED
    BY <1>1, <1>2, <1>3, ContinueGrows DEF Next

LEMMA ServeOK ==
  ASSUME GInv, NEW c \in Calls, Grow, Serve(c)
  PROVE  Requests' /\ Jars'
  <1>0. TypeInv /\ Requests /\ Jars
    BY DEF GInv
  <1>1. CASE Receive(c)
    BY <1>0, <1>1, ReceiveOK
  <1>2. CASE HandlerStep(c)
    BY <1>0, <1>2, AnswerOK, JarsKept DEF HandlerStep
  <1>3. CASE ForwardLogout(c)
    BY <1>0, <1>3, RefusalsOK, JarsKept DEF ForwardLogout
  <1>4. CASE Forwards(c)
    <2>1. Forward(c) /\ http[c].pc = "guards"
      BY <1>4, ForwardsAreForwarded
    <2>2. jar' = jar
      BY <2>1 DEF Forward
    <2> QED
      BY <1>0, <2>1, <2>2, ForwardOK, JarsKept
  <1>5. CASE ThrottlerGuard(c) \/ JwtAuthGuard(c) \/ CsrfGuard(c) \/ UserRoleGuard(c)
    <2>1. jar' = jar
      BY <1>5, GatewayAlone
    <2> QED
      BY <1>0, <1>5, <2>1, GuardsOK, JarsKept
  <1>6. CASE \/ ValidationPipe(c) \/ EmitSignup(c) \/ RefuseWithoutCookie(c)
             \/ RefusedByHandler(c) \/ RefusedCode(c) \/ ForwardToMainApi(c)
    <2>1. jar' = jar
      BY <1>6, GatewayAlone
    <2> QED
      BY <1>0, <1>6, <2>1, RefusalsOK, JarsKept
  <1> QED
    BY <1>1, <1>2, <1>3, <1>4, <1>5, <1>6 DEF Serve, Forwards

LEMMA EnvironmentOK ==
  ASSUME GInv, Grow, Environment
  PROVE  Requests' /\ Jars'
  <1>0. Requests /\ Jars
    BY DEF GInv
  <1>1. ASSUME NEW c \in Calls, FirstCommandFails(c)
        PROVE  Requests' /\ Jars'
    <2>1. jar' = jar
      BY <1>1, GatewayAlone
    <2> QED
      BY <1>0, <1>1, <2>1, RefusalsOK, JarsKept
  <1>2. ASSUME NEW c \in Calls, HandlerFails(c)
        PROVE  Requests' /\ Jars'
    <2>1. jar' = jar
      BY <1>2 DEF HandlerFails
    <2> QED
      BY <1>0, <1>2, <2>1, HandlerFailsOK, JarsKept
  <1>3. CASE UNCHANGED <<http, jar>>
    BY <1>0, <1>3, RequestsKept, JarsKept
  <1>4. ASSUME NEW b \in Browsers, CookiesExpire(b)
        PROVE  Requests' /\ Jars'
    <2>1. Requests'
      BY <1>0, <1>4, RequestsKept DEF CookiesExpire
    <2>2. PICK csrf \in BOOLEAN : jar' = [jar EXCEPT ![b] = [auth |-> None, csrf |-> csrf]]
      BY <1>4 DEF CookiesExpire
    <2>3. jwts' = jwts
      BY <1>4 DEF CookiesExpire, vars
    <2> QED
      BY <1>0, <2>1, <2>2, <2>3 DEF Jars
  <1> QED
    BY <1>1, <1>2, <1>3, <1>4 DEF Environment

LEMMA GTypeStep == GInv /\ [GNext]_gvars => GInv'
  <1> SUFFICES ASSUME GInv, [GNext]_gvars PROVE GInv'
    OBVIOUS
  <1>0. TypeInv /\ Requests /\ Jars
    BY DEF GInv
  <1>1. [Next]_vars
    BY StepRefined
  <1>2. TypeInv'
    BY <1>0, <1>1, TypeStep
  <1>3. Grow
    BY <1>1, StepGrows
  <1>4. ASSUME NEW c \in Calls, NEW b \in Browsers,
               SendCredentials(c, b) \/ SendCookie(c, b) \/ SendBearer(c, b)
        PROVE  Requests' /\ Jars'
    <2>1. jar' = jar
      BY <1>4, SendsAlone
    <2> QED
      BY <1>0, <1>3, <1>4, <2>1, SendsOK, JarsKept
  <1>5. ASSUME NEW c \in Calls, Abandon(c)
        PROVE  Requests' /\ Jars'
    <2>1. Becomes(c, NoRequest) /\ jar' = jar
      BY <1>5 DEF Abandon, Becomes
    <2> QED
      BY <1>0, <1>3, <2>1, NoRequestOK, BecomesOK, JarsKept
  <1>6. ASSUME UNCHANGED gvars PROVE Requests' /\ Jars'
    <2>1. http' = http /\ jar' = jar
      BY <1>6 DEF gvars
    <2> QED
      BY <1>0, <1>3, <2>1, RequestsKept, JarsKept
  <1>7. ASSUME GNext PROVE Requests' /\ Jars'
    <2>1. ASSUME NEW c \in Calls, Serve(c) PROVE Requests' /\ Jars'
      BY <1>3, <2>1, ServeOK
    <2>2. CASE Environment
      BY <1>3, <2>2, EnvironmentOK
    <2> QED
      BY <1>4, <1>5, <1>7, <2>1, <2>2 DEF GNext
  <1> QED
    BY <1>2, <1>6, <1>7 DEF GInv

\* Requests in progress, cookies in browsers and the state of auth-ms keep the
\* invariant: every cookie was delivered, every request carries what its route needs.
THEOREM GTypeCorrect == GSpec => []GInv
  BY GTypeInit, GTypeStep, PTL DEF GSpec

\* Types of the composed system.
THEOREM GTypeOKHolds == GSpec => []GTypeOK
  <1>1. GInv => GTypeOK
    BY Delivered DEF GInv, GTypeOK, TypeInv, Requests, Jars
  <1> QED
    BY <1>1, GTypeCorrect, PTL

\* Whatever browsers send, and in whatever order guards, handlers and responses run,
\* auth-ms behind the gateway behaves as AuthService: every theorem about its
\* sessions holds of the composed system.
THEOREM AuthServiceRefined == GSpec => ImplementsAuthService
  <1>1. GInit => Init
    BY DEF GInit
  <1> QED
    BY <1>1, StepRefined, GTypeCorrect, PTL DEF GSpec, ImplementsAuthService, Spec

--------------------------------------------------------------------------------
(* Fresh tokens.  A call from its draw to its reply holds a token that no    *)
(* other call holds and no client has been given.                            *)

Hot == {"rotate", "insert", "reply"}

Stays(d) ==
    /\ call[d].pc \in Hot
    /\ call'[d].user = call[d].user /\ call'[d].token = call[d].token
    /\ call'[d].pc # "reply" => call[d].pc # "reply"

Draws(d) ==
    /\ Draw(call'[d].token) /\ jwts' = jwts
    /\ \A e \in Calls : e # d => call'[e] = call[e]

Validated(d) ==
    /\ call[d].pc = "validate" /\ call'[d].user = call[d].user
    /\ cache[call[d].user] = call[d].token
    /\ Draws(d)

LogsInAt(d) == \E u \in Users, password \in Passwords : LoginUser(d, u, password)

(* Steps that neither begin nor move a rotation. *)
LEMMA CoolGoto ==
  ASSUME TypeInv, NEW c \in Calls, NEW s, Goto(c, s), s.pc \notin Hot,
         NEW d \in Calls, call'[d].pc \in Hot
  PROVE  d # c /\ call'[d] = call[d] /\ Stays(d)
  BY DEF TypeInv, TypeOK, Goto, Stays

LEMMA CoolSettle ==
  ASSUME TypeInv, NEW c \in Calls, NEW todo, NEW found, Settle(c, todo, found),
         call[c].todo # {} \/ call[c].found # {},
         NEW d \in Calls, call'[d].pc \in Hot
  PROVE  d # c /\ call'[d] = call[d] /\ Stays(d)
  <1> DEFINE t == [call[c] EXCEPT !.todo = todo, !.found = found]
  <1>1. call[c].pc \in {"revoke", "reset"}
    BY DEF TypeInv, CallOK
  <1>2. t.pc \notin Hot
    BY <1>1 DEF TypeInv, TypeOK, CallState, Hot
  <1>3. NoCall.pc \notin Hot
    BY DEF NoCall, Hot
  <1>4. PICK s : s \in {NoCall, t} /\ Goto(c, s)
    BY DEF Settle
  <1> QED
    BY <1>2, <1>3, <1>4, CoolGoto

(* Every step of a handler but the comparison with the cache. *)
LEMMA HotContinue ==
  ASSUME TypeInv, NEW c \in Calls, Continue(c) \/ CommandFails(c),
         NEW d \in Calls, call'[d].pc \in Hot
  PROVE  Stays(d) \/ (d = c /\ Validated(d))
  <1>0. NoCall.pc \notin Hot
    BY DEF NoCall, Hot
  <1>1. CASE Validate(c)
    <2>1. CASE Goto(c, NoCall)
      BY <1>0, <2>1, CoolGoto
    <2>2. CASE /\ cache[call[c].user] = call[c].token
               /\ \E x \in Uuids : /\ Draw(x)
                                   /\ Goto(c, [call[c] EXCEPT !.pc = "rotate", !.token = x])
      <3>1. PICK x \in Uuids : /\ Draw(x)
                               /\ Goto(c, [call[c] EXCEPT !.pc = "rotate", !.token = x])
        BY <2>2
      <3>2. CASE d = c
        <4>1. call[c] \in CallState /\ call[c].pc = "validate" /\ jwts' = jwts
          BY <1>1 DEF TypeInv, TypeOK, Validate, clients
        <4>2. /\ [call[c] EXCEPT !.pc = "rotate", !.token = x].user = call[c].user
              /\ [call[c] EXCEPT !.pc = "rotate", !.token = x].token = x
          BY <4>1 DEF CallState
        <4>3. call'[c] = [call[c] EXCEPT !.pc = "rotate", !.token = x]
          BY <3>1 DEF TypeInv, TypeOK, Goto
        <4>4. \A e \in Calls : e # c => call'[e] = call[e]
          BY <3>1 DEF TypeInv, TypeOK, Goto
        <4> QED
          BY <2>2, <3>1, <3>2, <4>1, <4>2, <4>3, <4>4 DEF Validated, Draws
      <3>3. CASE d # c
        BY <3>1, <3>3 DEF TypeInv, TypeOK, Goto, Stays
      <3> QED
        BY <3>2, <3>3
    <2> QED
      BY <1>1, <2>1, <2>2 DEF Validate
  <1>2. CASE RotateInvalidate(c) \/ RotateInsert(c)
    BY <1>2 DEF TypeInv, TypeOK, CallState, Goto, RotateInvalidate, RotateInsert, Stays, Hot
  <1>3. CASE ReplyTokens(c) \/ VerifyUserAccount(c) \/ CreateRecoveryToken(c)
    BY <1>0, <1>3, CoolGoto DEF ReplyTokens, VerifyUserAccount, CreateRecoveryToken
  <1>4. CASE FindPreviousToken(c)
    <2>1. ASSUME NEW x PROVE [call[c] EXCEPT !.pc = "delete", !.token = x].pc \notin Hot
      BY DEF TypeInv, TypeOK, CallState, Hot
    <2>2. [call[c] EXCEPT !.pc = "create"].pc \notin Hot
      BY DEF TypeInv, TypeOK, CallState, Hot
    <2> QED
      BY <1>4, <2>1, <2>2, CoolGoto DEF FindPreviousToken
  <1>5. CASE DeletePreviousToken(c)
    <2>1. [call[c] EXCEPT !.pc = "create"].pc \notin Hot
      BY DEF TypeInv, TypeOK, CallState, Hot
    <2> QED
      BY <1>5, <2>1, CoolGoto DEF DeletePreviousToken
  <1>6. CASE FindUserToReset(c)
    <2> DEFINE row == authUser[call[c].user]
               t == [call[c] EXCEPT !.pc = "reset", !.row = row,
                                    !.todo = {"password", "tokens", "invalidate"}]
    <2>1. t.pc \notin Hot
      BY DEF TypeInv, TypeOK, CallState, Hot
    <2>2. Goto(c, t) \/ Goto(c, NoCall)
      BY <1>6 DEF FindUserToReset
    <2> HIDE DEF t
    <2> QED
      BY <1>0, <2>1, <2>2, CoolGoto
  <1>7. CASE \/ FindActiveUser(c) \/ DeactivateUser(c) \/ InvalidateBranch(c)
             \/ UpdateUserPassword(c) \/ FindRecoveryTokens(c)
    <2>1. PICK todo, found : Settle(c, todo, found) /\ call[c].todo # {}
      BY <1>7 DEF FindActiveUser, DeactivateUser, InvalidateBranch, UpdateUserPassword,
         FindRecoveryTokens
    <2> QED
      BY <2>1, CoolSettle
  <1>8. ASSUME NEW token \in call[c].found, DeleteRecoveryToken(c, token)
        PROVE  Stays(d)
    BY <1>8, CoolSettle DEF DeleteRecoveryToken
  <1>9. CASE CommandFails(c)
    <2>1. CASE Goto(c, NoCall)
      BY <1>0, <2>1, CoolGoto
    <2>2. ASSUME NEW branch \in call[c].todo,
                 Settle(c, call[c].todo \ {branch}, call[c].found)
          PROVE  Stays(d)
      BY <2>2, CoolSettle
    <2>3. ASSUME NEW token \in call[c].found,
                 Settle(c, call[c].todo, call[c].found \ {token})
          PROVE  Stays(d)
      BY <2>3, CoolSettle
    <2> QED
      BY <1>9, <2>1, <2>2, <2>3 DEF CommandFails
  <1> QED
    BY <1>1, <1>2, <1>3, <1>4, <1>5, <1>6, <1>7, <1>8, <1>9 DEF Continue


LEMMA HotRequest ==
  ASSUME TypeInv, NEW c \in Calls, Request(c), NEW d \in Calls, call'[d].pc \in Hot
  PROVE  Stays(d) \/ (d = c /\ LogsInAt(d))
  <1>1. ASSUME NEW u \in Users, NEW password \in Passwords, LoginUser(c, u, password)
        PROVE  Stays(d) \/ (d = c /\ LogsInAt(d))
    <2>1. CASE d = c
      BY <1>1, <2>1 DEF LogsInAt
    <2>2. CASE d # c
      <3>1. PICK s : Goto(c, s)
        BY <1>1 DEF LoginUser
      <3> QED
        BY <2>2, <3>1 DEF TypeInv, TypeOK, Goto, Stays
    <2> QED
      BY <2>1, <2>2
  <1>2. ASSUME NEW jwt \in jwts, RevalidateUserTokens(c, jwt)
        PROVE  Stays(d)
    <2>1. [NoCall EXCEPT !.pc = "validate", !.user = jwt.sub,
                         !.row = authUser[jwt.sub], !.token = jwt.check].pc \notin Hot
      BY DEF NoCall, Hot
    <2> QED
      BY <1>2, <2>1, CoolGoto DEF RevalidateUserTokens
  <1>3. ASSUME NEW u \in Users, NEW agent \in Users, RevokeUserAccess(c, u, agent)
        PROVE  Stays(d)
    <2> DEFINE todo == {"invalidate"} \cup
                       (IF checkAllowedActionOn_User(u, agent) THEN {"find"} ELSE {})
               t == [NoCall EXCEPT !.pc = "revoke", !.user = u, !.todo = todo]
    <2>1. Goto(c, t)
      BY <1>3 DEF RevokeUserAccess
    <2> HIDE DEF todo
    <2>2. t.pc \notin Hot
      BY DEF NoCall, Hot
    <2> HIDE DEF t
    <2> QED
      BY <2>1, <2>2, CoolGoto
  <1>4. ASSUME NEW u \in Users, RecoverCredentials(c, u) PROVE Stays(d)
    <2>1. [NoCall EXCEPT !.pc = "recover", !.user = u].pc \notin Hot
      BY DEF NoCall, Hot
    <2> QED
      BY <1>4, <2>1, CoolGoto DEF RecoverCredentials
  <1>5. ASSUME NEW token, NEW password, ResetUserPassword(c, token, password)
        PROVE  Stays(d)
    <2>1. PICK r \in recoveryTokens :
            Goto(c, [NoCall EXCEPT !.pc = "findUser", !.user = r.userId,
                                   !.token = token, !.password = password])
      BY <1>5 DEF ResetUserPassword
    <2>2. [NoCall EXCEPT !.pc = "findUser", !.user = r.userId,
                         !.token = token, !.password = password].pc \notin Hot
      BY DEF NoCall, Hot
    <2> QED
      BY <2>1, <2>2, CoolGoto
  <1>6. ASSUME NEW u \in Users, VerifyAccount(c, u) PROVE Stays(d)
    <2>1. [NoCall EXCEPT !.pc = "verify", !.user = u, !.row = authUser[u]].pc \notin Hot
      BY DEF NoCall, Hot
    <2> QED
      BY <1>6, <2>1, CoolGoto DEF VerifyAccount
  <1> QED
    BY <1>1, <1>2, <1>3, <1>4, <1>5, <1>6 DEF Request

(* Where a call that holds a new refresh token comes from. *)
LEMMA HotStep ==
  ASSUME TypeInv, [Next]_vars, NEW d \in Calls, call'[d].pc \in Hot
  PROVE  Stays(d) \/ Validated(d) \/ LogsInAt(d)
  <1>1. ASSUME NEW c \in Calls, Request(c) \/ Continue(c) \/ CommandFails(c)
        PROVE  Stays(d) \/ Validated(d) \/ LogsInAt(d)
    BY <1>1, HotRequest, HotContinue
  <1>2. ASSUME call' = call PROVE Stays(d)
    BY <1>2 DEF Stays
  <1>3. CASE Crash
    BY <1>3 DEF Crash, NoCall, Hot
  <1> QED
    BY <1>1, <1>2, <1>3 DEF Next, vars, LogoutUser, Expire

LEMMA LoginDraws ==
  ASSUME TypeInv, NEW d \in Calls, LogsInAt(d)
  PROVE  Draws(d)
  <1>1. PICK u \in Users, password \in Passwords : LoginUser(d, u, password)
    BY DEF LogsInAt
  <1>2. PICK x \in Uuids :
          /\ Draw(x)
          /\ Goto(d, [NoCall EXCEPT !.pc = "rotate", !.user = u,
                                    !.row = authUser[u], !.token = x])
    BY <1>1 DEF LoginUser
  <1>3. [NoCall EXCEPT !.pc = "rotate", !.user = u, !.row = authUser[u], !.token = x].token = x
    BY DEF NoCall
  <1> QED
    BY <1>1, <1>2, <1>3 DEF TypeInv, TypeOK, Goto, Draws, LoginUser, clients

(* The invariant. *)
HotInv ==
    /\ \A c \in Calls : call[c].pc \in Hot => \A jwt \in jwts : jwt.check # call[c].token
    /\ \A c, d \in Calls :
          call[c].pc \in Hot /\ call[d].pc \in Hot /\ call[c].token = call[d].token => c = d

LEMMA HotInit == Init => HotInv
  BY DEF Init, HotInv, NoCall, Hot

LEMMA HotDrawn ==
  ASSUME TypeInv, SessionInv, NEW c \in Calls, call[c].pc \in Hot
  PROVE  call[c].token \in drawn
  <1>1. call[c].user \in Users /\ call[c].token \in Uuids /\ call[c].token # None
    BY AuthAssumption DEF TypeInv, CallOK, Hot
  <1>2. CASE Pending(c)
    BY <1>2 DEF SessionInv
  <1>3. CASE call[c].pc = "reply"
    <2>1. Held(call[c].user, call[c].token)
      BY <1>3 DEF SessionInv
    <2> QED
      BY <1>1, <2>1 DEF SessionInv, Held
  <1> QED
    BY <1>2, <1>3 DEF Hot, Pending

LEMMA ChecksDrawn ==
  ASSUME TypeInv, SessionInv, NEW jwt \in jwts
  PROVE  jwt.check \in drawn
  <1>1. jwt.sub \in Users /\ jwt.check \in Uuids /\ jwt.check # None
    BY AuthAssumption, Delivered
  <1>2. Held(jwt.sub, jwt.check)
    BY DEF SessionInv
  <1> QED
    BY <1>1, <1>2 DEF SessionInv, Held

(* A refresh token is delivered by a reply. *)
LEMMA JwtsAreReplied ==
  ASSUME [Next]_vars, NEW jwt \in jwts', jwt \notin jwts
  PROVE  \E c \in Calls :
            ReplyTokens(c) /\ jwt = [sub |-> call[c].user, check |-> call[c].token]
  <1>1. ASSUME NEW c \in Calls, Continue(c), ~ReplyTokens(c) PROVE jwts' = jwts
    BY <1>1 DEF Continue, Validate, RotateInvalidate, RotateInsert, FindActiveUser,
       DeactivateUser, InvalidateBranch, FindPreviousToken, DeletePreviousToken,
       CreateRecoveryToken, FindUserToReset, UpdateUserPassword, FindRecoveryTokens,
       DeleteRecoveryToken, VerifyUserAccount, clients
  <1>2. ASSUME NEW c \in Calls, Request(c) \/ CommandFails(c) PROVE jwts' = jwts
    BY <1>2, RequestGrowsNot DEF CommandFails, clients
  <1>3. CASE \/ Crash \/ UNCHANGED vars \/ \E x \in Uuids : Expire(x)
             \/ \E j \in jwts : LogoutUser(j)
    BY <1>3 DEF Crash, Expire, LogoutUser, clients, vars
  <1>4. PICK c \in Calls : ReplyTokens(c)
    BY <1>1, <1>2, <1>3 DEF Next
  <1> QED
    BY <1>4 DEF ReplyTokens

LEMMA HotInvStep == TypeInv /\ SessionInv /\ HotInv /\ [Next]_vars => HotInv'
  <1> SUFFICES ASSUME TypeInv, SessionInv, HotInv, [Next]_vars PROVE HotInv'
    OBVIOUS
  <1>1. ASSUME NEW d \in Calls, call'[d].pc \in Hot PROVE Stays(d) \/ Draws(d)
    BY <1>1, HotStep, LoginDraws DEF Validated
  <1>2. ASSUME NEW d \in Calls, call'[d].pc \in Hot, NEW jwt \in jwts'
        PROVE  jwt.check # call'[d].token
    <2>1. CASE Draws(d)
      BY <2>1, ChecksDrawn DEF Draws, Draw
    <2>2. CASE Stays(d) /\ jwt \in jwts
      BY <2>2 DEF Stays, HotInv
    <2>3. CASE Stays(d) /\ jwt \notin jwts
      <3>1. PICK c \in Calls :
              ReplyTokens(c) /\ jwt = [sub |-> call[c].user, check |-> call[c].token]
        BY <2>3, JwtsAreReplied
      <3>2. call[c].pc = "reply" /\ call'[c].pc = "idle"
        BY <3>1 DEF TypeInv, TypeOK, ReplyTokens, Goto, NoCall
      <3>3. c # d
        BY <1>2, <3>2 DEF Hot
      <3> QED
        BY <2>3, <3>1, <3>2, <3>3 DEF Stays, HotInv, Hot
    <2> QED
      BY <1>1, <1>2, <2>1, <2>2, <2>3
  <1>3. ASSUME NEW d \in Calls, NEW e \in Calls, call'[d].pc \in Hot, call'[e].pc \in Hot,
               call'[d].token = call'[e].token, d # e, Draws(d)
        PROVE  FALSE
    <2>1. call'[e] = call[e]
      BY <1>3 DEF Draws
    <2>2. call[e].token \in drawn
      BY <1>3, <2>1, HotDrawn
    <2> QED
      BY <1>3, <2>1, <2>2 DEF Draws, Draw
  <1>4. ASSUME NEW d \in Calls, NEW e \in Calls, call'[d].pc \in Hot, call'[e].pc \in Hot,
               call'[d].token = call'[e].token
        PROVE  d = e
    BY <1>1, <1>3, <1>4 DEF Stays, HotInv
  <1> QED
    BY <1>2, <1>4 DEF HotInv


--------------------------------------------------------------------------------
(* A request to log in or to revalidate is at auth-ms as long as its call is *)
(* on the way to a reply.                                                    *)

Rotation == {"idle", "validate", "rotate", "insert", "reply"}
CookieRoutes == {"login", "revalidate"}

SentInv ==
    \A c \in Calls :
        http[c].pc = "sent" /\ http[c].route \in CookieRoutes => call[c].pc \in Rotation

LEMMA RotationGoesOn ==
  ASSUME TypeInv, NEW c \in Calls, Continue(c) \/ CommandFails(c), call[c].pc \in Rotation
  PROVE  /\ call'[c].pc \in Rotation
         /\ Continue(c) => call[c].pc # "idle"
         /\ Continue(c) /\ call'[c].pc = "idle" => call[c].pc \in {"validate", "reply"}
  <1>1. call[c].todo = {} /\ call[c].found = {} /\ call[c] \in CallState
    BY DEF TypeInv, TypeOK, CallOK, Rotation
  <1>2. CASE CommandFails(c) /\ ~Continue(c)
    <2>1. Goto(c, NoCall)
      BY <1>1, <1>2 DEF CommandFails
    <2> QED
      BY <1>2, <2>1 DEF TypeInv, TypeOK, Goto, NoCall, Rotation
  <1>3. CASE Continue(c)
    <2>1. Validate(c) \/ RotateInvalidate(c) \/ RotateInsert(c) \/ ReplyTokens(c)
      BY <1>1, <1>3 DEF Continue, FindActiveUser, DeactivateUser, InvalidateBranch,
         FindPreviousToken, DeletePreviousToken, CreateRecoveryToken, FindUserToReset,
         UpdateUserPassword, FindRecoveryTokens, VerifyUserAccount, Rotation
    <2>2. CASE Validate(c)
      <3>1. PICK s : /\ Goto(c, s)
                     /\ \/ s = NoCall
                        \/ \E x : s = [call[c] EXCEPT !.pc = "rotate", !.token = x]
        BY <2>2 DEF Validate
      <3>2. NoCall.pc = "idle"
        BY DEF NoCall
      <3>3. ASSUME NEW x PROVE [call[c] EXCEPT !.pc = "rotate", !.token = x].pc = "rotate"
        BY <1>1 DEF CallState
      <3>4. s.pc \in {"idle", "rotate"}
        BY <3>1, <3>2, <3>3
      <3> QED
        BY <2>2, <3>1, <3>4 DEF TypeInv, TypeOK, Goto, Validate, Rotation
    <2>3. CASE RotateInvalidate(c) \/ RotateInsert(c) \/ ReplyTokens(c)
      BY <1>1, <2>3 DEF TypeInv, TypeOK, CallState, Goto, NoCall, RotateInvalidate,
         RotateInsert, ReplyTokens, Rotation
    <2> QED
      BY <2>1, <2>2, <2>3
  <1> QED
    BY <1>2, <1>3

LEMMA SentCall ==
  ASSUME GInv, [GNext]_gvars, NEW c \in Calls, http[c].pc = "sent", call[c].pc \in Rotation
  PROVE  call'[c].pc \in Rotation
  <1>0. TypeInv
    BY DEF GInv
  <1>1. ASSUME NEW d \in Calls, Forwards(d), Request(d) PROVE call'[c] = call[c]
    BY <1>0, <1>1, ForwardsAreForwarded, CallsAlone
  <1>2. ASSUME NEW d \in Calls, HandlerStep(d) \/ HandlerFails(d)
        PROVE  call'[c].pc \in Rotation
    <2>1. Continue(d) \/ CommandFails(d)
      BY <1>2 DEF HandlerStep, HandlerFails
    <2> QED
      BY <1>0, <2>1, CallsAlone, RotationGoesOn
  <1>3. ASSUME NEW d \in Calls, ForwardLogout(d) PROVE call' = call
    BY <1>3 DEF ForwardLogout, LogoutUser
  <1>4. CASE Crash \/ \E x \in Uuids : Expire(x)
    BY <1>4 DEF Crash, Expire, NoCall, Rotation
  <1> QED
    BY <1>1, <1>2, <1>3, <1>4, StepKinds DEF vars

(* Steps after which no login, revalidation or reset is newly answered with  *)
(* success, and no request is newly at auth-ms.                              *)
Succeeded(r) ==
    r.pc = "answered" /\ r.status = 200 /\ r.route \in CookieRoutes \cup {"reset"}

Quiet ==
    \A c \in Calls :
        Succeeded(http'[c]) \/ http'[c].pc = "sent" => http'[c] = http[c]

JarsDrop == \A b \in Browsers : jar'[b].auth \in {jar[b].auth, None}

LEMMA BecomesQuiet ==
  ASSUME Requests, NEW c \in Calls, NEW s, Becomes(c, s), ~Succeeded(s), s.pc # "sent"
  PROVE  Quiet
  <1> SUFFICES ASSUME NEW d \in Calls
               PROVE  http'[d] = IF d = c THEN s ELSE http[d]
    BY DEF Quiet
  <1> QED
    BY DEF Becomes, Requests

LEMMA RespondQuiet ==
  ASSUME Requests, NEW c \in Calls, NEW status, Respond(c, status),
         status # 200 \/ http[c].route \notin CookieRoutes \cup {"reset"}
  PROVE  Quiet
  <1> DEFINE s == [http[c] EXCEPT !.pc = "answered", !.status = status, !.todo = << >>]
  <1>1. http[c] \in HttpState /\ http \in [Calls -> HttpState]
    BY DEF Requests
  <1>2. s.pc = "answered" /\ s.status = status /\ s.route = http[c].route
    BY <1>1 DEF HttpState
  <1>3. Becomes(c, s)
    BY <1>1 DEF Respond, Becomes, HttpState
  <1> HIDE DEF s
  <1> QED
    BY <1>2, <1>3, BecomesQuiet DEF Succeeded

(* Guards and refusals. *)
LEMMA GuardsQuiet ==
  ASSUME Requests, NEW c \in Calls,
         ThrottlerGuard(c) \/ JwtAuthGuard(c) \/ CsrfGuard(c) \/ UserRoleGuard(c)
  PROVE  Quiet
  <1>0. http[c] \in HttpState /\ http \in [Calls -> HttpState]
    BY DEF Requests
  <1>1. http[c].pc = "guards"
    BY DEF ThrottlerGuard, JwtAuthGuard, CsrfGuard, UserRoleGuard, Runs
  <1>2. ASSUME NEW status \in {400, 401, 403, 429, 500}, Respond(c, status) PROVE Quiet
    BY <1>2, RespondQuiet
  <1>3. ASSUME http' = [http EXCEPT ![c].todo = Tail(http[c].todo), ![c].user = http[c].bearer]
        PROVE  Quiet
    <2> DEFINE s == [http[c] EXCEPT !.todo = Tail(http[c].todo), !.user = http[c].bearer]
    <2>1. s.pc = "guards"
      BY <1>0, <1>1 DEF HttpState
    <2>2. Becomes(c, s)
      BY <1>0, <1>3 DEF Becomes, HttpState
    <2> HIDE DEF s
    <2> QED
      BY <2>1, <2>2, BecomesQuiet DEF Succeeded
  <1>4. ASSUME Pass(c) PROVE Quiet
    <2> DEFINE s == [http[c] EXCEPT !.todo = Tail(http[c].todo)]
    <2>1. s.pc = "guards"
      BY <1>0, <1>1 DEF HttpState
    <2>2. Becomes(c, s)
      BY <1>0, <1>4 DEF Becomes, HttpState, Pass
    <2> HIDE DEF s
    <2> QED
      BY <2>1, <2>2, BecomesQuiet DEF Succeeded
  <1>5. CASE ThrottlerGuard(c)
    BY <1>2, <1>5, GatewayStatus DEF ThrottlerGuard
  <1>6. CASE JwtAuthGuard(c)
    <2>1. CASE Respond(c, gatewayStatus["TokenExpiredError"])
      BY <1>2, <2>1, GatewayStatus
    <2>2. CASE http' = [http EXCEPT ![c].todo = Tail(http[c].todo), ![c].user = http[c].bearer]
      BY <1>3, <2>2
    <2> QED
      BY <1>6, <2>1, <2>2 DEF JwtAuthGuard
  <1>7. CASE CsrfGuard(c)
    BY <1>2, <1>4, <1>7, GatewayStatus DEF CsrfGuard
  <1>8. CASE UserRoleGuard(c)
    BY <1>2, <1>4, <1>8, GatewayStatus DEF UserRoleGuard
  <1> QED
    BY <1>5, <1>6, <1>7, <1>8

LEMMA RefusalsQuiet ==
  ASSUME Requests, NEW c \in Calls,
         \/ ValidationPipe(c) \/ EmitSignup(c) \/ RefuseWithoutCookie(c)
         \/ FirstCommandFails(c) \/ RefusedByHandler(c) \/ RefusedCode(c)
         \/ ForwardLogout(c) \/ ForwardToMainApi(c)
  PROVE  Quiet
  <1>1. ASSUME NEW status \in {400, 401}, Respond(c, status) PROVE Quiet
    BY <1>1, RespondQuiet
  <1>2. ASSUME NEW exception \in Exceptions, Respond(c, answer(exception)) PROVE Quiet
    BY <1>2, AnswerStatus, RespondQuiet
  <1>3. CASE ValidationPipe(c) \/ RefuseWithoutCookie(c)
    BY <1>1, <1>3, GatewayStatus DEF ValidationPipe, RefuseWithoutCookie
  <1>4. CASE FirstCommandFails(c) \/ RefusedCode(c)
    BY <1>2, <1>4, KnownExceptions DEF FirstCommandFails, RefusedCode
  <1>5. CASE RefusedByHandler(c)
    BY <1>2, <1>5, RefusalIsKnown DEF RefusedByHandler
  <1>6. CASE EmitSignup(c) \/ ForwardLogout(c)
    BY <1>6, RespondQuiet DEF EmitSignup, ForwardLogout, Passed, CookieRoutes
  <1>7. CASE ForwardToMainApi(c)
    BY <1>7, RespondQuiet DEF ForwardToMainApi, UserRoutes, CookieRoutes
  <1> QED
    BY <1>3, <1>4, <1>5, <1>6, <1>7

LEMMA SendQuiet ==
  ASSUME Requests, NEW c \in Calls, NEW b \in Browsers, NEW route, NEW request,
         Send(c, b, route, request), "pc" \in DOMAIN request
  PROVE  Quiet
  <1> DEFINE s == [request EXCEPT !.pc = "guards", !.browser = b, !.route = route,
                                  !.todo = Guards[route], !.csrf = jar[b].csrf]
  <1>1. s.pc = "guards"
    OBVIOUS
  <1>2. Becomes(c, s)
    BY DEF Send, Becomes
  <1> HIDE DEF s
  <1> QED
    BY <1>1, <1>2, BecomesQuiet DEF Succeeded

LEMMA SendsQuiet ==
  ASSUME Requests, NEW c \in Calls, NEW b \in Browsers,
         SendCredentials(c, b) \/ SendCookie(c, b) \/ SendBearer(c, b)
  PROVE  Quiet
  <1>1. "pc" \in DOMAIN NoRequest
    BY DEF NoRequest
  <1> HIDE DEF NoRequest
  <1>2. CASE Send(c, b, "signup", NoRequest)
    BY <1>1, <1>2, SendQuiet
  <1>3. ASSUME NEW u, NEW password,
               Send(c, b, "login", [NoRequest EXCEPT !.user = u, !.password = password])
        PROVE  Quiet
    <2> DEFINE q == [NoRequest EXCEPT !.user = u, !.password = password]
    <2>1. "pc" \in DOMAIN q
      BY <1>1
    <2>2. Send(c, b, "login", q)
      BY <1>3
    <2> HIDE DEF q
    <2> QED
      BY <2>1, <2>2, SendQuiet
  <1>4. ASSUME NEW u, NEW route, Send(c, b, route, [NoRequest EXCEPT !.user = u])
        PROVE  Quiet
    BY <1>1, <1>4, SendQuiet
  <1>5. ASSUME NEW m, NEW password,
               Send(c, b, "reset", [NoRequest EXCEPT !.token = m.token, !.password = password])
        PROVE  Quiet
    <2> DEFINE q == [NoRequest EXCEPT !.token = m.token, !.password = password]
    <2>1. "pc" \in DOMAIN q
      BY <1>1
    <2>2. Send(c, b, "reset", q)
      BY <1>5
    <2> HIDE DEF q
    <2> QED
      BY <2>1, <2>2, SendQuiet
  <1>6. ASSUME NEW route, Send(c, b, route, [NoRequest EXCEPT !.cookie = jar[b].auth])
        PROVE  Quiet
    BY <1>1, <1>6, SendQuiet
  <1>7. ASSUME NEW route, NEW bearer, Send(c, b, route, [NoRequest EXCEPT !.bearer = bearer])
        PROVE  Quiet
    BY <1>1, <1>7, SendQuiet
  <1>8. CASE SendCredentials(c, b)
    BY <1>2, <1>3, <1>4, <1>5, <1>8 DEF SendCredentials
  <1>9. CASE SendCookie(c, b)
    BY <1>6, <1>9 DEF SendCookie
  <1>10. CASE SendBearer(c, b)
    BY <1>7, <1>10 DEF SendBearer
  <1> QED
    BY <1>8, <1>9, <1>10

(* The reply of a login or revalidation. *)
Replies(c) ==
    /\ ReplyTokens(c) /\ jar' = jar /\ http[c].pc = "sent"
    /\ http' = [http EXCEPT ![c].pc = "answered", ![c].status = 200,
                   ![c].cookie = [sub |-> call[c].user, check |-> call[c].token]]

(* The end of a reset. *)
Finishes(c) ==
    /\ Continue(c) /\ jar' = jar
    /\ http[c].pc = "sent" /\ http[c].route = "reset"
    /\ Thrown(c) = None /\ call'[c].pc = "idle"
    /\ Respond(c, 200)

LEMMA HandlersQuiet ==
  ASSUME TypeInv, Requests, SentInv, NEW c \in Calls, HandlerStep(c)
  PROVE  Quiet \/ Replies(c) \/ Finishes(c)
  <1>0. Continue(c) /\ Answer(c) /\ jar' = jar
    BY DEF HandlerStep
  <1>1. CASE http' = http
    BY <1>1 DEF Quiet
  <1>2. CASE http[c].pc = "sent" /\ Thrown(c) # None
    <2>1. Respond(c, answer(Thrown(c)))
      BY <1>0, <1>2 DEF Answer
    <2>2. answer(Thrown(c)) # 200
      BY <1>2, ThrownIsKnown, AnswerStatus
    <2> QED
      BY <2>1, <2>2, RespondQuiet
  <1>3. CASE http[c].pc = "sent" /\ Thrown(c) = None /\ call[c].pc = "reply"
    BY <1>0, <1>3, OnlyReplies DEF Answer, Replies
  <1>4. CASE /\ http[c].pc = "sent" /\ Thrown(c) = None /\ call[c].pc # "reply"
             /\ call'[c].pc = "idle" /\ Respond(c, 200)
    <2>1. call[c].pc # "validate"
      BY <1>4, GatewayAssumption, KnownExceptions DEF Thrown
    <2>2. http[c].route \notin CookieRoutes
      BY <1>0, <1>4, <2>1, RotationGoesOn DEF SentInv
    <2> QED
      BY <1>0, <1>4, <2>2, RespondQuiet DEF Finishes
  <1> QED
    BY <1>0, <1>1, <1>2, <1>3, <1>4 DEF Answer

LEMMA HandlerFailsQuiet ==
  ASSUME Requests, NEW c \in Calls, HandlerFails(c)
  PROVE  Quiet
  <1>1. CASE http' = http
    BY <1>1 DEF Quiet
  <1>2. CASE http[c].pc = "sent"
    <2>1. PICK exception \in {"QueryFailedError", "AggregateError"} :
            Respond(c, answer(exception))
      BY <1>2 DEF HandlerFails
    <2> QED
      BY <2>1, AnswerStatus, KnownExceptions, RespondQuiet
  <1> QED
    BY <1>1, <1>2 DEF HandlerFails

(* One step, sorted by what it does to cookies on their way. *)
LEMMA StepDelivery ==
  ASSUME GInv, SentInv, [GNext]_gvars
  PROVE  \/ Quiet /\ JarsDrop
         \/ \E c \in Calls : Forwards(c) /\ Request(c)
         \/ \E c \in Calls : Replies(c)
         \/ \E c \in Calls : Finishes(c)
         \/ \E c \in Calls : Receive(c)
  <1>0. TypeInv /\ Requests /\ Jars
    BY DEF GInv
  <1>1. jar' = jar => JarsDrop
    BY DEF JarsDrop
  <1>2. ASSUME NEW c \in Calls, NEW b \in Browsers,
               SendCredentials(c, b) \/ SendCookie(c, b) \/ SendBearer(c, b)
        PROVE  Quiet /\ JarsDrop
    BY <1>0, <1>1, <1>2, SendsAlone, SendsQuiet
  <1>3. ASSUME NEW c \in Calls,
               ThrottlerGuard(c) \/ JwtAuthGuard(c) \/ CsrfGuard(c) \/ UserRoleGuard(c)
        PROVE  Quiet /\ JarsDrop
    BY <1>0, <1>1, <1>3, GatewayAlone, GuardsQuiet
  <1>4. ASSUME NEW c \in Calls,
               \/ ValidationPipe(c) \/ EmitSignup(c) \/ RefuseWithoutCookie(c)
               \/ FirstCommandFails(c) \/ RefusedByHandler(c) \/ RefusedCode(c)
               \/ ForwardToMainApi(c)
        PROVE  Quiet /\ JarsDrop
    BY <1>0, <1>1, <1>4, GatewayAlone, RefusalsQuiet
  <1>5. ASSUME NEW c \in Calls, ForwardLogout(c) PROVE Quiet /\ JarsDrop
    BY <1>0, <1>1, <1>5, RefusalsQuiet DEF ForwardLogout
  <1>6. ASSUME NEW c \in Calls, Forwards(c) PROVE Request(c)
    BY <1>6, ForwardsAreRequests
  <1>7. ASSUME NEW c \in Calls, HandlerStep(c) 
        PROVE  (Quiet /\ JarsDrop) \/ Replies(c) \/ Finishes(c)
    BY <1>0, <1>1, <1>7, HandlersQuiet DEF HandlerStep
  <1>8. ASSUME NEW c \in Calls, HandlerFails(c) PROVE Quiet /\ JarsDrop
    BY <1>0, <1>1, <1>8, HandlerFailsQuiet DEF HandlerFails
  <1>9. ASSUME NEW c \in Calls, Abandon(c) PROVE Quiet /\ JarsDrop
    <2>1. Becomes(c, NoRequest) /\ jar' = jar
      BY <1>9 DEF Abandon, Becomes
    <2>2. ~Succeeded(NoRequest) /\ NoRequest.pc # "sent"
      BY DEF Succeeded, NoRequest
    <2> QED
      BY <1>0, <1>1, <2>1, <2>2, BecomesQuiet
  <1>10. ASSUME NEW b \in Browsers, CookiesExpire(b) PROVE Quiet /\ JarsDrop
    BY <1>0, <1>10 DEF CookiesExpire, Quiet, JarsDrop, Jars
  <1>11. CASE UNCHANGED <<http, jar>>
    BY <1>1, <1>11 DEF Quiet
  <1>12. CASE Environment
    BY <1>4, <1>8, <1>10, <1>11, <1>12 DEF Environment
  <1>13. ASSUME NEW c \in Calls, Serve(c)
         PROVE  \/ Quiet /\ JarsDrop
                \/ Forwards(c) /\ Request(c)
                \/ Replies(c) \/ Finishes(c)
                \/ Receive(c)
    BY <1>3, <1>4, <1>5, <1>6, <1>7, <1>13 DEF Serve, Forwards
  <1> QED
    BY <1>2, <1>9, <1>11, <1>12, <1>13 DEF GNext, gvars

LEMMA ForwardedCall ==
  ASSUME TypeInv, NEW c \in Calls, Forwards(c), http[c].route \in CookieRoutes
  PROVE  call'[c].pc \in Rotation
  <1>1. CASE ForwardLogin(c)
    <2>1. PICK x : Goto(c, [NoCall EXCEPT !.pc = "rotate", !.user = http[c].user,
                               !.row = authUser[http[c].user], !.token = x])
      BY <1>1 DEF ForwardLogin, LoginUser
    <2>2. [NoCall EXCEPT !.pc = "rotate", !.user = http[c].user,
              !.row = authUser[http[c].user], !.token = x].pc = "rotate"
      BY DEF NoCall
    <2> QED
      BY <2>1, <2>2 DEF TypeInv, TypeOK, Goto, Rotation
  <1>2. CASE ForwardRevalidate(c)
    <2> DEFINE jwt == http[c].cookie
    <2>1. Goto(c, [NoCall EXCEPT !.pc = "validate", !.user = jwt.sub,
                                 !.row = authUser[jwt.sub], !.token = jwt.check])
      BY <1>2 DEF ForwardRevalidate, RevalidateUserTokens
    <2>2. [NoCall EXCEPT !.pc = "validate", !.user = jwt.sub,
                         !.row = authUser[jwt.sub], !.token = jwt.check].pc = "validate"
      BY DEF NoCall
    <2> QED
      BY <2>1, <2>2 DEF TypeInv, TypeOK, Goto, Rotation
  <1> QED
    BY <1>1, <1>2 DEF Forwards, ForwardVerify, ForwardRecover, ForwardReset, Passed,
       CookieRoutes

LEMMA ForwardedHttp ==
  ASSUME Requests, NEW c \in Calls, Forward(c), NEW d \in Calls
  PROVE  /\ d # c => http'[d] = http[d]
         /\ http'[c].pc = "sent" /\ http'[c].route = http[c].route
  BY DEF Requests, HttpState, Forward

LEMMA RepliedHttp ==
  ASSUME Requests, NEW c \in Calls, Replies(c), NEW d \in Calls
  PROVE  /\ d # c => http'[d] = http[d]
         /\ http'[c].pc = "answered"
         /\ http'[c].cookie = [sub |-> call[c].user, check |-> call[c].token]
  BY DEF Requests, HttpState, Replies

LEMMA FinishedHttp ==
  ASSUME Requests, NEW c \in Calls, Finishes(c), NEW d \in Calls
  PROVE  /\ d # c => http'[d] = http[d]
         /\ http'[c].pc = "answered"
         /\ http'[c].route = "reset" /\ http'[c].token = http[c].token
  BY DEF Requests, HttpState, Finishes, Respond

LEMMA ReceivedHttp ==
  ASSUME Requests, NEW c \in Calls, Receive(c), NEW d \in Calls
  PROVE  /\ d # c => http'[d] = http[d]
         /\ http'[c] = NoRequest
  BY DEF Requests, Receive

LEMMA SentStep == GInv /\ SentInv /\ [GNext]_gvars => SentInv'
  <1> SUFFICES ASSUME GInv, SentInv, [GNext]_gvars, NEW d \in Calls,
                      http'[d].pc = "sent", http'[d].route \in CookieRoutes
               PROVE  call'[d].pc \in Rotation
    BY DEF SentInv
  <1>0. TypeInv /\ Requests
    BY DEF GInv
  <1>1. ASSUME http'[d] = http[d] PROVE call'[d].pc \in Rotation
    BY <1>1, SentCall DEF SentInv
  <1>2. CASE Quiet
    BY <1>1, <1>2 DEF Quiet
  <1>3. ASSUME NEW c \in Calls, Forwards(c) PROVE call'[d].pc \in Rotation
    BY <1>0, <1>1, <1>3, ForwardsAreForwarded, ForwardedHttp, ForwardedCall
  <1>4. ASSUME NEW c \in Calls, Replies(c) PROVE call'[d].pc \in Rotation
    BY <1>0, <1>1, <1>4, RepliedHttp
  <1>5. ASSUME NEW c \in Calls, Receive(c) PROVE call'[d].pc \in Rotation
    BY <1>0, <1>1, <1>5, ReceivedHttp DEF NoRequest
  <1>6. ASSUME NEW c \in Calls, Finishes(c) PROVE call'[d].pc \in Rotation
    BY <1>0, <1>1, <1>6, FinishedHttp
  <1> QED
    BY <1>2, <1>3, <1>4, <1>5, <1>6, StepDelivery

--------------------------------------------------------------------------------
(* Cookies.  No refresh token is in two browsers, in two responses, or in a  *)
(* browser and a response.                                                   *)

Carrying(r) ==
    /\ r.pc = "answered" /\ r.status = 200
    /\ r.route \in CookieRoutes /\ r.cookie # None

CookieInv ==
    /\ \A b, d \in Browsers :
          /\ jar[b].auth # None /\ jar[d].auth # None
          /\ jar[b].auth.check = jar[d].auth.check
          => b = d
    /\ \A b \in Browsers, c \in Calls :
          jar[b].auth # None /\ Carrying(http[c])
          => jar[b].auth.check # http[c].cookie.check
    /\ \A c, d \in Calls :
          /\ Carrying(http[c]) /\ Carrying(http[d])
          /\ http[c].cookie.check = http[d].cookie.check
          => c = d

FreshInv == GInv /\ SessionInv /\ HotInv /\ SentInv

(* Cookies only disappear. *)
LEMMA CookiesKept ==
  ASSUME CookieInv, JarsDrop,
         \A c \in Calls : Carrying(http'[c]) => /\ Carrying(http[c])
                                              /\ http'[c].cookie = http[c].cookie
  PROVE  CookieInv'
  <1>1. ASSUME NEW b \in Browsers, jar'[b].auth # None PROVE jar'[b].auth = jar[b].auth
    BY <1>1 DEF JarsDrop
  <1> QED
    BY <1>1 DEF CookieInv

LEMMA RepliesStep ==
  ASSUME FreshInv, CookieInv, NEW c \in Calls, Replies(c)
  PROVE  CookieInv'
  <1> DEFINE x == call[c].token
  <1>0. TypeInv /\ Requests /\ Jars /\ jar' = jar
    BY DEF FreshInv, GInv, Replies
  <1>1. \A jwt \in jwts : jwt.check # x
    BY DEF FreshInv, HotInv, Replies, ReplyTokens, Hot
  <1>2. \A b \in Browsers : jar[b].auth # None => jar[b].auth.check # x
    BY <1>0, <1>1 DEF Jars
  <1>3. \A d \in Calls : Carrying(http[d]) => http[d].cookie.check # x
    BY <1>0, <1>1 DEF Requests, RequestOK, Carrying
  <1>4. http'[c].cookie.check = x
    <2>1. http'[c].cookie = [sub |-> call[c].user, check |-> x]
      BY <1>0, RepliedHttp
    <2> QED
      BY <2>1
  <1>5. \A d \in Calls : d # c => http'[d] = http[d]
    BY <1>0, RepliedHttp
  <1> HIDE DEF x
  <1>6. ASSUME NEW b \in Browsers, NEW d \in Calls, jar[b].auth # None, Carrying(http'[d])
        PROVE  jar[b].auth.check # http'[d].cookie.check
    BY <1>2, <1>4, <1>5, <1>6 DEF CookieInv
  <1>7. ASSUME NEW d \in Calls, NEW e \in Calls, Carrying(http'[d]), Carrying(http'[e]),
               http'[d].cookie.check = http'[e].cookie.check
        PROVE  d = e
    BY <1>3, <1>4, <1>5, <1>7 DEF CookieInv
  <1> QED
    BY <1>0, <1>6, <1>7 DEF CookieInv

LEMMA ReceiveStep ==
  ASSUME FreshInv, CookieInv, NEW c \in Calls, Receive(c)
  PROVE  CookieInv'
  <1> DEFINE b0 == http[c].browser
  <1>0. Requests /\ Jars
    BY DEF FreshInv, GInv
  <1>1. /\ http'[c] = NoRequest
        /\ \A d \in Calls : d # c => http'[d] = http[d]
    BY <1>0, ReceivedHttp
  <1>2. ~Carrying(NoRequest)
    BY DEF Carrying, NoRequest
  <1>3. \A d \in Calls : Carrying(http'[d]) => d # c /\ Carrying(http[d]) /\ http'[d] = http[d]
    BY <1>1, <1>2
  <1>4. b0 \in Browsers /\ http[c].pc = "answered"
    BY <1>0 DEF Requests, RequestOK, Receive
  <1>5. \A b \in Browsers : jar'[b] = IF b = b0 THEN CookiesAfter(c) ELSE jar[b]
    BY <1>0, <1>4 DEF Jars, Receive
  <1>6. \/ CookiesAfter(c).auth \in {jar[b0].auth, None}
        \/ Carrying(http[c]) /\ CookiesAfter(c).auth = http[c].cookie
    BY <1>4 DEF CookiesAfter, SessionCookies, NoCookies, Carrying, CookieRoutes
  <1> HIDE DEF b0
  <1>7. CASE CookiesAfter(c).auth \in {jar[b0].auth, None}
    BY <1>3, <1>5, <1>7, CookiesKept DEF JarsDrop
  <1>8. CASE Carrying(http[c]) /\ CookiesAfter(c).auth = http[c].cookie
    <2>1. ASSUME NEW b \in Browsers, NEW d \in Browsers, jar'[b].auth # None,
                 jar'[d].auth # None, jar'[b].auth.check = jar'[d].auth.check
          PROVE  b = d
      BY <1>5, <1>8, <2>1 DEF CookieInv
    <2>2. ASSUME NEW b \in Browsers, NEW d \in Calls, jar'[b].auth # None, Carrying(http'[d])
          PROVE  jar'[b].auth.check # http'[d].cookie.check
      BY <1>3, <1>5, <1>8, <2>2 DEF CookieInv
    <2>3. ASSUME NEW d \in Calls, NEW e \in Calls, Carrying(http'[d]), Carrying(http'[e]),
                 http'[d].cookie.check = http'[e].cookie.check
          PROVE  d = e
      BY <1>3, <2>3 DEF CookieInv
    <2> QED
      BY <2>1, <2>2, <2>3 DEF CookieInv
  <1> QED
    BY <1>6, <1>7, <1>8

LEMMA CookieStep == FreshInv /\ CookieInv /\ [GNext]_gvars => CookieInv'
  <1> SUFFICES ASSUME FreshInv, CookieInv, [GNext]_gvars PROVE CookieInv'
    OBVIOUS
  <1>0. GInv /\ SentInv /\ Requests
    BY DEF FreshInv, GInv
  <1>1. CASE Quiet /\ JarsDrop
    BY <1>1, CookiesKept DEF Quiet, Carrying, Succeeded
  <1>2. ASSUME NEW c \in Calls, Forwards(c) PROVE CookieInv'
    <2>1. Forward(c) /\ jar' = jar
      BY <1>2, ForwardsAreForwarded DEF Forward
    <2>2. \A d \in Calls : Carrying(http'[d]) => http'[d] = http[d]
      BY <1>0, <2>1, ForwardedHttp DEF Carrying
    <2> QED
      BY <2>1, <2>2, CookiesKept DEF JarsDrop
  <1>3. ASSUME NEW c \in Calls, Finishes(c) PROVE CookieInv'
    <2>1. \A d \in Calls : Carrying(http'[d]) => http'[d] = http[d]
      BY <1>0, <1>3, FinishedHttp DEF Carrying, CookieRoutes
    <2> QED
      BY <1>3, <2>1, CookiesKept DEF JarsDrop, Finishes
  <1> QED
    BY <1>0, <1>1, <1>2, <1>3, StepDelivery, RepliesStep, ReceiveStep

LEMMA CookieInit == GInit => CookieInv /\ SentInv
  BY DEF GInit, CookieInv, SentInv, Carrying, NoRequest, NoCookies

\* However logins and revalidations of a user overlap, and in whatever order their
\* responses arrive, two browsers never both hold the refresh token that is accepted.
THEOREM SingleDeviceHolds == GSpec => []SingleDevice
  <1> DEFINE Inv == FreshInv /\ CookieInv
  <1>1. GInit => Inv
    BY GTypeInit, CookieInit, HotInit, SessionInit DEF GInit, FreshInv
  <1>2. Inv /\ [GNext]_gvars => Inv'
    <2> SUFFICES ASSUME Inv, [GNext]_gvars PROVE Inv'
      OBVIOUS
    <2>1. GInv /\ TypeInv /\ [Next]_vars
      BY StepRefined DEF FreshInv, GInv
    <2>2. GInv' /\ SessionInv' /\ HotInv' /\ SentInv'
      BY <2>1, GTypeStep, SessionStep, HotInvStep, SentStep DEF FreshInv
    <2> QED
      BY <2>2, CookieStep DEF FreshInv
  <1>3. Inv => SingleDevice
    BY DEF CookieInv, SingleDevice, Current
  <1> HIDE DEF Inv
  <1> QED
    BY <1>1, <1>2, <1>3, PTL DEF GSpec

--------------------------------------------------------------------------------
(* After a logout.                                                           *)

(* Only a forwarded login begins a call at its rotation. *)
LEMMA LoginsAreForwarded ==
  ASSUME GInv, [GNext]_gvars, NEW d \in Calls, LogsInAt(d)
  PROVE  /\ call[d].pc = "idle" /\ call'[d].pc = "rotate" /\ call'[d].user = http[d].user
         /\ http[d].route = "login" /\ http[d].password = authUser[http[d].user].hash
  <1>0. TypeInv
    BY DEF GInv
  <1>1. PICK u \in Users, password \in Passwords : LoginUser(d, u, password)
    BY DEF LogsInAt
  <1>2. call[d].pc = "idle" /\ call'[d].pc = "rotate"
    <2>1. PICK x : Goto(d, [NoCall EXCEPT !.pc = "rotate", !.user = u,
                                          !.row = authUser[u], !.token = x])
      BY <1>1 DEF LoginUser
    <2>2. [NoCall EXCEPT !.pc = "rotate", !.user = u,
                         !.row = authUser[u], !.token = x].pc = "rotate"
      BY DEF NoCall
    <2> QED
      BY <1>0, <1>1, <2>1, <2>2 DEF TypeInv, TypeOK, Goto, LoginUser, Accepts
  <1>3. ASSUME NEW c \in Calls, Forwards(c), Request(c) PROVE Forwards(d)
    BY <1>0, <1>2, <1>3, CallsAlone
  <1>4. ASSUME NEW c \in Calls, HandlerStep(c) \/ HandlerFails(c) PROVE FALSE
    <2>1. Continue(c) \/ CommandFails(c)
      BY <1>4 DEF HandlerStep, HandlerFails
    <2>2. c = d
      BY <1>0, <1>2, <2>1, CallsAlone
    <2>3. ~Continue(d)
      BY <1>0, <1>2, RotationGoesOn DEF Rotation
    <2>4. CommandFails(d) => call'[d].pc # "rotate"
      <3>1. call[d].todo = {} /\ call[d].found = {}
        BY <1>0, <1>2 DEF TypeInv, CallOK
      <3> QED
        BY <1>2, <3>1 DEF CommandFails
    <2> QED
      BY <1>2, <2>1, <2>2, <2>3, <2>4
  <1>5. ASSUME NEW c \in Calls, ForwardLogout(c) PROVE call' = call
    BY <1>5 DEF ForwardLogout, LogoutUser
  <1>6. ASSUME Crash \/ \E x \in Uuids : Expire(x) PROVE FALSE
    BY <1>2, <1>6 DEF Crash, Expire, NoCall
  <1>7. Forwards(d)
    BY <1>2, <1>3, <1>4, <1>5, <1>6, StepKinds DEF vars
  <1>8. ~ForwardVerify(d) /\ ~ForwardRecover(d) /\ ~ForwardReset(d) /\ ~ForwardRevalidate(d)
    <2>1. ASSUME NEW s, Goto(d, s) PROVE s.pc = "rotate"
      BY <1>0, <1>2, <2>1 DEF TypeInv, TypeOK, Goto
    <2>2. ~ForwardVerify(d)
      <3>1. [NoCall EXCEPT !.pc = "verify", !.user = http[d].user,
                           !.row = authUser[http[d].user]].pc = "verify"
        BY DEF NoCall
      <3> QED
        BY <2>1, <3>1 DEF ForwardVerify, VerifyAccount
    <2>3. ~ForwardRecover(d)
      <3>1. [NoCall EXCEPT !.pc = "recover", !.user = http[d].user].pc = "recover"
        BY DEF NoCall
      <3> QED
        BY <2>1, <3>1 DEF ForwardRecover, RecoverCredentials
    <2>4. ~ForwardReset(d)
      <3>1. ASSUME NEW r
            PROVE  [NoCall EXCEPT !.pc = "findUser", !.user = r.userId,
                      !.token = http[d].token, !.password = http[d].password].pc = "findUser"
        BY DEF NoCall
      <3> QED
        BY <2>1, <3>1 DEF ForwardReset, ResetUserPassword
    <2>5. ~ForwardRevalidate(d)
      <3> DEFINE jwt == http[d].cookie
      <3>1. [NoCall EXCEPT !.pc = "validate", !.user = jwt.sub,
                           !.row = authUser[jwt.sub], !.token = jwt.check].pc = "validate"
        BY DEF NoCall
      <3> QED
        BY <2>1, <3>1 DEF ForwardRevalidate, RevalidateUserTokens
    <2> QED
      BY <2>2, <2>3, <2>4, <2>5
  <1>9. ForwardLogin(d)
    BY <1>7, <1>8 DEF Forwards
  <1>10. PICK x : Goto(d, [NoCall EXCEPT !.pc = "rotate", !.user = http[d].user,
                              !.row = authUser[http[d].user], !.token = x])
    BY <1>9 DEF ForwardLogin, LoginUser
  <1>11. [NoCall EXCEPT !.pc = "rotate", !.user = http[d].user,
             !.row = authUser[http[d].user], !.token = x].user = http[d].user
    BY DEF NoCall
  <1> QED
    BY <1>0, <1>2, <1>9, <1>10, <1>11
       DEF TypeInv, TypeOK, Goto, ForwardLogin, LoginUser, Passed

(* A request is past the role guard if it was before, or its user has an     *)
(* entry in the cache.                                                       *)
Past(r) == r.pc = "guards" /\ r.route \in {"write", "delete"} /\ r.todo = << >>

LEMMA BecomesPast ==
  ASSUME Requests, NEW c \in Calls, NEW s, Becomes(c, s), ~Past(s),
         NEW d \in Calls, Past(http'[d])
  PROVE  http'[d] = http[d]
  BY DEF Becomes, Requests

LEMMA AnsweredPast ==
  ASSUME Requests, NEW c \in Calls, NEW d \in Calls, Past(http'[d]),
         \/ \E status : Respond(c, status)
         \/ \E jwt : http' = [http EXCEPT ![c].pc = "answered", ![c].status = 200,
                                          ![c].cookie = jwt]
  PROVE  http'[d] = http[d]
  <1>0. http \in [Calls -> HttpState] /\ http[c] \in HttpState
    BY DEF Requests
  <1>1. CASE d = c
    <2>1. ASSUME NEW status, Respond(c, status) PROVE http'[c].pc = "answered"
      BY <1>0, <2>1 DEF Respond, HttpState
    <2>2. ASSUME NEW jwt, http' = [http EXCEPT ![c].pc = "answered", ![c].status = 200,
                                               ![c].cookie = jwt]
          PROVE  http'[c].pc = "answered"
      BY <1>0, <2>2 DEF HttpState
    <2> QED
      BY <1>1, <2>1, <2>2 DEF Past
  <1>2. CASE d # c
    <2>1. ASSUME NEW status, Respond(c, status) PROVE http'[d] = http[d]
      BY <1>0, <1>2, <2>1 DEF Respond
    <2>2. ASSUME NEW jwt, http' = [http EXCEPT ![c].pc = "answered", ![c].status = 200,
                                               ![c].cookie = jwt]
          PROVE  http'[d] = http[d]
      BY <1>0, <1>2, <2>2
    <2> QED
      BY <2>1, <2>2
  <1> QED
    BY <1>1, <1>2

LEMMA SendPast ==
  ASSUME Requests, NEW c \in Calls, NEW b \in Browsers,
         SendCredentials(c, b) \/ SendCookie(c, b) \/ SendBearer(c, b),
         NEW d \in Calls, Past(http'[d])
  PROVE  http'[d] = http[d]
  <1>1. ASSUME NEW route, NEW request, Send(c, b, route, request),
               {"pc", "todo", "route"} \subseteq DOMAIN request
        PROVE  http'[d] = http[d]
    <2> DEFINE s == [request EXCEPT !.pc = "guards", !.browser = b, !.route = route,
                                    !.todo = Guards[route], !.csrf = jar[b].csrf]
    <2>1. s.route = route /\ s.todo = Guards[route]
      BY <1>1
    <2>2. Becomes(c, s)
      BY <1>1 DEF Send, Becomes
    <2> HIDE DEF s
    <2>3. ~Past(s)
      BY <2>1, RoutesOfGuards, TailsOfGuards DEF Past
    <2> QED
      BY <2>2, <2>3, BecomesPast
  <1>2. {"pc", "todo", "route"} \subseteq DOMAIN NoRequest
    BY DEF NoRequest
  <1> HIDE DEF NoRequest
  <1>3. CASE Send(c, b, "signup", NoRequest)
    BY <1>1, <1>2, <1>3
  <1>4. ASSUME NEW u, NEW password,
               Send(c, b, "login", [NoRequest EXCEPT !.user = u, !.password = password])
        PROVE  http'[d] = http[d]
    <2> DEFINE q == [NoRequest EXCEPT !.user = u, !.password = password]
    <2>1. {"pc", "todo", "route"} \subseteq DOMAIN q /\ Send(c, b, "login", q)
      BY <1>2, <1>4
    <2> HIDE DEF q
    <2> QED
      BY <1>1, <2>1
  <1>5. ASSUME NEW u, NEW route, Send(c, b, route, [NoRequest EXCEPT !.user = u])
        PROVE  http'[d] = http[d]
    BY <1>1, <1>2, <1>5
  <1>6. ASSUME NEW m, NEW password,
               Send(c, b, "reset", [NoRequest EXCEPT !.token = m.token, !.password = password])
        PROVE  http'[d] = http[d]
    <2> DEFINE q == [NoRequest EXCEPT !.token = m.token, !.password = password]
    <2>1. {"pc", "todo", "route"} \subseteq DOMAIN q /\ Send(c, b, "reset", q)
      BY <1>2, <1>6
    <2> HIDE DEF q
    <2> QED
      BY <1>1, <2>1
  <1>7. ASSUME NEW route, Send(c, b, route, [NoRequest EXCEPT !.cookie = jar[b].auth])
        PROVE  http'[d] = http[d]
    BY <1>1, <1>2, <1>7
  <1>8. ASSUME NEW route, NEW bearer, Send(c, b, route, [NoRequest EXCEPT !.bearer = bearer])
        PROVE  http'[d] = http[d]
    BY <1>1, <1>2, <1>8
  <1>9. CASE SendCredentials(c, b)
    BY <1>3, <1>4, <1>5, <1>6, <1>9 DEF SendCredentials
  <1>10. CASE SendCookie(c, b)
    BY <1>7, <1>10 DEF SendCookie
  <1>11. CASE SendBearer(c, b)
    BY <1>8, <1>11 DEF SendBearer
  <1> QED
    BY <1>9, <1>10, <1>11

LEMMA GuardPast ==
  ASSUME Requests, NEW c \in Calls,
         ThrottlerGuard(c) \/ JwtAuthGuard(c) \/ CsrfGuard(c) \/ UserRoleGuard(c),
         NEW d \in Calls, Past(http'[d])
  PROVE  http'[d] = http[d] \/ HasEntry(http'[d].user)
  <1>0. /\ http \in [Calls -> HttpState] /\ http[c] \in HttpState
        /\ http[c].pc = "guards" => GuardsLeft(http[c])
    BY DEF Requests, RequestOK
  <1>1. ASSUME NEW status, Respond(c, status) PROVE http'[d] = http[d]
    BY <1>1, AnsweredPast
  <1>2. CASE d # c
    BY <1>0, <1>2 DEF ThrottlerGuard, JwtAuthGuard, CsrfGuard, UserRoleGuard, Respond, Pass
  <1>3. ASSUME Runs("jwt", c) \/ Runs("csrf", c), d = c,
               http'[c].route = http[c].route, http'[c].todo = Tail(http[c].todo)
        PROVE  FALSE
    <2>1. http[c].route \in {"write", "delete"}
      BY <1>3 DEF Past
    <2>2. http[c].todo \in {<<"jwt", "csrf", "role">>, <<"csrf", "role">>, <<"role">>, << >>}
      BY <1>0, <1>3, <2>1 DEF GuardsLeft, Runs
    <2>3. Head(http[c].todo) \in {"jwt", "csrf"} /\ http[c].todo # << >>
      BY <1>3 DEF Runs
    <2>4. http[c].todo # <<"role">>
      BY <2>3, TailsOfGuards
    <2>5. Tail(http[c].todo) # << >>
      BY <2>2, <2>3, <2>4, TailsOfGuards
    <2> QED
      BY <1>3, <2>5 DEF Past
  <1>4. ASSUME Pass(c)
        PROVE  /\ http'[c].route = http[c].route /\ http'[c].user = http[c].user
               /\ http'[c].todo = Tail(http[c].todo)
    BY <1>0, <1>4 DEF Pass, HttpState
  <1>5. CASE ThrottlerGuard(c)
    BY <1>1, <1>5 DEF ThrottlerGuard
  <1>6. CASE JwtAuthGuard(c) /\ d = c
    <2>1. CASE http' = [http EXCEPT ![c].todo = Tail(http[c].todo), ![c].user = http[c].bearer]
      <3>1. http'[c].route = http[c].route /\ http'[c].todo = Tail(http[c].todo)
        BY <1>0, <2>1 DEF HttpState
      <3> QED
        BY <1>3, <1>6, <3>1 DEF JwtAuthGuard
    <2> QED
      BY <1>1, <1>6, <2>1 DEF JwtAuthGuard
  <1>7. CASE CsrfGuard(c) /\ d = c
    BY <1>1, <1>3, <1>4, <1>7 DEF CsrfGuard
  <1>8. CASE UserRoleGuard(c) /\ d = c
    BY <1>1, <1>4, <1>8 DEF UserRoleGuard
  <1> QED
    BY <1>2, <1>5, <1>6, <1>7, <1>8

LEMMA PastStep ==
  ASSUME GInv, [GNext]_gvars, NEW d \in Calls, Past(http'[d])
  PROVE  http'[d] = http[d] \/ HasEntry(http'[d].user)
  <1>0. Requests
    BY DEF GInv
  <1>1. ASSUME NEW c \in Calls, NEW status, Respond(c, status) PROVE http'[d] = http[d]
    BY <1>0, <1>1, AnsweredPast
  <1>2. ASSUME NEW c \in Calls, Receive(c) \/ Abandon(c) PROVE http'[d] = http[d]
    <2>1. Becomes(c, NoRequest) /\ ~Past(NoRequest)
      BY <1>2 DEF Receive, Abandon, Becomes, Past, NoRequest
    <2> QED
      BY <1>0, <2>1, BecomesPast
  <1>3. ASSUME NEW c \in Calls, Forwards(c) PROVE http'[d] = http[d]
    BY <1>0, <1>3, ForwardsAreForwarded, ForwardedHttp DEF Past
  <1>4. ASSUME NEW c \in Calls, HandlerStep(c) PROVE http'[d] = http[d]
    <2>1. CASE http' = [http EXCEPT ![c].pc = "answered", ![c].status = 200,
                          ![c].cookie = [sub |-> call[c].user, check |-> call[c].token]]
      BY <1>0, <2>1, AnsweredPast
    <2>2. CASE http' = http
      BY <2>2
    <2> HIDE DEF Respond
    <2> QED
      BY <1>1, <1>4, <2>1, <2>2 DEF HandlerStep, Answer
  <1>5. ASSUME NEW c \in Calls, HandlerFails(c) PROVE http'[d] = http[d]
    BY <1>1, <1>5 DEF HandlerFails
  <1>6. ASSUME NEW c \in Calls,
               \/ ValidationPipe(c) \/ EmitSignup(c) \/ RefuseWithoutCookie(c)
               \/ FirstCommandFails(c) \/ RefusedByHandler(c) \/ RefusedCode(c)
               \/ ForwardLogout(c) \/ ForwardToMainApi(c)
        PROVE  http'[d] = http[d]
    BY <1>1, <1>6 DEF ValidationPipe, EmitSignup, RefuseWithoutCookie, FirstCommandFails,
       RefusedByHandler, RefusedCode, ForwardLogout, ForwardToMainApi
  <1>7. CASE Environment
    BY <1>5, <1>6, <1>7 DEF Environment, CookiesExpire
  <1>8. ASSUME NEW c \in Calls, Serve(c)
        PROVE  http'[d] = http[d] \/ HasEntry(http'[d].user)
    BY <1>0, <1>2, <1>3, <1>4, <1>6, <1>8, GuardPast DEF Serve, Forwards
  <1>9. ASSUME NEW c \in Calls, NEW b \in Browsers,
               SendCredentials(c, b) \/ SendCookie(c, b) \/ SendBearer(c, b)
        PROVE  http'[d] = http[d]
    BY <1>0, <1>9, SendPast
  <1> QED
    BY <1>2, <1>7, <1>8, <1>9 DEF GNext, gvars

LEMMA LogoutStep ==
  ASSUME GInv, [GNext]_gvars
  PROVE  LogoutKept
  <1> SUFFICES ASSUME NEW u \in Users, LoggedOut(u), ~\E c \in Calls : LogsIn(c, u)
               PROVE  LoggedOut(u)'
    BY DEF LogoutKept
  <1>0. TypeInv /\ [Next]_vars
    BY StepRefined DEF GInv
  <1>1. cache'[u] = None
    BY <1>0, EntriesAreInserted DEF LoggedOut
  <1>2. ASSUME NEW d \in Calls, call'[d].user = u, call'[d].pc \in {"rotate", "insert"}
        PROVE  FALSE
    <2>1. Stays(d) \/ Validated(d) \/ LogsInAt(d)
      BY <1>0, <1>2, HotStep DEF Hot
    <2>2. CASE Stays(d)
      BY <1>2, <2>2 DEF Stays, Hot, LoggedOut
    <2>3. CASE Validated(d)
      <3>1. call[d].token \in Uuids /\ call[d].token # None
        BY <1>0, <2>3, AuthAssumption DEF TypeInv, CallOK, Validated
      <3> QED
        BY <1>2, <2>3, <3>1 DEF Validated, LoggedOut
    <2>4. CASE LogsInAt(d)
      BY <1>2, <2>4, LoginsAreForwarded DEF LogsIn
    <2> QED
      BY <2>1, <2>2, <2>3, <2>4
  <1>3. ASSUME NEW d \in Calls, http'[d].user = u, Past(http'[d])
        PROVE  FALSE
    BY <1>3, PastStep DEF LoggedOut, Past, HasEntry
  <1> QED
    BY <1>1, <1>2, <1>3 DEF LoggedOut, Past

\* Once a session is over, only a login with the password opens the role-guarded
\* routes again, whatever access tokens and cookies are still about.
THEOREM LogoutShutsOutHolds == GSpec => LogoutShutsOut
  <1>1. GInv /\ [GNext]_gvars => [LogoutKept]_gvars
    BY LogoutStep
  <1> QED
    BY <1>1, GTypeCorrect, PTL DEF GSpec, LogoutShutsOut

--------------------------------------------------------------------------------
(* Resets that are answered with success.                                    *)

ResetAtWork(c) ==
    http[c].pc = "sent" /\ http[c].route = "reset" /\ call[c].pc # "idle" =>
        call[c].pc \in ResetPoints /\ call[c].token = http[c].token /\ Swept(c)

ResetDone(c) ==
    Succeeded(http[c]) /\ http[c].route = "reset" =>
        /\ http[c].token \in drawn
        /\ \A r \in recoveryTokens : r.token # http[c].token

ResetInv == GInv /\ SentInv /\ RecoveryInv /\ \A c \in Calls : ResetAtWork(c) /\ ResetDone(c)

(* What happens to the call of a request that is at auth-ms. *)
LEMMA CallOfSent ==
  ASSUME GInv, [GNext]_gvars, NEW c \in Calls, http[c].pc = "sent"
  PROVE  call'[c] = call[c] \/ HandlerStep(c) \/ HandlerFails(c) \/ call'[c].pc = "idle"
  <1>0. TypeInv
    BY DEF GInv
  <1>1. ASSUME NEW d \in Calls, Forwards(d), Request(d) PROVE call'[c] = call[c]
    BY <1>0, <1>1, ForwardsAreForwarded, CallsAlone
  <1>2. ASSUME NEW d \in Calls, d # c, HandlerStep(d) \/ HandlerFails(d)
        PROVE  call'[c] = call[c]
    BY <1>0, <1>2, CallsAlone DEF HandlerStep, HandlerFails
  <1>3. ASSUME NEW d \in Calls, ForwardLogout(d) PROVE call' = call
    BY <1>3 DEF ForwardLogout, LogoutUser
  <1>4. CASE Crash \/ \E x \in Uuids : Expire(x)
    BY <1>4 DEF Crash, Expire, NoCall
  <1> QED
    BY <1>1, <1>2, <1>3, <1>4, StepKinds DEF vars

LEMMA ResetGoesOn ==
  ASSUME RecoveryInv, [Next]_vars, NEW c \in Calls, Continue(c), call[c].pc \in ResetPoints,
         call'[c].pc # "idle"
  PROVE  call'[c].pc \in ResetPoints /\ call'[c].token = call[c].token
  <1>0. TypeInv /\ ResetsInv
    BY DEF RecoveryInv
  <1>1. CASE FindUserToReset(c)
    <2>1. PICK s : /\ Goto(c, s)
                   /\ s \in {NoCall, [call[c] EXCEPT !.pc = "reset",
                                         !.row = authUser[call[c].user],
                                         !.todo = {"password", "tokens", "invalidate"}]}
      BY <1>1 DEF FindUserToReset
    <2>2. /\ NoCall.pc = "idle"
          /\ [call[c] EXCEPT !.pc = "reset", !.row = authUser[call[c].user],
                !.todo = {"password", "tokens", "invalidate"}].pc = "reset"
      BY <1>0 DEF TypeInv, TypeOK, CallState, NoCall
    <2>3. call'[c] = s
      BY <1>0, <2>1 DEF TypeInv, TypeOK, Goto
    <2>4. call'[c].pc \in ResetPoints
      BY <2>1, <2>2, <2>3 DEF ResetPoints
    <2> QED
      BY <1>0, <1>1, <2>4, BeginsBranches DEF Keeps
  <1>2. ASSUME NEW todo, NEW found, Settle(c, todo, found)
        PROVE  call'[c].pc \in ResetPoints /\ call'[c].token = call[c].token
    <2> DEFINE t == [call[c] EXCEPT !.todo = todo, !.found = found]
    <2>1. t.pc = call[c].pc
      BY <1>0 DEF TypeInv, TypeOK, CallState
    <2>2. PICK s : s \in {NoCall, t} /\ Goto(c, s)
      BY <1>2 DEF Settle
    <2>3. call'[c] = s
      BY <1>0, <2>2 DEF TypeInv, TypeOK, Goto
    <2> HIDE DEF t
    <2>4. call'[c].pc \in ResetPoints
      BY <2>1, <2>2, <2>3 DEF NoCall
    <2> QED
      BY <1>0, <1>2, <2>4, ResetSettle DEF Keeps
  <1>3. FindUserToReset(c) \/ \E todo, found : Settle(c, todo, found)
    BY DEF Continue, Validate, RotateInvalidate, RotateInsert, ReplyTokens, FindActiveUser,
       DeactivateUser, InvalidateBranch, UpdateUserPassword, FindRecoveryTokens,
       DeleteRecoveryToken, FindPreviousToken, DeletePreviousToken, CreateRecoveryToken,
       VerifyUserAccount, ResetPoints
  <1> QED
    BY <1>1, <1>2, <1>3

(* A request that stays at auth-ms. *)
LEMMA ResetStaysAtWork ==
  ASSUME ResetInv, [GNext]_gvars, [Next]_vars, NEW c \in Calls,
         http[c].pc = "sent", http'[c] = http[c]
  PROVE  ResetAtWork(c)'
  <1> SUFFICES ASSUME http[c].route = "reset", call'[c].pc # "idle"
               PROVE  /\ call'[c].pc \in ResetPoints /\ call'[c].token = http[c].token
                      /\ Swept(c)'
    BY DEF ResetAtWork
  <1>0. GInv /\ RecoveryInv /\ TypeInv /\ Requests /\ ResetAtWork(c)
    BY DEF ResetInv, GInv
  <1>1. CASE call'[c] = call[c]
    BY <1>0, <1>1, SweptOthers DEF ResetAtWork
  <1>2. CASE HandlerStep(c)
    <2>1. Continue(c)
      BY <1>2 DEF HandlerStep
    <2>2. call[c].pc # "idle"
      BY <1>0, <2>1, RotationGoesOn DEF Rotation
    <2> QED
      BY <1>0, <2>1, <2>2, SweptContinue, ResetGoesOn DEF ResetAtWork
  <1>3. ASSUME HandlerFails(c) PROVE FALSE
    <2>1. PICK status : Respond(c, status)
      BY <1>3 DEF HandlerFails
    <2>2. http'[c].pc = "answered"
      BY <1>0, <2>1 DEF Respond, Requests, HttpState
    <2> QED
      BY <2>2
  <1> QED
    BY <1>0, <1>1, <1>2, <1>3, CallOfSent

(* A reset begins at auth-ms. *)
LEMMA ResetForwarded ==
  ASSUME ResetInv, NEW c \in Calls, Forwards(c), http'[c].route = "reset"
  PROVE  ResetAtWork(c)'
  <1>0. TypeInv /\ Requests
    BY DEF ResetInv, GInv
  <1>1. Forward(c)
    BY ForwardsAreForwarded
  <1>2. http[c].route = "reset" /\ http'[c].token = http[c].token
    BY <1>0, <1>1 DEF Forward, Requests, HttpState
  <1>3. ResetUserPassword(c, http[c].token, http[c].password)
    BY <1>2 DEF Forwards, ForwardLogin, ForwardVerify, ForwardRecover, ForwardReset,
       ForwardRevalidate, Passed
  <1>4. PICK r : Goto(c, [NoCall EXCEPT !.pc = "findUser", !.user = r.userId,
                             !.token = http[c].token, !.password = http[c].password])
    BY <1>3 DEF ResetUserPassword
  <1> DEFINE t == [NoCall EXCEPT !.pc = "findUser", !.user = r.userId,
                      !.token = http[c].token, !.password = http[c].password]
  <1>5. t.pc = "findUser" /\ t.token = http[c].token
    BY DEF NoCall
  <1>6. call'[c] = t
    BY <1>0, <1>4 DEF TypeInv, TypeOK, Goto
  <1> HIDE DEF t
  <1> QED
    BY <1>2, <1>5, <1>6 DEF ResetAtWork, Swept, ResetPoints

(* Nothing brings the row of a reset back. *)
LEMMA ResetStaysDone ==
  ASSUME ResetInv, [Next]_vars, NEW c \in Calls, http'[c] = http[c]
  PROVE  ResetDone(c)'
  <1>0. RecoveryInv /\ TypeInv /\ ResetDone(c)
    BY DEF ResetInv, GInv
  <1>1. drawn \subseteq drawn'
    BY <1>0, TableStep DEF Shrinks, Adds, Draw
  <1> QED
    BY <1>0, <1>1, RowsOfResets DEF ResetDone

LEMMA ResetFinishes ==
  ASSUME ResetInv, [Next]_vars, NEW c \in Calls, Finishes(c)
  PROVE  ResetDone(c)'
  <1>0. RecoveryInv /\ TypeInv /\ Requests /\ ResetAtWork(c)
    BY DEF ResetInv, GInv
  <1>1. Continue(c) /\ http[c].pc = "sent" /\ http[c].route = "reset"
    BY DEF Finishes
  <1>2. call[c].pc # "idle"
    BY <1>0, <1>1, RotationGoesOn DEF Rotation
  <1>3. call[c].pc \in ResetPoints /\ call[c].token = http[c].token /\ Swept(c)
    BY <1>0, <1>1, <1>2 DEF ResetAtWork
  <1>4. call[c].pc # "findUser"
    <2> SUFFICES ASSUME call[c].pc = "findUser" PROVE FALSE
      OBVIOUS
    <2>1. Thrown(c) = cannotPerformAction(authUser[call[c].user])
      BY DEF Finishes, Thrown
    <2>2. userCanPerformAction(authUser[call[c].user])
      BY <2>1, GatewayAssumption, KnownExceptions
         DEF Finishes, cannotPerformAction, userCanPerformAction
    <2>3. FindUserToReset(c)
      <3>1. call[c].todo = {} /\ call[c].found = {}
        BY <1>0 DEF TypeInv, CallOK
      <3> QED
        BY <1>1, <3>1 DEF Continue, Validate, RotateInvalidate, RotateInsert, ReplyTokens,
           FindActiveUser, DeactivateUser, InvalidateBranch, UpdateUserPassword,
           FindRecoveryTokens, FindPreviousToken, DeletePreviousToken, CreateRecoveryToken,
           VerifyUserAccount
    <2>4. call'[c] = [call[c] EXCEPT !.pc = "reset", !.row = authUser[call[c].user],
                        !.todo = {"password", "tokens", "invalidate"}]
      BY <1>0, <2>2, <2>3 DEF TypeInv, TypeOK, Goto, FindUserToReset
    <2>5. [call[c] EXCEPT !.pc = "reset", !.row = authUser[call[c].user],
              !.todo = {"password", "tokens", "invalidate"}].pc = "reset"
      BY <1>0 DEF TypeInv, TypeOK, CallState
    <2> QED
      BY <2>4, <2>5 DEF Finishes
  <1>5. call[c].pc = "reset" /\ call'[c].pc = "idle"
    BY <1>3, <1>4 DEF ResetPoints, Finishes
  <1>6. Gone(c)
    BY <1>0, <1>1, <1>3, <1>5, SweptContinue
  <1>7. call[c].token \in drawn
    BY <1>0, <1>3, TokenOfReset
  <1>8. drawn \subseteq drawn'
    BY <1>0, TableStep DEF Shrinks, Adds, Draw
  <1>9. http'[c].token = http[c].token
    BY <1>0, FinishedHttp
  <1> QED
    BY <1>3, <1>6, <1>7, <1>8, <1>9 DEF ResetDone, Gone

LEMMA ResetInvStep == ResetInv /\ [GNext]_gvars => ResetInv'
  <1> SUFFICES ASSUME ResetInv, [GNext]_gvars PROVE ResetInv'
    OBVIOUS
  <1>0. GInv /\ SentInv /\ RecoveryInv /\ TypeInv /\ Requests
    BY DEF ResetInv, GInv
  <1>1. [Next]_vars
    BY <1>0, StepRefined
  <1>2. GInv' /\ SentInv' /\ RecoveryInv'
    BY <1>0, <1>1, GTypeStep, SentStep, TypeStep, RowsStep, ResetsStep DEF RecoveryInv
  <1>3. ASSUME NEW c \in Calls PROVE ResetAtWork(c)' /\ ResetDone(c)'
    <2>1. CASE http'[c] = http[c]
      <3>1. ResetDone(c)'
        BY <1>1, <2>1, ResetStaysDone
      <3>2. ResetAtWork(c)'
        BY <1>1, <2>1, ResetStaysAtWork DEF ResetAtWork
      <3> QED
        BY <3>1, <3>2
    <2>2. CASE ~Succeeded(http'[c]) /\ http'[c].pc # "sent"
      BY <2>2 DEF ResetAtWork, ResetDone
    <2>3. CASE Quiet
      BY <2>1, <2>2, <2>3 DEF Quiet
    <2>4. ASSUME NEW d \in Calls, Forwards(d) PROVE ResetAtWork(c)' /\ ResetDone(c)'
      <3>1. CASE d = c
        <4>1. http'[c].pc = "sent"
          BY <1>0, <2>4, <3>1, ForwardsAreForwarded, ForwardedHttp
        <4> QED
          BY <2>4, <3>1, <4>1, ResetForwarded DEF ResetDone, Succeeded, ResetAtWork
      <3>2. CASE d # c
        BY <1>0, <2>1, <2>4, <3>2, ForwardsAreForwarded, ForwardedHttp
      <3> QED
        BY <3>1, <3>2
    <2>5. ASSUME NEW d \in Calls, Replies(d) PROVE ResetAtWork(c)' /\ ResetDone(c)'
      <3>1. CASE d = c
        <4>1. http'[c].pc = "answered" /\ http'[c].route = http[c].route
          BY <1>0, <2>5, <3>1 DEF Replies, Requests, HttpState
        <4>2. http[c].route # "reset"
          BY <2>5, <3>1 DEF ResetInv, ResetAtWork, Replies, ReplyTokens, ResetPoints
        <4> QED
          BY <4>1, <4>2 DEF ResetAtWork, ResetDone
      <3>2. CASE d # c
        BY <1>0, <2>1, <2>5, <3>2, RepliedHttp
      <3> QED
        BY <3>1, <3>2
    <2>6. ASSUME NEW d \in Calls, Finishes(d) PROVE ResetAtWork(c)' /\ ResetDone(c)'
      <3>1. CASE d = c
        <4>1. http'[c].pc = "answered"
          BY <1>0, <2>6, <3>1, FinishedHttp
        <4> QED
          BY <1>1, <2>6, <3>1, <4>1, ResetFinishes DEF ResetAtWork
      <3>2. CASE d # c
        BY <1>0, <2>1, <2>6, <3>2, FinishedHttp
      <3> QED
        BY <3>1, <3>2
    <2>7. ASSUME NEW d \in Calls, Receive(d) PROVE ResetAtWork(c)' /\ ResetDone(c)'
      BY <1>0, <2>1, <2>2, <2>7, ReceivedHttp DEF Succeeded, NoRequest
    <2> QED
      BY <1>0, <2>3, <2>4, <2>5, <2>6, <2>7, StepDelivery
  <1> QED
    BY <1>2, <1>3 DEF ResetInv

\* A reset answered with success has used its recovery token up, whatever branches of
\* other calls fail, and the token does not come back.
THEOREM ResetAnsweredHolds == GSpec => []ResetAnswered
  <1>1. GInit => ResetInv
    BY GTypeInit, CookieInit, TypeInit, RecoveryInit
       DEF GInit, ResetInv, RecoveryInv, ResetAtWork, ResetDone, Succeeded, NoRequest
  <1>2. ResetInv => ResetAnswered
    BY DEF ResetInv, ResetDone, ResetAnswered, Succeeded
  <1> QED
    BY <1>1, <1>2, ResetInvStep, PTL DEF GSpec

================================================================================
