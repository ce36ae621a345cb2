------------------------------ MODULE AuthService ------------------------------
(***************************************************************************)
(* The handlers of auth-ms that read and write credentials: login,         *)
(* revalidation, logout, revocation, credential recovery, password reset   *)
(* and account verification (apps/auth-ms/src/resources/auth).             *)
(*                                                                         *)
(* Two stores are shared by every handler: the auth database (the tables   *)
(* auth_user and recovery_token) and the Redis cache that holds, per user, *)
(* the hash of the one refresh token the service accepts.  A handler is an *)
(* async function: it holds the rows it has read across its awaits while   *)
(* other calls run.  A call is therefore a small process with one action   *)
(* per database or cache command; what it computes in between is local and *)
(* belongs to the action before.  A branch of Promise.all is an entry of   *)
(* the call's set of outstanding work, taken in any order.                 *)
(*                                                                         *)
(* A bcrypt hash is identified with the value it was computed from, and a  *)
(* signed refresh token with its payload (sub, check).  A call that is     *)
(* refused before it wrote anything leaves no trace and is not a step.     *)
(***************************************************************************)
EXTENDS Naturals, FiniteSets

CONSTANTS
    Users,       \* ids of the rows of auth_user
    SysAdmins,   \* the users whose roles include SYS_ADMIN
    Admins,      \* the users whose roles include ADMIN
    Calls,       \* handler invocations that can be in flight at the same time
    Uuids,       \* values of generateRandomUUID
    Passwords,   \* passwords of users
    MaxDraws,    \* bound: random values drawn in a behaviour
    Operations,  \* the message patterns of auth.controller.ts that clients send
    Faults,      \* what may go wrong: "error", "crash", "expiry"
    None         \* absence of a value

ASSUME AuthAssumption ==
    /\ SysAdmins \subseteq Users
    /\ Admins \subseteq Users
    /\ None \notin Users \cup Uuids \cup Passwords
    /\ MaxDraws \in Nat

VARIABLES
    authUser,        \* table auth_user: what the handlers read of each row
    recoveryTokens,  \* table recovery_token
    cache,           \* Redis: hash of the refresh token accepted for each user, or None
    call,            \* local state of every handler invocation
    jwts,            \* payloads of the refresh tokens delivered to clients
    mailed,          \* recovery tokens sent by mail, with their addressee
    drawn,           \* random values drawn so far
    expired,         \* refresh and recovery tokens past their lifetime
    spent            \* history: refresh tokens that were in the cache and left it

vars == <<authUser, recoveryTokens, cache, call, jwts, mailed, drawn, expired, spent>>

AuthUser == [verified : BOOLEAN, active : BOOLEAN, hash : Passwords]
RecoveryToken == [token : Uuids, userId : Users]
RefreshToken == [sub : Users, check : Uuids]

(* The awaits a call can be suspended at.  "revoke" and "reset" are the two *)
(* Promise.all; their branches are named in todo.                           *)
Points == {"idle", "validate", "rotate", "insert", "reply", "verify", "revoke",
           "recover", "delete", "create", "findUser", "reset"}
Branches == {"find", "deactivate", "password", "tokens", "invalidate"}

CallState ==
    [ pc       : Points,
      user     : Users \cup {None},
      row      : AuthUser \cup {None},    \* the entity read from the database
      token    : Uuids \cup {None},       \* the refresh or recovery token at hand
      password : Passwords \cup {None},   \* the new password of a reset
      todo     : SUBSET Branches,         \* branches of Promise.all not settled
      found    : SUBSET Uuids ]           \* recovery tokens still to be deleted

NoCall == [ pc |-> "idle", user |-> None, row |-> None, token |-> None,
            password |-> None, todo |-> {}, found |-> {} ]

--------------------------------------------------------------------------------
(* Accounts exist (signup belongs to another module), verified or not; nobody *)
(* is logged in.                                                              *)
Init ==
    /\ authUser \in [Users -> {r \in AuthUser : r.active}]
    /\ recoveryTokens = {}
    /\ cache = [u \in Users |-> None]
    /\ call = [c \in Calls |-> NoCall]
    /\ jwts = {}
    /\ mailed = {}
    /\ drawn = {}
    /\ expired = {}
    /\ spent = {}

database == <<authUser, recoveryTokens>>
clients == <<jwts, mailed>>

--------------------------------------------------------------------------------
(* Helpers. *)

InFlight == {c \in Calls : call[c].pc # "idle"}

\* The process serves a request on an idle call slot.
Accepts(op, c) ==
    /\ op \in Operations
    /\ call[c].pc = "idle"

\* Bound: a call that draws a random value is accepted while one is left for it
\* and for the calls in flight that have not drawn theirs yet.
DrawsLeft ==
    Cardinality(drawn)
      + Cardinality({c \in Calls : call[c].pc \in {"validate", "recover", "delete", "create"}})
    < MaxDraws

Goto(c, state) == call' = [call EXCEPT ![c] = state]

\* A Promise.all is over when every branch has settled.
Settle(c, todo, found) ==
    Goto(c, IF todo = {} /\ found = {} THEN NoCall
            ELSE [call[c] EXCEPT !.todo = todo, !.found = found])

userCanPerformAction(row) == row.active /\ row.verified

\* generateHash and checkHash: a hash stands for the value it was made from.
checkHash(input, hash) == input = hash

\* The queries of the handlers; a slug (email or username) names one user.
findOneById(u) == authUser[u]
findOneBySlug(u) == authUser[u]
getRecoveryToken(token) == {r \in recoveryTokens : r.token = token}

\* Redis GET of the user's key.
getValue(u) == cache[u]

\* The agent's own account is handled by the caller; the agent comes out of
\* the cache, where every entry is active.
checkAllowedActionOn_User(u, agent) ==
    \/ agent \in SysAdmins
    \/ agent \in Admins /\ u \notin Admins \cup SysAdmins

\* Redis DEL and SET of the user's key.
invalidate(u) ==
    /\ cache' = [cache EXCEPT ![u] = None]
    /\ spent' = spent \cup ({cache[u]} \ {None})

insert(u, check) ==
    /\ cache' = [cache EXCEPT ![u] = check]
    /\ spent' = spent \cup ({cache[u]} \ {None})

\* Mutant: random values repeat.
DrawAgain(x) ==
    /\ x \in Uuids
    /\ drawn' = drawn \cup {x}

\* generateRandomUUID
Draw(x) ==
    /\ x \in Uuids \ drawn
    /\ drawn' = drawn \cup {x}

--------------------------------------------------------------------------------
(* auth.login.user: one read of the row, checks on it, then the new tokens. *)

\* Mutants: the account is not required to be verified; it is not required to be
\* active; the refresh token is created without its random check.
LoginUnverified(c, u, password) ==
    /\ Accepts("login", c) /\ DrawsLeft
    /\ checkHash(password, findOneBySlug(u).hash)
    /\ findOneBySlug(u).active
    /\ \E x \in Uuids : Draw(x) /\ Goto(c, [NoCall EXCEPT !.pc = "rotate", !.user = u,
                                                 !.row = findOneBySlug(u), !.token = x])
    /\ UNCHANGED <<database, cache, clients, expired, spent>>

LoginInactive(c, u, password) ==
    /\ Accepts("login", c) /\ DrawsLeft
    /\ checkHash(password, findOneBySlug(u).hash)
    /\ findOneBySlug(u).verified
    /\ \E x \in Uuids : Draw(x) /\ Goto(c, [NoCall EXCEPT !.pc = "rotate", !.user = u,
                                                 !.row = findOneBySlug(u), !.token = x])
    /\ UNCHANGED <<database, cache, clients, expired, spent>>

LoginWithoutCheck(c, u, password) ==
    /\ Accepts("login", c)
    /\ checkHash(password, findOneBySlug(u).hash)
    /\ userCanPerformAction(findOneBySlug(u))
    /\ Goto(c, [NoCall EXCEPT !.pc = "rotate", !.user = u, !.row = findOneBySlug(u)])
    /\ UNCHANGED <<database, cache, clients, drawn, expired, spent>>

LoginUser(c, u, password) ==
    /\ Accepts("login", c) /\ DrawsLeft
    /\ checkHash(password, findOneBySlug(u).hash)
    /\ findOneBySlug(u).active
    /\ findOneBySlug(u).verified
    /\ \E x \in Uuids :
         /\ Draw(x)
         /\ Goto(c, [NoCall EXCEPT !.pc = "rotate", !.user = u,
                                   !.row = findOneBySlug(u), !.token = x])
    /\ UNCHANGED <<database, cache, clients, expired, spent>>

\* Mutant: the user of the token is not checked.
RevalidateAnyUser(c, jwt) ==
    /\ Accepts("revalidate", c) /\ DrawsLeft
    /\ jwt.check \notin expired
    /\ Goto(c, [NoCall EXCEPT !.pc = "validate", !.user = jwt.sub,
                              !.row = findOneById(jwt.sub), !.token = jwt.check])
    /\ UNCHANGED <<database, cache, clients, drawn, expired, spent>>

(* auth.revalidate.credentials: the row is read and checked, the presented *)
(* token is compared with the cached one, then new tokens are created.     *)
RevalidateUserTokens(c, jwt) ==
    /\ Accepts("revalidate", c) /\ DrawsLeft
    /\ jwt.check \notin expired
    /\ userCanPerformAction(findOneById(jwt.sub))
    /\ Goto(c, [NoCall EXCEPT !.pc = "validate", !.user = jwt.sub,
                              !.row = findOneById(jwt.sub), !.token = jwt.check])
    /\ UNCHANGED <<database, cache, clients, drawn, expired, spent>>

\* Mutant: the presented token is kept instead of a new one.
ValidateAndKeep(c) ==
    /\ call[c].pc = "validate"
    /\ Goto(c, IF checkHash(call[c].token, getValue(call[c].user))
               THEN [call[c] EXCEPT !.pc = "rotate"] ELSE NoCall)
    /\ UNCHANGED <<database, cache, clients, drawn, expired, spent>>

Validate(c) ==
    /\ call[c].pc = "validate"
    /\ \/ /\ checkHash(call[c].token, getValue(call[c].user))
          /\ \E x \in Uuids :
               /\ Draw(x)
               /\ Goto(c, [call[c] EXCEPT !.pc = "rotate", !.token = x])
       \/ /\ ~checkHash(call[c].token, getValue(call[c].user))
          /\ Goto(c, NoCall)
          /\ UNCHANGED drawn
    /\ UNCHANGED <<database, cache, clients, expired, spent>>

\* Mutant: the reply does not wait for the SET, which is lost.
RotateWithoutInsert(c) ==
    /\ call[c].pc = "rotate"
    /\ invalidate(call[c].user)
    /\ Goto(c, [call[c] EXCEPT !.pc = "reply"])
    /\ UNCHANGED <<database, clients, drawn, expired>>

(* rotateTokens: DEL, then SET with the row read at the start of the call. *)
RotateInvalidate(c) ==
    /\ call[c].pc = "rotate"
    /\ invalidate(call[c].user)
    /\ Goto(c, [call[c] EXCEPT !.pc = "insert"])
    /\ UNCHANGED <<database, clients, drawn, expired>>

RotateInsert(c) ==
    /\ call[c].pc = "insert"
    /\ insert(call[c].user, call[c].token)
    /\ Goto(c, [call[c] EXCEPT !.pc = "reply"])
    /\ UNCHANGED <<database, clients, drawn, expired>>

(* The reply carries the new refresh token to the client. *)
ReplyTokens(c) ==
    /\ call[c].pc = "reply"
    /\ jwts' = jwts \cup {[sub |-> call[c].user, check |-> call[c].token]}
    /\ Goto(c, NoCall)
    /\ UNCHANGED <<database, cache, mailed, drawn, expired, spent>>

(* auth.logout.user: the signature and lifetime of the token are checked, not *)
(* that it is the cached one.                                                 *)
LogoutUser(jwt) ==
    /\ "logout" \in Operations
    /\ jwt.check \notin expired
    /\ invalidate(jwt.sub)
    /\ UNCHANGED <<database, call, clients, drawn, expired>>

--------------------------------------------------------------------------------
(* auth.revoke.user.access: deactivateUser and invalidate run side by side. *)
(* Without clearance deactivateUser only fails; invalidate runs all the     *)
(* same.                                                                    *)
RevokeUserAccess(c, u, agent) ==
    /\ Accepts("revoke", c)
    /\ u # agent
    /\ Goto(c, [NoCall EXCEPT
                  !.pc = "revoke", !.user = u,
                  !.todo = {"invalidate"} \cup
                           (IF checkAllowedActionOn_User(u, agent) THEN {"find"} ELSE {})])
    /\ UNCHANGED <<database, cache, clients, drawn, expired, spent>>

FindActiveUser(c) ==
    /\ "find" \in call[c].todo
    /\ Settle(c, (call[c].todo \ {"find"}) \cup
                 (IF authUser[call[c].user].active THEN {"deactivate"} ELSE {}), {})
    /\ UNCHANGED <<database, cache, clients, drawn, expired, spent>>

DeactivateUser(c) ==
    /\ "deactivate" \in call[c].todo
    /\ authUser' = [authUser EXCEPT ![call[c].user].active = FALSE]
    /\ Settle(c, call[c].todo \ {"deactivate"}, {})
    /\ UNCHANGED <<recoveryTokens, cache, clients, drawn, expired, spent>>

(* The invalidate branch, of a revocation and of a reset alike. *)
InvalidateBranch(c) ==
    /\ "invalidate" \in call[c].todo
    /\ invalidate(call[c].user)
    /\ Settle(c, call[c].todo \ {"invalidate"}, call[c].found)
    /\ UNCHANGED <<database, clients, drawn, expired>>

--------------------------------------------------------------------------------
(* auth.recover.credentials: a previous token is deleted if one is found, a *)
(* new row is saved and its token mailed; the mail may fail.                *)
RecoverCredentials(c, u) ==
    /\ Accepts("recover", c) /\ DrawsLeft
    /\ userCanPerformAction(findOneBySlug(u))
    /\ Goto(c, [NoCall EXCEPT !.pc = "recover", !.user = u])
    /\ UNCHANGED <<database, cache, clients, drawn, expired, spent>>

FindPreviousToken(c) ==
    /\ call[c].pc = "recover"
    /\ \/ \E r \in recoveryTokens :
            /\ r.userId = call[c].user
            /\ Goto(c, [call[c] EXCEPT !.pc = "delete", !.token = r.token])
       \/ /\ \A r \in recoveryTokens : r.userId # call[c].user
          /\ Goto(c, [call[c] EXCEPT !.pc = "create"])
    /\ UNCHANGED <<database, cache, clients, drawn, expired, spent>>

DeletePreviousToken(c) ==
    /\ call[c].pc = "delete"
    /\ recoveryTokens' = {r \in recoveryTokens : r.token # call[c].token}
    /\ Goto(c, [call[c] EXCEPT !.pc = "create"])
    /\ UNCHANGED <<authUser, cache, clients, drawn, expired, spent>>

\* The mailer delivers the token to its addressee or throws.
sendRecoveryToken(r) ==
    \/ mailed' = mailed \cup {r}
    \/ Faults \cap {"error", "crash"} # {} /\ UNCHANGED mailed

CreateRecoveryToken(c) ==
    /\ call[c].pc = "create"
    /\ \E x \in Uuids :
         LET r == [token |-> x, userId |-> call[c].user] IN
         /\ Draw(x)
         /\ recoveryTokens' = recoveryTokens \cup {r}
         /\ sendRecoveryToken(r)
    /\ Goto(c, NoCall)
    /\ UNCHANGED <<authUser, cache, jwts, expired, spent>>

--------------------------------------------------------------------------------
(* auth.reset.password: the recovery token, then the user, are looked up; the *)
(* new password, the removal of the user's recovery tokens and the            *)
(* invalidation of the cached session run side by side.                       *)

\* Mutant: the query for the recovery token has no condition.
ResetByAnyRow(c, token, password) ==
    /\ Accepts("reset", c)
    /\ token \notin expired
    /\ \E r \in recoveryTokens :
         Goto(c, [NoCall EXCEPT !.pc = "findUser", !.user = r.userId,
                                !.token = token, !.password = password])
    /\ UNCHANGED <<database, cache, clients, drawn, expired, spent>>

ResetUserPassword(c, token, password) ==
    /\ Accepts("reset", c)
    /\ token \notin expired
    /\ \E r \in getRecoveryToken(token) :
         Goto(c, [NoCall EXCEPT !.pc = "findUser", !.user = r.userId,
                                !.token = token, !.password = password])
    /\ UNCHANGED <<database, cache, clients, drawn, expired, spent>>

FindUserToReset(c) ==
    /\ call[c].pc = "findUser"
    /\ LET row == findOneById(call[c].user) IN
         Goto(c, IF userCanPerformAction(row)
                 THEN [call[c] EXCEPT !.pc = "reset", !.row = row,
                                      !.todo = {"password", "tokens", "invalidate"}]
                 ELSE NoCall)
    /\ UNCHANGED <<database, cache, clients, drawn, expired, spent>>

\* A password equal to the one of the row read earlier is rejected; the other
\* branches run on.
UpdateUserPassword(c) ==
    /\ "password" \in call[c].todo
    /\ IF checkHash(call[c].password, call[c].row.hash)
       THEN UNCHANGED authUser
       ELSE authUser' = [authUser EXCEPT ![call[c].user].hash = call[c].password]
    /\ Settle(c, call[c].todo \ {"password"}, call[c].found)
    /\ UNCHANGED <<recoveryTokens, cache, clients, drawn, expired, spent>>

\* Mutant: findOne in the place of find.
FindOneRecoveryToken(c) ==
    /\ "tokens" \in call[c].todo
    /\ \E found \in SUBSET {r.token : r \in {s \in recoveryTokens : s.userId = call[c].user}} :
         /\ Cardinality(found) <= 1
         /\ (found = {} => \A r \in recoveryTokens : r.userId # call[c].user)
         /\ Settle(c, call[c].todo \ {"tokens"}, found)
    /\ UNCHANGED <<database, cache, clients, drawn, expired, spent>>

\* removeUserRecoveryTokens: one query, then a delete per row it returned.
FindRecoveryTokens(c) ==
    /\ "tokens" \in call[c].todo
    /\ Settle(c, call[c].todo \ {"tokens"},
                 {r.token : r \in {s \in recoveryTokens : s.userId = call[c].user}})
    /\ UNCHANGED <<database, cache, clients, drawn, expired, spent>>

DeleteRecoveryToken(c, token) ==
    /\ token \in call[c].found
    /\ recoveryTokens' = {r \in recoveryTokens : r.token # token}
    /\ Settle(c, call[c].todo, call[c].found \ {token})
    /\ UNCHANGED <<authUser, cache, clients, drawn, expired, spent>>

--------------------------------------------------------------------------------
(* auth.verify.account: the code is the same for every account, so a valid  *)
(* one can always be presented.  The save writes back every column of the   *)
(* row read at the start that differs from the database by then.            *)
VerifyAccount(c, u) ==
    /\ Accepts("verify", c)
    /\ findOneBySlug(u).active
    /\ ~findOneBySlug(u).verified
    /\ Goto(c, [NoCall EXCEPT !.pc = "verify", !.user = u, !.row = findOneBySlug(u)])
    /\ UNCHANGED <<database, cache, clients, drawn, expired, spent>>

VerifyUserAccount(c) ==
    /\ call[c].pc = "verify"
    /\ authUser' = [authUser EXCEPT ![call[c].user] =
                                        [call[c].row EXCEPT !.verified = TRUE]]
    /\ Goto(c, NoCall)
    /\ UNCHANGED <<recoveryTokens, cache, clients, drawn, expired, spent>>

--------------------------------------------------------------------------------
(* Faults and time. *)

Expire(x) ==
    /\ "expiry" \in Faults
    /\ x \in drawn \ expired
    /\ expired' = expired \cup {x}
    /\ UNCHANGED <<database, cache, call, clients, drawn, spent>>

\* A database or cache command fails: a sequential handler ends there, a
\* Promise.all loses only that branch.
CommandFails(c) ==
    /\ "error" \in Faults
    /\ \/ /\ call[c].pc \notin {"idle", "revoke", "reset"}
          /\ Goto(c, NoCall)
       \/ \E branch \in call[c].todo : Settle(c, call[c].todo \ {branch}, call[c].found)
       \/ \E token \in call[c].found : Settle(c, call[c].todo, call[c].found \ {token})
    /\ UNCHANGED <<database, cache, clients, drawn, expired, spent>>

\* The process is killed and restarted: the calls are lost, the database and
\* Redis keep what they hold.
Crash ==
    /\ "crash" \in Faults
    /\ InFlight # {}
    /\ call' = [c \in Calls |-> NoCall]
    /\ UNCHANGED <<database, cache, clients, drawn, expired, spent>>

--------------------------------------------------------------------------------
(* What a client can ask for. *)
Request(c) ==
    \/ \E u \in Users, password \in Passwords : LoginUser(c, u, password)
    \/ \E jwt \in jwts : RevalidateUserTokens(c, jwt)
    \/ \E u, agent \in Users : RevokeUserAccess(c, u, agent)
    \/ \E u \in Users : RecoverCredentials(c, u)
    \/ \E m \in mailed, password \in Passwords : ResetUserPassword(c, m.token, password)
    \/ \E u \in Users : VerifyAccount(c, u)

(* The next command of a call in flight. *)
Continue(c) ==
    \/ Validate(c)
    \/ RotateInvalidate(c)
    \/ RotateInsert(c)
    \/ ReplyTokens(c)
    \/ FindActiveUser(c)
    \/ DeactivateUser(c)
    \/ InvalidateBranch(c)
    \/ FindPreviousToken(c)
    \/ DeletePreviousToken(c)
    \/ CreateRecoveryToken(c)
    \/ FindUserToReset(c)
    \/ UpdateUserPassword(c)
    \/ FindRecoveryTokens(c)
    \/ \E token \in call[c].found : DeleteRecoveryToken(c, token)
    \/ VerifyUserAccount(c)

Next ==
    \/ \E c \in Calls : Request(c) \/ Continue(c) \/ CommandFails(c)
    \/ \E jwt \in jwts : LogoutUser(jwt)
    \/ \E x \in Uuids : Expire(x)
    \/ Crash

Spec == Init /\ [][Next]_vars

(* Every pending promise is eventually settled: the event loop runs the     *)
(* continuation of each call whose command has been answered.               *)
FairSpec == Spec /\ \A c \in Calls : WF_vars(Continue(c))

--------------------------------------------------------------------------------
(* Properties. *)

\* Types of the state: every call's local state fits the await it is at.
TypeOK ==
    /\ authUser \in [Users -> AuthUser]
    /\ recoveryTokens \subseteq RecoveryToken
    /\ cache \in [Users -> Uuids \cup {None}]
    /\ call \in [Calls -> CallState]
    /\ jwts \subseteq RefreshToken
    /\ mailed \subseteq RecoveryToken
    /\ drawn \subseteq Uuids
    /\ expired \subseteq Uuids
    /\ spent \subseteq Uuids

\* A refresh token that left the cache (rotated out, logged out, revoked, or
\* dropped by a password reset) never comes back into it, whatever calls were
\* in flight: rotateTokens of a slow call cannot revive a replaced session.
NoRevival == \A u \in Users : cache[u] \notin spent

\* The strengthening of NoRevival that every step preserves: what is cached or
\* about to be inserted was drawn and is not spent; a token about to be inserted
\* is in no key and belongs to one call; a token replied or delivered is cached
\* for its user or spent.
Pending(c) == call[c].pc \in {"rotate", "insert"}
Held(u, x) == cache[u] = x \/ x \in spent

SessionInv ==
    /\ spent \subseteq drawn
    /\ \A u \in Users : cache[u] \in (drawn \ spent) \cup {None}
    /\ \A u, v \in Users : cache[u] = cache[v] /\ cache[u] # None => u = v
    /\ \A c \in Calls : Pending(c) =>
          /\ call[c].token \in drawn \ spent
          /\ \A u \in Users : cache[u] # call[c].token
    /\ \A c, d \in Calls :
          Pending(c) /\ Pending(d) /\ call[c].token = call[d].token => c = d
    /\ \A c \in Calls : call[c].pc = "reply" => Held(call[c].user, call[c].token)
    /\ \A jwt \in jwts : Held(jwt.sub, jwt.check)

\* A refresh token is delivered only after its hash was stored, for its own
\* subject: it is either the one revalidation accepts for that user or one
\* that has been withdrawn, and no other user's key ever holds it
\* (createUserTokens, rotateTokens and cacheService.validate agree).
DeliveredTokensAreTracked ==
    \A jwt \in jwts :
        /\ cache[jwt.sub] = jwt.check \/ jwt.check \in spent
        /\ \A u \in Users : cache[u] = jwt.check => u = jwt.sub

\* Only verified accounts have a session, although rotateTokens inserts on the
\* strength of a row read before: no stale write un-verifies an account.
SessionsAreOfVerifiedUsers ==
    \A u \in Users : cache[u] # None => authUser[u].verified

\* Its strengthening: the row a call in flight is about to open a session for is
\* still verified.
VerifiedInv ==
    /\ SessionsAreOfVerifiedUsers
    /\ \A c \in Calls : call[c].pc \in {"validate", "rotate", "insert"} =>
          authUser[call[c].user].verified

\* u is inactive and no login, revalidation or verification of u is in flight:
\* those that read the row while it was active are over.
LockedOut(u) ==
    /\ ~authUser[u].active
    /\ \A c \in Calls : call[c].user = u =>
          call[c].pc \notin {"validate", "rotate", "insert", "reply", "verify"}

LockoutKept ==
    \A u \in Users : LockedOut(u) => LockedOut(u)' /\ cache'[u] \in {cache[u], None}

\* Deactivation is final once the calls that overlapped it are over: a user
\* locked out stays so, and gets no session any more (revokeUserAccess:
\* "future logins will fail").
LockoutIsFinal == [][LockoutKept]_vars

\* What the comment of revokeUserAccess says ("user can't access protected
\* resources", "no longer granted access through cache"): when no revocation is
\* running, an inactive user has no entry in the cache.
RevokedUserHasNoSession ==
    \A u \in Users :
        ~authUser[u].active /\ (\A c \in Calls : call[c].user = u => call[c].pc # "revoke")
            => cache[u] = None

\* The comment on deactivateUser ("deactivated users are can no longer interact
\* with application"): no handler makes an inactive user active again.
DeactivationIsKept ==
    [][\A u \in Users : ~authUser[u].active => ~authUser'[u].active]_vars

\* A password changes to the new one of a reset only on a recovery token mailed
\* to that user (resetUserPassword looks the user up by the token's row); the
\* other writer of the column is the save of a verification.
PasswordsChangeByOwnToken ==
    [][\A u \in Users : authUser'[u].hash # authUser[u].hash =>
          \E c \in Calls :
             /\ call[c].user = u
             /\ \/ call[c].pc = "verify"
                \/ /\ call[c].password = authUser'[u].hash
                   /\ [token |-> call[c].token, userId |-> u] \in mailed]_vars

\* When a reset has run to its end without an error, the recovery token it was
\* given is gone from the table (removeUserRecoveryTokens, "one time use"),
\* however many rows concurrent recoveries left for that user.
RedeemedTokenIsRemoved ==
    [][\A c \in Calls : call[c].pc = "reset" /\ call'[c].pc = "idle" =>
          \A r \in recoveryTokens' : r.token # call[c].token]_vars

\* The cache, with its history, implements the abstract sessions: every step of
\* every handler opens a session with an unused token, closes one, or does
\* neither.
Sessions == INSTANCE RefreshSessions WITH session <- cache
ImplementsSessions == Sessions!Spec

\* A user who is deactivated for good eventually has no login or revalidation
\* under way: those that overlap the deactivation end, later ones are refused.
DeactivationSettles ==
    \A u \in Users : <>[](~authUser[u].active) => <>[]LockedOut(u)

================================================================================
