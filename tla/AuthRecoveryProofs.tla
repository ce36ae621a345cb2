---------------------------- MODULE AuthRecoveryProofs ----------------------------
(***************************************************************************)
(* Proofs about password resets and recovery tokens in AuthService, for    *)
(* any sets of users, calls, random values and passwords.                  *)
(***************************************************************************)
EXTENDS AuthServiceProofs

\* The queries of the handlers are used by what they return.
USE DEF checkHash, findOneById, findOneBySlug, getRecoveryToken, getValue

--------------------------------------------------------------------------------
(* Recovery tokens.  A token has one owner, in the table and in the mail,    *)
(* and the call of a reset holds a mailed token of the user it writes.       *)

Rows == recoveryTokens \cup mailed

RowsInv ==
    /\ \A r \in Rows : r.token \in drawn
    /\ \A r, s \in Rows : r.token = s.token => r = s

ResetPoints == {"findUser", "reset"}

ResetsInv ==
    \A c \in Calls :
        /\ call[c].pc \in ResetPoints =>
              [token |-> call[c].token, userId |-> call[c].user] \in mailed
        /\ call[c].pc = "reset" => call[c].todo \subseteq {"password", "tokens", "invalidate"}

(* Rows disappear, or one is added with a new token. *)
Shrinks == recoveryTokens' \subseteq recoveryTokens /\ mailed' = mailed /\ drawn \subseteq drawn'

Adds(x, v) ==
    /\ x \in Uuids /\ v \in Users /\ Draw(x)
    /\ recoveryTokens' = recoveryTokens \cup {[token |-> x, userId |-> v]}
    /\ sendRecoveryToken([token |-> x, userId |-> v])

LEMMA TableStep ==
  ASSUME TypeInv, [Next]_vars
  PROVE  Shrinks \/ \E x, v : Adds(x, v)
  <1>1. ASSUME NEW c \in Calls, Request(c) PROVE Shrinks
    BY <1>1 DEF Request, LoginUser, RevalidateUserTokens, RevokeUserAccess,
       RecoverCredentials, ResetUserPassword, VerifyAccount, Shrinks, Draw, database, clients
  <1>2. ASSUME NEW c \in Calls, CreateRecoveryToken(c) PROVE \E x, v : Adds(x, v)
    <2>1. call[c].user \in Users
      BY <1>2 DEF TypeInv, CallOK, CreateRecoveryToken
    <2> QED
      BY <1>2, <2>1 DEF CreateRecoveryToken, Adds, Draw
  <1>3. ASSUME NEW c \in Calls, DeletePreviousToken(c) PROVE Shrinks
    BY <1>3 DEF DeletePreviousToken, Shrinks, clients
  <1>4. ASSUME NEW c \in Calls, NEW token, DeleteRecoveryToken(c, token) PROVE Shrinks
    BY <1>4 DEF DeleteRecoveryToken, Shrinks, clients
  <1>5. ASSUME NEW c \in Calls,
               \/ Validate(c) \/ RotateInvalidate(c) \/ RotateInsert(c) \/ ReplyTokens(c)
               \/ FindActiveUser(c) \/ DeactivateUser(c) \/ InvalidateBranch(c)
               \/ FindPreviousToken(c) \/ FindUserToReset(c) \/ UpdateUserPassword(c)
               \/ FindRecoveryTokens(c) \/ VerifyUserAccount(c) \/ CommandFails(c)
        PROVE  Shrinks
    BY <1>5 DEF Validate, RotateInvalidate, RotateInsert, ReplyTokens, FindActiveUser,
       DeactivateUser, InvalidateBranch, FindPreviousToken, FindUserToReset,
       UpdateUserPassword, FindRecoveryTokens, VerifyUserAccount, CommandFails, Draw,
       Shrinks, database, clients
  <1>6. CASE Crash \/ UNCHANGED vars
    BY <1>6 DEF Crash, vars, Shrinks, database, clients
  <1>7. ASSUME NEW jwt, LogoutUser(jwt) PROVE Shrinks
    BY <1>7 DEF LogoutUser, Shrinks, database, clients
  <1>8. ASSUME NEW x, Expire(x) PROVE Shrinks
    BY <1>8 DEF Expire, Shrinks, database, clients
  <1>9. ASSUME NEW c \in Calls, Continue(c) PROVE Shrinks \/ \E x, v : Adds(x, v)
    BY <1>2, <1>3, <1>4, <1>5, <1>9 DEF Continue
  <1> QED
    BY <1>1, <1>5, <1>6, <1>7, <1>8, <1>9 DEF Next

LEMMA RowsStep == TypeInv /\ RowsInv /\ [Next]_vars => RowsInv'
  <1> SUFFICES ASSUME TypeInv, RowsInv, [Next]_vars PROVE RowsInv'
    OBVIOUS
  <1>1. CASE Shrinks
    BY <1>1 DEF Shrinks, RowsInv, Rows
  <1>2. ASSUME NEW x, NEW v, Adds(x, v) PROVE RowsInv'
    <2> DEFINE r == [token |-> x, userId |-> v]
    <2>1. r.token = x /\ x \notin drawn /\ drawn' = drawn \cup {x}
      BY <1>2 DEF Adds, Draw
    <2>2. recoveryTokens' = recoveryTokens \cup {r} /\ mailed' \subseteq mailed \cup {r}
      BY <1>2 DEF Adds, sendRecoveryToken
    <2> HIDE DEF r
    <2> QED
      BY <2>1, <2>2 DEF RowsInv, Rows
  <1> QED
    BY <1>1, <1>2, TableStep

(* What a reset holds on to. *)
Keeps(c) ==
    /\ call[c].pc \in ResetPoints
    /\ call'[c].user = call[c].user /\ call'[c].token = call[c].token

LEMMA ElsewhereGoto ==
  ASSUME TypeInv, NEW d \in Calls, NEW s, Goto(d, s), s.pc \notin ResetPoints,
         NEW c \in Calls, call'[c].pc \in ResetPoints
  PROVE  d # c /\ call'[c] = call[c] /\ Keeps(c)
  BY DEF TypeInv, TypeOK, Goto, Keeps

(* A Promise.all goes on. *)
LEMMA ResetSettle ==
  ASSUME TypeInv, NEW d \in Calls, NEW todo, NEW found, Settle(d, todo, found),
         NEW c \in Calls, call'[c].pc \in ResetPoints
  PROVE  /\ Keeps(c)
         /\ d = c => /\ call'[c].pc = call[c].pc
                     /\ call'[c].todo = todo /\ call'[c].found = found
         /\ d # c => call'[c] = call[c]
  <1> DEFINE t == [call[d] EXCEPT !.todo = todo, !.found = found]
  <1>1. /\ t.pc = call[d].pc /\ t.user = call[d].user /\ t.token = call[d].token
        /\ t.todo = todo /\ t.found = found
    BY DEF TypeInv, TypeOK, CallState
  <1>2. NoCall.pc \notin ResetPoints
    BY DEF NoCall, ResetPoints
  <1>3. PICK s : s \in {NoCall, t} /\ Goto(d, s)
    BY DEF Settle
  <1>4. call'[c] = IF c = d THEN s ELSE call[c]
    BY <1>3 DEF TypeInv, TypeOK, Goto
  <1> HIDE DEF t
  <1> QED
    BY <1>1, <1>2, <1>3, <1>4 DEF Keeps

Starts(c) ==
    \E m \in mailed, password \in Passwords : ResetUserPassword(c, m.token, password)

LEMMA RequestResets ==
  ASSUME TypeInv, NEW d \in Calls, Request(d), NEW c \in Calls, call'[c].pc \in ResetPoints
  PROVE  (d # c /\ call'[c] = call[c] /\ Keeps(c)) \/ (d = c /\ Starts(c))
  <1> DEFINE Fine == (d # c /\ call'[c] = call[c] /\ Keeps(c)) \/ (d = c /\ Starts(c))
  <1>1. ASSUME NEW s, Goto(d, s), s.pc \notin ResetPoints PROVE Fine
    BY <1>1, ElsewhereGoto
  <1>2. ASSUME NEW m \in mailed, NEW password \in Passwords,
               ResetUserPassword(d, m.token, password)
        PROVE  Fine
    <2>1. CASE d = c
      BY <1>2, <2>1 DEF Starts
    <2>2. CASE d # c
      <3>1. PICK s : Goto(d, s)
        BY <1>2 DEF ResetUserPassword
      <3> QED
        BY <2>2, <3>1 DEF TypeInv, TypeOK, Goto, Keeps
    <2> QED
      BY <2>1, <2>2
  <1> HIDE DEF Fine
  <1>3. ASSUME NEW u, NEW password, LoginUser(d, u, password) PROVE Fine
    <2>1. ASSUME NEW x
          PROVE  [NoCall EXCEPT !.pc = "rotate", !.user = u,
                                !.row = authUser[u], !.token = x].pc \notin ResetPoints
      BY DEF NoCall, ResetPoints
    <2> QED
      BY <1>1, <1>3, <2>1 DEF LoginUser
  <1>4. ASSUME NEW jwt \in jwts, RevalidateUserTokens(d, jwt) PROVE Fine
    <2>1. [NoCall EXCEPT !.pc = "validate", !.user = jwt.sub,
                         !.row = authUser[jwt.sub], !.token = jwt.check].pc \notin ResetPoints
      BY DEF NoCall, ResetPoints
    <2> QED
      BY <1>1, <1>4, <2>1 DEF RevalidateUserTokens
  <1>5. ASSUME NEW u, NEW agent, RevokeUserAccess(d, u, agent) PROVE Fine
    <2> DEFINE todo == {"invalidate"} \cup
                       (IF checkAllowedActionOn_User(u, agent) THEN {"find"} ELSE {})
               t == [NoCall EXCEPT !.pc = "revoke", !.user = u, !.todo = todo]
    <2>1. Goto(d, t)
      BY <1>5 DEF RevokeUserAccess
    <2> HIDE DEF todo
    <2>2. t.pc \notin ResetPoints
      BY DEF NoCall, ResetPoints
    <2> HIDE DEF t
    <2> QED
      BY <1>1, <2>1, <2>2
  <1>6. ASSUME NEW u, RecoverCredentials(d, u) PROVE Fine
    <2>1. [NoCall EXCEPT !.pc = "recover", !.user = u].pc \notin ResetPoints
      BY DEF NoCall, ResetPoints
    <2> QED
      BY <1>1, <1>6, <2>1 DEF RecoverCredentials
  <1>7. ASSUME NEW u, VerifyAccount(d, u) PROVE Fine
    <2>1. [NoCall EXCEPT !.pc = "verify", !.user = u, !.row = authUser[u]].pc \notin ResetPoints
      BY DEF NoCall, ResetPoints
    <2> QED
      BY <1>1, <1>7, <2>1 DEF VerifyAccount
  <1>8. Fine
    BY <1>2, <1>3, <1>4, <1>5, <1>6, <1>7 DEF Request
  <1> QED
    BY <1>8 DEF Fine

(* Commands of handlers that are not resets, and the failure of any. *)
LEMMA SequentialElsewhere ==
  ASSUME TypeInv, NEW d \in Calls,
         \/ Validate(d) \/ RotateInvalidate(d) \/ RotateInsert(d) \/ ReplyTokens(d)
         \/ FindPreviousToken(d) \/ DeletePreviousToken(d) \/ CreateRecoveryToken(d)
         \/ VerifyUserAccount(d),
         NEW c \in Calls, call'[c].pc \in ResetPoints
  PROVE  d # c /\ call'[c] = call[c] /\ Keeps(c)
  <1> DEFINE Fine == d # c /\ call'[c] = call[c] /\ Keeps(c)
  <1> SUFFICES Fine
    OBVIOUS
  <1>1. ASSUME NEW s, Goto(d, s), s.pc \notin ResetPoints PROVE Fine
    BY <1>1, ElsewhereGoto
  <1>2. NoCall.pc \notin ResetPoints
    BY DEF NoCall, ResetPoints
  <1>3. call[d] \in CallState
    BY DEF TypeInv, TypeOK
  <1> HIDE DEF Fine
  <1>4. CASE Validate(d)
    <2>1. ASSUME NEW x PROVE [call[d] EXCEPT !.pc = "rotate", !.token = x].pc \notin ResetPoints
      BY <1>3 DEF CallState, ResetPoints
    <2> QED
      BY <1>1, <1>2, <1>4, <2>1 DEF Validate
  <1>5. CASE RotateInvalidate(d) \/ RotateInsert(d)
    <2>1. /\ [call[d] EXCEPT !.pc = "insert"].pc \notin ResetPoints
          /\ [call[d] EXCEPT !.pc = "reply"].pc \notin ResetPoints
      BY <1>3 DEF CallState, ResetPoints
    <2> QED
      BY <1>1, <1>5, <2>1 DEF RotateInvalidate, RotateInsert
  <1>6. CASE ReplyTokens(d) \/ CreateRecoveryToken(d) \/ VerifyUserAccount(d)
    BY <1>1, <1>2, <1>6 DEF ReplyTokens, CreateRecoveryToken, VerifyUserAccount
  <1>7. CASE FindPreviousToken(d)
    <2>1. ASSUME NEW x PROVE [call[d] EXCEPT !.pc = "delete", !.token = x].pc \notin ResetPoints
      BY <1>3 DEF CallState, ResetPoints
    <2>2. [call[d] EXCEPT !.pc = "create"].pc \notin ResetPoints
      BY <1>3 DEF CallState, ResetPoints
    <2> QED
      BY <1>1, <1>7, <2>1, <2>2 DEF FindPreviousToken
  <1>8. CASE DeletePreviousToken(d)
    <2>1. [call[d] EXCEPT !.pc = "create"].pc \notin ResetPoints
      BY <1>3 DEF CallState, ResetPoints
    <2> QED
      BY <1>1, <1>8, <2>1 DEF DeletePreviousToken
  <1> QED
    BY <1>4, <1>5, <1>6, <1>7, <1>8

(* The row of the user is read before the branches begin. *)
LEMMA BeginsBranches ==
  ASSUME TypeInv, NEW d \in Calls, FindUserToReset(d),
         NEW c \in Calls, call'[c].pc \in ResetPoints
  PROVE  /\ Keeps(c)
         /\ d # c => call'[c] = call[c]
         /\ d = c => /\ call'[c].pc = "reset"
                     /\ call'[c].todo = {"password", "tokens", "invalidate"}
  <1> DEFINE row == authUser[call[d].user]
             t == [call[d] EXCEPT !.pc = "reset", !.row = row,
                                  !.todo = {"password", "tokens", "invalidate"}]
  <1>1. /\ t.pc = "reset" /\ t.user = call[d].user /\ t.token = call[d].token
        /\ t.todo = {"password", "tokens", "invalidate"}
    BY DEF TypeInv, TypeOK, CallState
  <1>2. NoCall.pc \notin ResetPoints
    BY DEF NoCall, ResetPoints
  <1>3. PICK s : s \in {NoCall, t} /\ Goto(d, s)
    BY DEF FindUserToReset
  <1>4. call'[c] = IF c = d THEN s ELSE call[c]
    BY <1>3 DEF TypeInv, TypeOK, Goto
  <1> HIDE DEF t
  <1> QED
    BY <1>1, <1>2, <1>3, <1>4 DEF Keeps, FindUserToReset, ResetPoints

(* The branches of a reset, and their failures, only shorten what is left to do. *)
Shortens(c) ==
    /\ call'[c].pc = call[c].pc
    /\ call'[c].todo \subseteq call[c].todo

LEMMA BranchStep ==
  ASSUME TypeInv, ResetsInv, NEW d \in Calls,
         \/ FindActiveUser(d) \/ DeactivateUser(d) \/ InvalidateBranch(d)
         \/ UpdateUserPassword(d) \/ FindRecoveryTokens(d)
         \/ \E token \in call[d].found : DeleteRecoveryToken(d, token)
         \/ CommandFails(d),
         NEW c \in Calls, call'[c].pc \in ResetPoints
  PROVE  /\ Keeps(c)
         /\ d # c => call'[c] = call[c]
         /\ d = c => Shortens(c)
  <1> DEFINE Fine == /\ Keeps(c)
                     /\ d # c => call'[c] = call[c]
                     /\ d = c => Shortens(c)
  <1> SUFFICES Fine
    OBVIOUS
  <1>1. ASSUME NEW todo, NEW found, Settle(d, todo, found), todo \subseteq call[d].todo
        PROVE  Fine
    BY <1>1, ResetSettle DEF Shortens
  <1>2. ASSUME NEW todo, NEW found, Settle(d, todo, found), "find" \in call[d].todo
        PROVE  Fine
    <2>1. CASE d = c
      <3>1. call'[c].pc = call[c].pc
        BY <1>2, <2>1, ResetSettle
      <3>2. call[c].pc \in {"revoke", "reset"}
        BY <1>2, <2>1 DEF TypeInv, CallOK
      <3>3. call[c].pc = "reset"
        BY <3>1, <3>2 DEF ResetPoints
      <3> QED
        BY <1>2, <2>1, <3>3 DEF ResetsInv
    <2>2. CASE d # c
      BY <1>2, <2>2, ResetSettle
    <2> QED
      BY <2>1, <2>2
  <1> HIDE DEF Fine
  <1>3. CASE FindActiveUser(d)
    BY <1>2, <1>3 DEF FindActiveUser
  <1>4. CASE \/ DeactivateUser(d) \/ InvalidateBranch(d) \/ UpdateUserPassword(d)
             \/ FindRecoveryTokens(d)
    <2>1. PICK branch, found : Settle(d, call[d].todo \ {branch}, found)
      BY <1>4 DEF DeactivateUser, InvalidateBranch, UpdateUserPassword, FindRecoveryTokens
    <2> QED
      BY <1>1, <2>1
  <1>5. ASSUME NEW token, DeleteRecoveryToken(d, token) PROVE Fine
    BY <1>1, <1>5 DEF DeleteRecoveryToken
  <1>6. CASE CommandFails(d)
    <2>1. CASE call[d].pc \notin {"idle", "revoke", "reset"} /\ Goto(d, NoCall)
      <3>1. NoCall.pc \notin ResetPoints
        BY DEF NoCall, ResetPoints
      <3> QED
        BY <2>1, <3>1, ElsewhereGoto DEF Fine
    <2>2. ASSUME NEW branch, Settle(d, call[d].todo \ {branch}, call[d].found) PROVE Fine
      BY <1>1, <2>2
    <2>3. ASSUME NEW token, Settle(d, call[d].todo, call[d].found \ {token}) PROVE Fine
      BY <1>1, <2>3
    <2> QED
      BY <1>6, <2>1, <2>2, <2>3 DEF CommandFails
  <1> QED
    BY <1>3, <1>4, <1>5, <1>6

LEMMA StartHolds ==
  ASSUME TypeInv, RowsInv, NEW c \in Calls, Starts(c)
  PROVE  /\ call'[c].pc = "findUser" /\ UNCHANGED <<recoveryTokens, mailed>>
         /\ [token |-> call'[c].token, userId |-> call'[c].user] \in mailed
         /\ call'[c].todo = {} /\ call'[c].found = {}
  <1>1. PICK m \in mailed, password \in Passwords : ResetUserPassword(c, m.token, password)
    BY DEF Starts
  <1>2. PICK r \in recoveryTokens :
          /\ r.token = m.token
          /\ Goto(c, [NoCall EXCEPT !.pc = "findUser", !.user = r.userId,
                                    !.token = m.token, !.password = password])
    BY <1>1 DEF ResetUserPassword
  <1>3. r = m
    BY <1>2 DEF RowsInv, Rows
  <1>4. m = [token |-> m.token, userId |-> m.userId]
    BY DEF TypeInv, TypeOK, RecoveryToken
  <1> DEFINE t == [NoCall EXCEPT !.pc = "findUser", !.user = r.userId,
                                 !.token = m.token, !.password = password]
  <1>5. /\ t.pc = "findUser" /\ t.user = r.userId /\ t.token = m.token
        /\ t.todo = {} /\ t.found = {}
    BY DEF NoCall
  <1>6. call'[c] = t
    BY <1>2 DEF TypeInv, TypeOK, Goto
  <1> HIDE DEF t
  <1>7. UNCHANGED <<recoveryTokens, mailed>>
    BY <1>1 DEF ResetUserPassword, database, clients
  <1> QED
    BY <1>3, <1>4, <1>5, <1>6, <1>7

(* Where a call of a reset comes from. *)
LEMMA ResetFrom ==
  ASSUME TypeInv, ResetsInv, [Next]_vars, NEW c \in Calls, call'[c].pc \in ResetPoints
  PROVE  \/ Starts(c)
         \/ Keeps(c) /\ \/ call'[c] = call[c]
                        \/ Shortens(c)
                        \/ call'[c].todo = {"password", "tokens", "invalidate"}
  <1>1. ASSUME NEW d \in Calls, Request(d)
        PROVE  Starts(c) \/ (Keeps(c) /\ call'[c] = call[c])
    BY <1>1, RequestResets
  <1>2. ASSUME NEW d \in Calls, CommandFails(d)
        PROVE  Keeps(c) /\ (call'[c] = call[c] \/ Shortens(c))
    BY <1>2, BranchStep
  <1>3. ASSUME NEW d \in Calls, Continue(d)
        PROVE  Keeps(c) /\ \/ call'[c] = call[c]
                           \/ Shortens(c)
                           \/ call'[c].todo = {"password", "tokens", "invalidate"}
    <2>1. CASE FindUserToReset(d)
      BY <2>1, BeginsBranches
    <2>2. CASE \/ FindActiveUser(d) \/ DeactivateUser(d) \/ InvalidateBranch(d)
               \/ UpdateUserPassword(d) \/ FindRecoveryTokens(d)
               \/ \E token \in call[d].found : DeleteRecoveryToken(d, token)
      BY <2>2, BranchStep
    <2>3. CASE \/ Validate(d) \/ RotateInvalidate(d) \/ RotateInsert(d) \/ ReplyTokens(d)
               \/ FindPreviousToken(d) \/ DeletePreviousToken(d) \/ CreateRecoveryToken(d)
               \/ VerifyUserAccount(d)
      BY <2>3, SequentialElsewhere
    <2> QED
      BY <1>3, <2>1, <2>2, <2>3 DEF Continue
  <1>4. ASSUME call' = call PROVE Keeps(c) /\ call'[c] = call[c]
    BY <1>4 DEF Keeps
  <1>5. CASE Crash
    BY <1>5 DEF Crash, NoCall, ResetPoints
  <1> QED
    BY <1>1, <1>2, <1>3, <1>4, <1>5 DEF Next, vars, LogoutUser, Expire

LEMMA MailGrows == TypeInv /\ [Next]_vars => mailed \subseteq mailed'
  BY TableStep DEF Shrinks, Adds, sendRecoveryToken

LEMMA ResetsStep == TypeInv /\ RowsInv /\ ResetsInv /\ [Next]_vars => ResetsInv'
  <1> SUFFICES ASSUME TypeInv, RowsInv, ResetsInv, [Next]_vars, NEW c \in Calls
               PROVE  /\ call'[c].pc \in ResetPoints =>
                            [token |-> call'[c].token, userId |-> call'[c].user] \in mailed'
                      /\ call'[c].pc = "reset" =>
                            call'[c].todo \subseteq {"password", "tokens", "invalidate"}
    BY DEF ResetsInv
  <1>1. mailed \subseteq mailed'
    BY MailGrows
  <1>2. CASE Starts(c)
    BY <1>1, <1>2, StartHolds
  <1>3. CASE Keeps(c)
    BY <1>1, <1>3, ResetFrom, StartHolds DEF Keeps, ResetsInv, Shortens, ResetPoints
  <1> QED
    BY <1>2, <1>3, ResetFrom DEF ResetPoints

LEMMA RecoveryInit == Init => RowsInv /\ ResetsInv
  BY DEF Init, RowsInv, Rows, ResetsInv, NoCall, ResetPoints

LEMMA RecoveryInvariant == Spec => [](TypeInv /\ RowsInv /\ ResetsInv)
  <1>1. Init => TypeInv /\ RowsInv /\ ResetsInv
    BY TypeInit, RecoveryInit
  <1>2. TypeInv /\ RowsInv /\ ResetsInv /\ [Next]_vars => (TypeInv /\ RowsInv /\ ResetsInv)'
    BY TypeStep, RowsStep, ResetsStep
  <1> QED
    BY <1>1, <1>2, PTL DEF Spec

--------------------------------------------------------------------------------
(* Passwords.                                                                *)

LEMMA PasswordStep ==
  ASSUME TypeInv, ResetsInv, [Next]_vars, NEW u \in Users, authUser'[u].hash # authUser[u].hash
  PROVE  \E c \in Calls :
            /\ call[c].user = u
            /\ \/ call[c].pc = "verify"
               \/ /\ call[c].password = authUser'[u].hash
                  /\ [token |-> call[c].token, userId |-> u] \in mailed
  <1>1. ASSUME NEW c \in Calls, VerifyUserAccount(c)
        PROVE  call[c].user = u /\ call[c].pc = "verify"
    BY <1>1 DEF TypeInv, TypeOK, VerifyUserAccount
  <1>2. ASSUME NEW c \in Calls, DeactivateUser(c)
        PROVE  FALSE
    <2>1. call[c].user \in Users
      BY <1>2 DEF TypeInv, CallOK, DeactivateUser
    <2> QED
      BY <1>2, <2>1 DEF TypeInv, TypeOK, AuthUser, DeactivateUser
  <1>3. ASSUME NEW c \in Calls, UpdateUserPassword(c)
        PROVE  /\ call[c].user = u /\ call[c].password = authUser'[u].hash
               /\ [token |-> call[c].token, userId |-> u] \in mailed
    <2>1. call[c].pc = "reset" /\ call[c].user \in Users
      BY <1>3 DEF TypeInv, CallOK, UpdateUserPassword
    <2>2. call[c].user = u /\ call[c].password = authUser'[u].hash
      BY <1>3, <2>1 DEF TypeInv, TypeOK, AuthUser, UpdateUserPassword
    <2> QED
      BY <2>1, <2>2 DEF ResetsInv, ResetPoints
  <1>4. ASSUME NEW c \in Calls, Request(c) PROVE authUser' = authUser
    BY <1>4 DEF Request, LoginUser, RevalidateUserTokens, RevokeUserAccess,
       RecoverCredentials, ResetUserPassword, VerifyAccount, database
  <1>5. ASSUME NEW c \in Calls, Continue(c), ~VerifyUserAccount(c), ~DeactivateUser(c),
               ~UpdateUserPassword(c)
        PROVE  authUser' = authUser
    BY <1>5 DEF Continue, Validate, RotateInvalidate, RotateInsert, ReplyTokens,
       FindActiveUser, InvalidateBranch, FindPreviousToken, DeletePreviousToken,
       CreateRecoveryToken, FindUserToReset, FindRecoveryTokens, DeleteRecoveryToken, database
  <1> QED
    BY <1>1, <1>2, <1>3, <1>4, <1>5
       DEF Next, vars, CommandFails, LogoutUser, Expire, Crash, database

\* A password is written only by a reset whose token was mailed to that user, or by
\* the save of a verification.
THEOREM PasswordsChangeByOwnTokenHolds == Spec => PasswordsChangeByOwnToken
  <1> DEFINE A == \A u \in Users : authUser'[u].hash # authUser[u].hash =>
                    \E c \in Calls :
                       /\ call[c].user = u
                       /\ \/ call[c].pc = "verify"
                          \/ /\ call[c].password = authUser'[u].hash
                             /\ [token |-> call[c].token, userId |-> u] \in mailed
  <1>1. TypeInv /\ RowsInv /\ ResetsInv /\ [Next]_vars => [A]_vars
    BY PasswordStep
  <1>2. PasswordsChangeByOwnToken <=> [][A]_vars
    BY DEF PasswordsChangeByOwnToken
  <1> HIDE DEF A
  <1> QED
    BY <1>1, <1>2, RecoveryInvariant, PTL DEF Spec

--------------------------------------------------------------------------------
(* The sweep.  Once a reset has queried the rows of its user, every row with *)
(* its token is on the list of rows still to be deleted.                     *)

Swept(c) ==
    call[c].pc = "reset" /\ "tokens" \notin call[c].todo =>
        \A r \in recoveryTokens : r.token = call[c].token => r.token \in call[c].found

Gone(c) == \A r \in recoveryTokens' : r.token # call[c].token

RecoveryInv == TypeInv /\ RowsInv /\ ResetsInv

(* No row with the token of a reset is ever added. *)
LEMMA RowsOfResets ==
  ASSUME RecoveryInv, [Next]_vars, NEW x \in drawn, NEW r \in recoveryTokens', r.token = x
  PROVE  r \in recoveryTokens
  <1>1. CASE Shrinks
    BY <1>1 DEF Shrinks
  <1>2. ASSUME NEW y, NEW v, Adds(y, v) PROVE r \in recoveryTokens
    BY <1>2 DEF Adds, Draw
  <1> QED
    BY <1>1, <1>2, TableStep DEF RecoveryInv

LEMMA TokenOfReset ==
  ASSUME RecoveryInv, NEW c \in Calls, call[c].pc \in ResetPoints
  PROVE  /\ call[c].token \in drawn
         /\ \A r \in recoveryTokens : r.token = call[c].token => r.userId = call[c].user
  <1> DEFINE m == [token |-> call[c].token, userId |-> call[c].user]
  <1>1. m \in mailed
    BY DEF RecoveryInv, ResetsInv
  <1>2. m.token = call[c].token /\ m.userId = call[c].user
    OBVIOUS
  <1> HIDE DEF m
  <1> QED
    BY <1>1, <1>2 DEF RecoveryInv, RowsInv, Rows

LEMMA SweptOthers ==
  ASSUME RecoveryInv, [Next]_vars, NEW c \in Calls, Swept(c), call'[c] = call[c]
  PROVE  Swept(c)'
  BY RowsOfResets, TokenOfReset DEF Swept, ResetPoints

LEMMA SettleSwept ==
  ASSUME TypeInv, NEW c \in Calls, NEW todo, NEW found, Settle(c, todo, found),
         call[c].pc # "idle",
         "tokens" \notin todo =>
            \A r \in recoveryTokens' : r.token = call[c].token => r.token \in found
  PROVE  Swept(c)' /\ (call'[c].pc = "idle" => Gone(c))
  <1> DEFINE t == [call[c] EXCEPT !.todo = todo, !.found = found]
  <1>1. /\ t.pc = call[c].pc /\ t.token = call[c].token
        /\ t.todo = todo /\ t.found = found
    BY DEF TypeInv, TypeOK, CallState
  <1>2. NoCall.pc = "idle"
    BY DEF NoCall
  <1>3. PICK s : s = (IF todo = {} /\ found = {} THEN NoCall ELSE t) /\ Goto(c, s)
    BY DEF Settle
  <1>4. call'[c] = s
    BY <1>3 DEF TypeInv, TypeOK, Goto
  <1> HIDE DEF t
  <1>5. CASE s = t /\ ~(todo = {} /\ found = {})
    BY <1>1, <1>4, <1>5 DEF Swept, Gone
  <1>6. CASE todo = {} /\ found = {}
    BY <1>2, <1>3, <1>4, <1>6 DEF Swept, Gone
  <1> QED
    BY <1>3, <1>5, <1>6

LEMMA SweptContinue ==
  ASSUME RecoveryInv, [Next]_vars, NEW c \in Calls, Continue(c), Swept(c)
  PROVE  /\ Swept(c)'
         /\ call[c].pc = "reset" /\ call'[c].pc = "idle" => Gone(c)
  <1>0. TypeInv /\ ResetsInv
    BY DEF RecoveryInv
  <1>1. CASE call[c].pc # "reset"
    BY <1>0, <1>1, ResetFrom, StartHolds DEF RecoveryInv, Swept, Shortens, ResetPoints
  <1>2. CASE call[c].pc = "reset"
    <2>0. "find" \notin call[c].todo /\ "deactivate" \notin call[c].todo
      BY <1>0, <1>2 DEF ResetsInv
    <2>1. CASE InvalidateBranch(c) \/ UpdateUserPassword(c)
      <3>1. PICK branch \in {"invalidate", "password"} :
              Settle(c, call[c].todo \ {branch}, call[c].found)
        BY <2>1 DEF InvalidateBranch, UpdateUserPassword
      <3>2. recoveryTokens' = recoveryTokens
        BY <2>1 DEF InvalidateBranch, UpdateUserPassword, database
      <3> QED
        BY <1>0, <1>2, <3>1, <3>2, SettleSwept DEF Swept
    <2>2. CASE FindRecoveryTokens(c)
      <3> DEFINE found == {r.token : r \in {q \in recoveryTokens : q.userId = call[c].user}}
      <3>1. Settle(c, call[c].todo \ {"tokens"}, found) /\ recoveryTokens' = recoveryTokens
        BY <2>2 DEF FindRecoveryTokens, database
      <3>2. \A r \in recoveryTokens : r.token = call[c].token => r.token \in found
        BY <1>2, TokenOfReset DEF ResetPoints
      <3> HIDE DEF found
      <3> QED
        BY <1>0, <1>2, <3>1, <3>2, SettleSwept
    <2>3. ASSUME NEW token, DeleteRecoveryToken(c, token)
          PROVE  Swept(c)' /\ (call'[c].pc = "idle" => Gone(c))
      <3>1. /\ Settle(c, call[c].todo, call[c].found \ {token})
            /\ recoveryTokens' = {r \in recoveryTokens : r.token # token}
        BY <2>3 DEF DeleteRecoveryToken
      <3>2. "tokens" \notin call[c].todo =>
              \A r \in recoveryTokens' :
                  r.token = call[c].token => r.token \in call[c].found \ {token}
        BY <1>2, <3>1 DEF Swept
      <3> QED
        BY <1>0, <1>2, <3>1, <3>2, SettleSwept
    <2> QED
      BY <1>2, <2>0, <2>1, <2>2, <2>3
         DEF Continue, Validate, RotateInvalidate, RotateInsert, ReplyTokens, FindActiveUser,
             DeactivateUser, FindPreviousToken, DeletePreviousToken, CreateRecoveryToken,
             FindUserToReset, VerifyUserAccount
  <1> QED
    BY <1>1, <1>2

LEMMA SweptElsewhere ==
  ASSUME RecoveryInv, [Next]_vars, NEW c \in Calls, Swept(c), ~Continue(c), ~CommandFails(c)
  PROVE  /\ Swept(c)'
         /\ call[c].pc = "reset" /\ call'[c].pc = "idle" => Crash
  <1>0. TypeInv
    BY DEF RecoveryInv
  <1>1. CASE call'[c] = call[c]
    BY <1>1, SweptOthers
  <1>2. CASE Crash
    BY <1>2 DEF Crash, Swept, NoCall
  <1>3. CASE Request(c)
    <2>1. call[c].pc = "idle"
      BY <1>3 DEF Request, LoginUser, RevalidateUserTokens, RevokeUserAccess,
         RecoverCredentials, ResetUserPassword, VerifyAccount, Accepts
    <2>2. call'[c].pc # "reset"
      BY <1>0, <1>3, RequestResets, StartHolds DEF RecoveryInv, ResetPoints
    <2> QED
      BY <2>1, <2>2 DEF Swept
  <1>4. ASSUME NEW d \in Calls, d # c, Request(d) \/ Continue(d) \/ CommandFails(d)
        PROVE  call'[c] = call[c]
    BY <1>0, <1>4, CallsAlone
  <1>5. CASE UNCHANGED vars \/ (\E x \in Uuids : Expire(x)) \/ \E jwt \in jwts : LogoutUser(jwt)
    BY <1>1, <1>5 DEF vars, Expire, LogoutUser
  <1> QED
    BY <1>1, <1>2, <1>3, <1>4, <1>5 DEF Next

\* Where nothing fails, a reset that has run to its end has removed its recovery
\* token, whatever rows other calls added and deleted meanwhile.
THEOREM RedeemedTokenIsRemovedHolds ==
  ASSUME Faults \cap {"error", "crash"} = {}
  PROVE  Spec => RedeemedTokenIsRemoved
  <1> DEFINE Inv == RecoveryInv /\ \A c \in Calls : Swept(c)
  <1>1. Init => Inv
    BY TypeInit, RecoveryInit DEF RecoveryInv, Swept, Init, NoCall
  <1> DEFINE A == \A c \in Calls : call[c].pc = "reset" /\ call'[c].pc = "idle" =>
                 \A r \in recoveryTokens' : r.token # call[c].token
  <1>2. Inv /\ [Next]_vars => \A c \in Calls :
           /\ Swept(c)'
           /\ call[c].pc = "reset" /\ call'[c].pc = "idle" => Gone(c)
    BY SweptContinue, SweptElsewhere DEF CommandFails, Crash
  <1>3. Inv /\ [Next]_vars => Inv'
    BY <1>2, TypeStep, RowsStep, ResetsStep DEF RecoveryInv
  <1>4. Inv /\ [Next]_vars => [A]_vars
    BY <1>2 DEF Gone
  <1>5. RedeemedTokenIsRemoved <=> [][A]_vars
    BY DEF RedeemedTokenIsRemoved
  <1> HIDE DEF Inv, A
  <1> QED
    BY <1>1, <1>3, <1>4, <1>5, PTL DEF Spec

================================================================================
