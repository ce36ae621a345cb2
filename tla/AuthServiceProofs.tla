--------------------------- MODULE AuthServiceProofs ---------------------------
(***************************************************************************)
(* Proofs about AuthService, for any sets of users, calls, random values   *)
(* and passwords.                                                          *)
(***************************************************************************)
EXTENDS AuthService, TLAPS

\* The queries of the handlers are used by what they return.
USE DEF checkHash, findOneById, findOneBySlug, getRecoveryToken, getValue

(* What a call holds at each await: the part of type correctness TypeOK     *)
(* does not say.                                                            *)
CallOK(c) ==
    /\ call[c].pc # "idle" => call[c].user \in Users
    /\ call[c].pc = "verify" => call[c].row \in AuthUser
    /\ call[c].pc \in {"validate", "rotate", "insert", "reply"} => call[c].token \in Uuids
    /\ call[c].pc \in {"findUser", "reset"} => call[c].password \in Passwords
    /\ call[c].todo # {} => call[c].pc \in {"revoke", "reset"}
    /\ call[c].found # {} => call[c].pc = "reset"
    /\ call[c].todo \cap {"password", "tokens"} # {} => call[c].pc = "reset"

TypeInv == TypeOK /\ \A c \in Calls : CallOK(c)

LEMMA NoCallType == NoCall \in CallState
  BY DEF NoCall, CallState, Points

LEMMA TypeInit == Init => TypeInv
  <1> SUFFICES ASSUME Init PROVE TypeInv
    OBVIOUS
  <1>1. authUser \in [Users -> AuthUser]
    BY DEF Init
  <1>2. call \in [Calls -> CallState]
    BY NoCallType DEF Init
  <1>3. TypeOK
    BY <1>1, <1>2 DEF Init, TypeOK
  <1>4. \A c \in Calls : CallOK(c)
    BY DEF Init, CallOK, NoCall
  <1> QED
    BY <1>3, <1>4 DEF TypeInv

(* Every action but Crash and the two without a call replaces the state of  *)
(* one call: it suffices that the new state is well formed.                 *)
WellFormed(s) ==
    /\ s \in CallState
    /\ s.pc # "idle" => s.user \in Users
    /\ s.pc = "verify" => s.row \in AuthUser
    /\ s.pc \in {"validate", "rotate", "insert", "reply"} => s.token \in Uuids
    /\ s.pc \in {"findUser", "reset"} => s.password \in Passwords
    /\ s.todo # {} => s.pc \in {"revoke", "reset"}
    /\ s.found # {} => s.pc = "reset"
    /\ s.todo \cap {"password", "tokens"} # {} => s.pc = "reset"

LEMMA WellFormedNoCall == WellFormed(NoCall)
  BY NoCallType DEF WellFormed, NoCall

LEMMA GotoType ==
  ASSUME TypeInv, NEW c \in Calls, NEW s, WellFormed(s), Goto(c, s)
  PROVE  call' \in [Calls -> CallState] /\ \A d \in Calls : CallOK(d)'
  <1>1. call' \in [Calls -> CallState]
    BY DEF TypeInv, TypeOK, Goto, WellFormed
  <1>2. ASSUME NEW d \in Calls PROVE CallOK(d)'
    <2>1. CASE d = c
      <3>1. call'[d] = s
        BY <2>1 DEF TypeInv, TypeOK, Goto
      <3> QED
        BY <3>1 DEF WellFormed, CallOK
    <2>2. CASE d # c
      <3>1. call'[d] = call[d]
        BY <2>2 DEF TypeInv, TypeOK, Goto
      <3> QED
        BY <3>1 DEF TypeInv, CallOK
    <2> QED
      BY <2>1, <2>2
  <1> QED
    BY <1>1, <1>2

LEMMA CallWellFormed ==
  ASSUME TypeInv, NEW c \in Calls
  PROVE  WellFormed(call[c])
  BY DEF TypeInv, TypeOK, CallOK, WellFormed

(* Settling branches keeps the state well formed, as long as no branch of   *)
(* another handler is added.                                                *)
LEMMA SettleType ==
  ASSUME TypeInv, NEW c \in Calls, NEW todo, NEW found, Settle(c, todo, found),
         call[c].pc \in {"revoke", "reset"},
         todo \subseteq call[c].todo \cup {"find", "deactivate"},
         found \subseteq Uuids, found # {} => call[c].pc = "reset"
  PROVE  call' \in [Calls -> CallState] /\ \A d \in Calls : CallOK(d)'
  <1> DEFINE t == [call[c] EXCEPT !.todo = todo, !.found = found]
  <1>1. WellFormed(call[c]) /\ call[c] \in CallState
    BY CallWellFormed DEF WellFormed
  <1>2. t \in CallState
    BY <1>1 DEF CallState, Branches
  <1>3. /\ t.pc = call[c].pc /\ t.user = call[c].user /\ t.row = call[c].row
        /\ t.token = call[c].token /\ t.password = call[c].password
        /\ t.todo = todo /\ t.found = found
    BY <1>1 DEF CallState
  <1>4. todo \cap {"password", "tokens"} # {} => call[c].todo \cap {"password", "tokens"} # {}
    OBVIOUS
  <1>5. WellFormed(t)
    BY <1>1, <1>2, <1>3, <1>4 DEF WellFormed
  <1>6. PICK s : s \in {NoCall, t} /\ Goto(c, s)
    BY DEF Settle
  <1> QED
    BY <1>5, <1>6, WellFormedNoCall, GotoType

(* The part of a step that concerns the variables without a call. *)
DataOK ==
    /\ authUser \in [Users -> AuthUser]
    /\ recoveryTokens \subseteq RecoveryToken
    /\ cache \in [Users -> Uuids \cup {None}]
    /\ jwts \subseteq RefreshToken
    /\ mailed \subseteq RecoveryToken
    /\ drawn \subseteq Uuids
    /\ expired \subseteq Uuids
    /\ spent \subseteq Uuids

LEMMA TypeSplit ==
  TypeInv <=> DataOK /\ call \in [Calls -> CallState] /\ \A c \in Calls : CallOK(c)
  BY DEF TypeInv, TypeOK, DataOK

(* A step that leaves the data alone and replaces one call. *)
LEMMA GotoOnly ==
  ASSUME TypeInv, NEW c \in Calls, NEW s, WellFormed(s), Goto(c, s),
         UNCHANGED <<database, cache, clients, drawn, expired, spent>>
  PROVE  TypeInv'
  <1>1. DataOK'
    BY TypeSplit DEF DataOK, database, clients
  <1> QED
    BY <1>1, GotoType, TypeSplit DEF TypeInv, TypeOK, DataOK

LEMMA RequestType ==
  ASSUME TypeInv, NEW c \in Calls, Request(c)
  PROVE  TypeInv'
  <1>0. WellFormed(NoCall)
    BY WellFormedNoCall
  <1>1. ASSUME NEW u \in Users, NEW password \in Passwords, LoginUser(c, u, password)
        PROVE  TypeInv'
    <2>1. PICK x \in Uuids :
            /\ Draw(x)
            /\ Goto(c, [NoCall EXCEPT !.pc = "rotate", !.user = u,
                                      !.row = authUser[u], !.token = x])
      BY <1>1 DEF LoginUser
    <2>2. authUser[u] \in AuthUser
      BY DEF TypeInv, TypeOK
    <2>3. WellFormed([NoCall EXCEPT !.pc = "rotate", !.user = u,
                                    !.row = authUser[u], !.token = x])
      BY <2>2 DEF WellFormed, NoCall, CallState, Points
    <2>4. DataOK'
      BY <1>1, <2>1, TypeSplit DEF DataOK, LoginUser, Draw, database, clients
    <2> QED
      BY <2>1, <2>3, <2>4, GotoType DEF TypeInv, TypeOK, DataOK
  <1>2. ASSUME NEW jwt \in jwts, RevalidateUserTokens(c, jwt)
        PROVE  TypeInv'
    <2> DEFINE s == [NoCall EXCEPT !.pc = "validate", !.user = jwt.sub,
                                   !.row = authUser[jwt.sub], !.token = jwt.check]
    <2>1. jwt.sub \in Users /\ jwt.check \in Uuids
      BY DEF TypeInv, TypeOK, RefreshToken
    <2>2. authUser[jwt.sub] \in AuthUser
      BY <2>1 DEF TypeInv, TypeOK
    <2>3. WellFormed(s)
      BY <2>1, <2>2 DEF WellFormed, NoCall, CallState, Points
    <2> QED
      BY <1>2, <2>3, GotoOnly DEF RevalidateUserTokens
  <1>3. ASSUME NEW u \in Users, NEW agent \in Users, RevokeUserAccess(c, u, agent)
        PROVE  TypeInv'
    <2> DEFINE todo == {"invalidate"} \cup
                       (IF checkAllowedActionOn_User(u, agent) THEN {"find"} ELSE {})
               s == [NoCall EXCEPT !.pc = "revoke", !.user = u, !.todo = todo]
    <2>1. todo \subseteq {"invalidate", "find"}
      OBVIOUS
    <2> HIDE DEF todo
    <2>2. WellFormed(s)
      BY <2>1 DEF WellFormed, NoCall, CallState, Points, Branches
    <2> QED
      BY <1>3, <2>2, GotoOnly DEF RevokeUserAccess, todo
  <1>4. ASSUME NEW u \in Users, RecoverCredentials(c, u)
        PROVE  TypeInv'
    <2>1. WellFormed([NoCall EXCEPT !.pc = "recover", !.user = u])
      BY DEF WellFormed, NoCall, CallState, Points
    <2> QED
      BY <1>4, <2>1, GotoOnly DEF RecoverCredentials
  <1>5. ASSUME NEW m \in mailed, NEW password \in Passwords,
               ResetUserPassword(c, m.token, password)
        PROVE  TypeInv'
    <2>1. PICK r \in recoveryTokens :
            Goto(c, [NoCall EXCEPT !.pc = "findUser", !.user = r.userId,
                                   !.token = m.token, !.password = password])
      BY <1>5 DEF ResetUserPassword
    <2>2. r.userId \in Users /\ m.token \in Uuids
      BY DEF TypeInv, TypeOK, RecoveryToken
    <2>3. WellFormed([NoCall EXCEPT !.pc = "findUser", !.user = r.userId,
                                    !.token = m.token, !.password = password])
      BY <2>2 DEF WellFormed, NoCall, CallState, Points
    <2> QED
      BY <1>5, <2>1, <2>3, GotoOnly DEF ResetUserPassword
  <1>6. ASSUME NEW u \in Users, VerifyAccount(c, u)
        PROVE  TypeInv'
    <2>1. authUser[u] \in AuthUser
      BY DEF TypeInv, TypeOK
    <2>2. WellFormed([NoCall EXCEPT !.pc = "verify", !.user = u, !.row = authUser[u]])
      BY <2>1 DEF WellFormed, NoCall, CallState, Points
    <2> QED
      BY <1>6, <2>2, GotoOnly DEF VerifyAccount
  <1> QED
    BY <1>1, <1>2, <1>3, <1>4, <1>5, <1>6 DEF Request

(* A step that replaces one call and leaves the data well typed. *)
LEMMA GotoAndData ==
  ASSUME TypeInv, NEW c \in Calls, NEW s, WellFormed(s), Goto(c, s), DataOK'
  PROVE  TypeInv'
  BY GotoType DEF TypeInv, TypeOK, DataOK

LEMMA SettleAndData ==
  ASSUME TypeInv, NEW c \in Calls, NEW todo, NEW found, Settle(c, todo, found),
         call[c].pc \in {"revoke", "reset"},
         todo \subseteq call[c].todo \cup {"find", "deactivate"},
         found \subseteq Uuids, found # {} => call[c].pc = "reset", DataOK'
  PROVE  TypeInv'
  BY SettleType DEF TypeInv, TypeOK, DataOK

(* invalidate and insert keep the cache and its history well typed. *)
LEMMA CacheType ==
  ASSUME TypeInv, NEW u \in Users, NEW x \in Uuids, invalidate(u) \/ insert(u, x)
  PROVE  cache' \in [Users -> Uuids \cup {None}] /\ spent' \subseteq Uuids
  BY DEF TypeInv, TypeOK, invalidate, insert

LEMMA InvalidateType ==
  ASSUME TypeInv, NEW u \in Users, invalidate(u)
  PROVE  cache' \in [Users -> Uuids \cup {None}] /\ spent' \subseteq Uuids
  BY DEF TypeInv, TypeOK, invalidate

(* Login and revalidation, from the comparison with the cache on. *)
LEMMA RotationType ==
  ASSUME TypeInv, NEW c \in Calls,
         Validate(c) \/ RotateInvalidate(c) \/ RotateInsert(c) \/ ReplyTokens(c)
  PROVE  TypeInv'
  <1>0. WellFormed(call[c]) /\ WellFormed(NoCall)
    BY CallWellFormed, WellFormedNoCall
  <1>1. CASE Validate(c)
    <2>1. DataOK'
      BY <1>1, TypeSplit DEF DataOK, Validate, Draw, database, clients
    <2>2. CASE Goto(c, NoCall)
      BY <2>1, <2>2, <1>0, GotoAndData
    <2>3. ASSUME NEW x \in Uuids, call[c].pc = "validate",
                 Goto(c, [call[c] EXCEPT !.pc = "rotate", !.token = x])
          PROVE  TypeInv'
      <3>1. WellFormed([call[c] EXCEPT !.pc = "rotate", !.token = x])
        BY <1>0, <2>3 DEF WellFormed, CallState, Points
      <3> QED
        BY <2>1, <2>3, <3>1, GotoAndData
    <2> QED
      BY <1>1, <2>2, <2>3 DEF Validate
  <1>2. CASE RotateInvalidate(c)
    <2>1. call[c].user \in Users
      BY <1>0, <1>2 DEF WellFormed, RotateInvalidate
    <2>2. DataOK'
      BY <1>2, <2>1, InvalidateType, TypeSplit DEF DataOK, RotateInvalidate, database, clients
    <2>3. WellFormed([call[c] EXCEPT !.pc = "insert"])
      BY <1>0, <1>2 DEF WellFormed, CallState, Points, RotateInvalidate
    <2> QED
      BY <1>2, <2>2, <2>3, GotoAndData DEF RotateInvalidate
  <1>3. CASE RotateInsert(c)
    <2>1. call[c].user \in Users /\ call[c].token \in Uuids
      BY <1>0, <1>3 DEF WellFormed, RotateInsert
    <2>2. DataOK'
      BY <1>3, <2>1, CacheType, TypeSplit DEF DataOK, RotateInsert, database, clients
    <2>3. WellFormed([call[c] EXCEPT !.pc = "reply"])
      BY <1>0, <1>3 DEF WellFormed, CallState, Points, RotateInsert
    <2> QED
      BY <1>3, <2>2, <2>3, GotoAndData DEF RotateInsert
  <1>4. CASE ReplyTokens(c)
    <2>1. call[c].user \in Users /\ call[c].token \in Uuids
      BY <1>0, <1>4 DEF WellFormed, ReplyTokens
    <2>2. DataOK'
      BY <1>4, <2>1, TypeSplit DEF DataOK, ReplyTokens, RefreshToken, database
    <2> QED
      BY <1>4, <1>0, <2>2, GotoAndData DEF ReplyTokens
  <1> QED
    BY <1>1, <1>2, <1>3, <1>4

(* The branches of a revocation. *)
LEMMA RevocationType ==
  ASSUME TypeInv, NEW c \in Calls,
         FindActiveUser(c) \/ DeactivateUser(c) \/ InvalidateBranch(c)
  PROVE  TypeInv'
  <1>0. WellFormed(call[c]) /\ call[c] \in CallState
    BY CallWellFormed DEF WellFormed
  <1>1. CASE FindActiveUser(c)
    <2>1. DataOK'
      BY <1>1, TypeSplit DEF DataOK, FindActiveUser, database, clients
    <2>2. call[c].pc \in {"revoke", "reset"}
      BY <1>0, <1>1 DEF WellFormed, FindActiveUser
    <2> DEFINE todo == (call[c].todo \ {"find"}) \cup
                       (IF authUser[call[c].user].active THEN {"deactivate"} ELSE {})
    <2>3. todo \subseteq call[c].todo \cup {"find", "deactivate"}
      OBVIOUS
    <2>4. Settle(c, todo, {})
      BY <1>1 DEF FindActiveUser
    <2> HIDE DEF todo
    <2> QED
      BY <2>1, <2>2, <2>3, <2>4, SettleAndData
  <1>2. CASE DeactivateUser(c)
    <2>1. call[c].pc \in {"revoke", "reset"} /\ call[c].user \in Users
      BY <1>0, <1>2 DEF WellFormed, DeactivateUser
    <2>2. authUser' \in [Users -> AuthUser]
      BY <1>2, <2>1 DEF TypeInv, TypeOK, DeactivateUser, AuthUser
    <2>3. DataOK'
      BY <1>2, <2>2, TypeSplit DEF DataOK, DeactivateUser, clients
    <2>4. call[c].todo \ {"deactivate"} \subseteq call[c].todo \cup {"find", "deactivate"}
      OBVIOUS
    <2> QED
      BY <1>2, <2>1, <2>3, <2>4, SettleAndData DEF DeactivateUser
  <1>3. CASE InvalidateBranch(c)
    <2>1. call[c].pc \in {"revoke", "reset"} /\ call[c].user \in Users
      BY <1>0, <1>3 DEF WellFormed, InvalidateBranch
    <2>2. DataOK'
      BY <1>3, <2>1, InvalidateType, TypeSplit DEF DataOK, InvalidateBranch, database, clients
    <2>3. call[c].found \subseteq Uuids /\ (call[c].found # {} => call[c].pc = "reset")
      BY <1>0 DEF WellFormed, CallState
    <2>4. call[c].todo \ {"invalidate"} \subseteq call[c].todo \cup {"find", "deactivate"}
      OBVIOUS
    <2> QED
      BY <1>3, <2>1, <2>2, <2>3, <2>4, SettleAndData DEF InvalidateBranch
  <1> QED
    BY <1>1, <1>2, <1>3

(* The steps of a recovery. *)
LEMMA RecoveryType ==
  ASSUME TypeInv, NEW c \in Calls,
         FindPreviousToken(c) \/ DeletePreviousToken(c) \/ CreateRecoveryToken(c)
  PROVE  TypeInv'
  <1>0. WellFormed(call[c]) /\ WellFormed(NoCall)
    BY CallWellFormed, WellFormedNoCall
  <1>1. WellFormed([call[c] EXCEPT !.pc = "create"])
        \/ call[c].pc \notin {"recover", "delete"}
    BY <1>0 DEF WellFormed, CallState, Points
  <1>2. CASE FindPreviousToken(c)
    <2>1. DataOK'
      BY <1>2, TypeSplit DEF DataOK, FindPreviousToken, database, clients
    <2>2. ASSUME NEW r \in recoveryTokens,
                 Goto(c, [call[c] EXCEPT !.pc = "delete", !.token = r.token])
          PROVE  TypeInv'
      <3>1. r.token \in Uuids
        BY DEF TypeInv, TypeOK, RecoveryToken
      <3>2. WellFormed([call[c] EXCEPT !.pc = "delete", !.token = r.token])
        BY <1>0, <1>2, <3>1 DEF WellFormed, CallState, Points, FindPreviousToken
      <3> QED
        BY <2>1, <2>2, <3>2, GotoAndData
    <2> QED
      BY <1>1, <1>2, <2>1, <2>2, GotoAndData DEF FindPreviousToken
  <1>3. CASE DeletePreviousToken(c)
    <2>1. DataOK'
      BY <1>3, TypeSplit DEF DataOK, DeletePreviousToken, clients
    <2> QED
      BY <1>1, <1>3, <2>1, GotoAndData DEF DeletePreviousToken
  <1>4. CASE CreateRecoveryToken(c)
    <2>1. call[c].user \in Users
      BY <1>0, <1>4 DEF WellFormed, CreateRecoveryToken
    <2>2. DataOK'
      BY <1>4, <2>1, TypeSplit DEF DataOK, CreateRecoveryToken, sendRecoveryToken, Draw, RecoveryToken
    <2> QED
      BY <1>4, <1>0, <2>2, GotoAndData DEF CreateRecoveryToken
  <1> QED
    BY <1>2, <1>3, <1>4

(* The steps of a reset. *)
LEMMA ResetType ==
  ASSUME TypeInv, NEW c \in Calls,
         \/ FindUserToReset(c) \/ UpdateUserPassword(c) \/ FindRecoveryTokens(c)
         \/ \E token \in call[c].found : DeleteRecoveryToken(c, token)
  PROVE  TypeInv'
  <1>0. /\ WellFormed(call[c]) /\ call[c] \in CallState
        /\ WellFormed(NoCall)
    BY CallWellFormed, WellFormedNoCall DEF WellFormed
  <1>1. /\ call[c].found \subseteq Uuids
        /\ call[c].found # {} => call[c].pc = "reset"
        /\ call[c].todo \cap {"password", "tokens"} # {} => call[c].pc = "reset"
        /\ call[c].pc = "reset" => call[c].user \in Users /\ call[c].password \in Passwords
    BY <1>0 DEF WellFormed, CallState
  <1>2. CASE FindUserToReset(c)
    <2> DEFINE row == authUser[call[c].user]
               s == [call[c] EXCEPT !.pc = "reset", !.row = row,
                                    !.todo = {"password", "tokens", "invalidate"}]
    <2>1. DataOK'
      BY <1>2, TypeSplit DEF DataOK, FindUserToReset, database, clients
    <2>2. row \in AuthUser
      BY <1>0, <1>2 DEF WellFormed, FindUserToReset, TypeInv, TypeOK
    <2>3. Goto(c, s) \/ Goto(c, NoCall)
      BY <1>2 DEF FindUserToReset
    <2> HIDE DEF row
    <2>4. WellFormed(s)
      BY <1>0, <1>2, <2>2 DEF WellFormed, CallState, Points, Branches, FindUserToReset
    <2> QED
      BY <1>0, <2>1, <2>3, <2>4, GotoAndData
  <1>3. CASE UpdateUserPassword(c)
    <2>1. authUser' \in [Users -> AuthUser]
      BY <1>1, <1>3 DEF TypeInv, TypeOK, UpdateUserPassword, AuthUser
    <2>2. DataOK'
      BY <1>3, <2>1, TypeSplit DEF DataOK, UpdateUserPassword, clients
    <2>3. call[c].pc = "reset"
      BY <1>1, <1>3 DEF UpdateUserPassword
    <2>4. call[c].todo \ {"password"} \subseteq call[c].todo \cup {"find", "deactivate"}
      OBVIOUS
    <2> QED
      BY <1>1, <1>3, <2>2, <2>3, <2>4, SettleAndData DEF UpdateUserPassword
  <1>4. CASE FindRecoveryTokens(c)
    <2> DEFINE found == {r.token : r \in {q \in recoveryTokens : q.userId = call[c].user}}
    <2>1. found \subseteq Uuids
      BY DEF TypeInv, TypeOK, RecoveryToken
    <2>2. Settle(c, call[c].todo \ {"tokens"}, found)
      BY <1>4 DEF FindRecoveryTokens
    <2>3. DataOK'
      BY <1>4, TypeSplit DEF DataOK, FindRecoveryTokens, database, clients
    <2>4. call[c].pc = "reset"
      BY <1>1, <1>4 DEF FindRecoveryTokens
    <2>5. call[c].todo \ {"tokens"} \subseteq call[c].todo \cup {"find", "deactivate"}
      OBVIOUS
    <2> HIDE DEF found
    <2> QED
      BY <2>1, <2>2, <2>3, <2>4, <2>5, SettleAndData
  <1>5. ASSUME NEW token \in call[c].found, DeleteRecoveryToken(c, token)
        PROVE  TypeInv'
    <2>1. DataOK'
      BY <1>5, TypeSplit DEF DataOK, DeleteRecoveryToken, clients
    <2>2. call[c].pc = "reset" /\ call[c].found \ {token} \subseteq Uuids
      BY <1>1
    <2> QED
      BY <1>5, <2>1, <2>2, SettleAndData DEF DeleteRecoveryToken
  <1> QED
    BY <1>2, <1>3, <1>4, <1>5

LEMMA VerificationType ==
  ASSUME TypeInv, NEW c \in Calls, VerifyUserAccount(c)
  PROVE  TypeInv'
  <1>1. call[c].user \in Users /\ call[c].row \in AuthUser
    BY CallWellFormed DEF WellFormed, VerifyUserAccount
  <1>2. [call[c].row EXCEPT !.verified = TRUE] \in AuthUser
    BY <1>1 DEF AuthUser
  <1>3. authUser' \in [Users -> AuthUser]
    BY <1>1, <1>2 DEF TypeInv, TypeOK, VerifyUserAccount
  <1>4. DataOK'
    BY <1>3, TypeSplit DEF DataOK, VerifyUserAccount, clients
  <1> QED
    BY <1>4, WellFormedNoCall, GotoAndData DEF VerifyUserAccount

LEMMA FaultType ==
  ASSUME TypeInv, (\E c \in Calls : CommandFails(c)) \/ Crash \/ \E x \in Uuids : Expire(x)
  PROVE  TypeInv'
  <1>1. ASSUME NEW c \in Calls, CommandFails(c)
        PROVE  TypeInv'
    <2>0. WellFormed(call[c]) /\ call[c] \in CallState
      BY CallWellFormed DEF WellFormed
    <2>1. DataOK'
      BY <1>1, TypeSplit DEF DataOK, CommandFails, database, clients
    <2>2. /\ call[c].found \subseteq Uuids
          /\ call[c].found # {} => call[c].pc = "reset"
      BY <2>0 DEF WellFormed, CallState
    <2>3. CASE Goto(c, NoCall)
      BY <2>1, <2>3, WellFormedNoCall, GotoAndData
    <2>4. ASSUME NEW branch \in call[c].todo,
                 Settle(c, call[c].todo \ {branch}, call[c].found)
          PROVE  TypeInv'
      <3>1. call[c].todo \ {branch} \subseteq call[c].todo \cup {"find", "deactivate"}
        OBVIOUS
      <3>2. call[c].pc \in {"revoke", "reset"}
        BY <2>0 DEF WellFormed
      <3> QED
        BY <2>1, <2>2, <2>4, <3>1, <3>2, SettleAndData
    <2>5. ASSUME NEW token \in call[c].found,
                 Settle(c, call[c].todo, call[c].found \ {token})
          PROVE  TypeInv'
      <3>1. call[c].pc = "reset" /\ call[c].found \ {token} \subseteq Uuids
        BY <2>2
      <3> QED
        BY <2>1, <2>5, <3>1, SettleAndData
    <2> QED
      BY <1>1, <2>3, <2>4, <2>5 DEF CommandFails
  <1>2. CASE Crash
    <2>1. DataOK'
      BY <1>2, TypeSplit DEF DataOK, Crash, database, clients
    <2>2. call' \in [Calls -> CallState]
      BY <1>2, NoCallType DEF Crash
    <2>3. \A c \in Calls : CallOK(c)'
      BY <1>2 DEF Crash, CallOK, NoCall
    <2> QED
      BY <2>1, <2>2, <2>3 DEF TypeInv, TypeOK, DataOK
  <1>3. ASSUME NEW x \in Uuids, Expire(x)
        PROVE  TypeInv'
    BY <1>3 DEF TypeInv, TypeOK, CallOK, Expire, database, clients
  <1> QED
    BY <1>1, <1>2, <1>3

LEMMA LogoutType ==
  ASSUME TypeInv, NEW jwt \in jwts, LogoutUser(jwt)
  PROVE  TypeInv'
  <1>1. jwt.sub \in Users
    BY DEF TypeInv, TypeOK, RefreshToken
  <1>2. cache' \in [Users -> Uuids \cup {None}] /\ spent' \subseteq Uuids
    BY <1>1, InvalidateType DEF LogoutUser
  <1> QED
    BY <1>2 DEF TypeInv, TypeOK, CallOK, LogoutUser, database, clients

LEMMA TypeStep == TypeInv /\ [Next]_vars => TypeInv'
  <1> SUFFICES ASSUME TypeInv, [Next]_vars PROVE TypeInv'
    OBVIOUS
  <1>1. ASSUME NEW c \in Calls, Continue(c) PROVE TypeInv'
    BY <1>1, RotationType, RevocationType, RecoveryType, ResetType, VerificationType
       DEF Continue
  <1>2. CASE UNCHANGED vars
    BY <1>2 DEF vars, TypeInv, TypeOK, CallOK
  <1> QED
    BY <1>1, <1>2, RequestType, LogoutType, FaultType DEF Next

\* The state of the service keeps its types, and every call in flight holds the
\* user, row, token or password the await it is at needs.
THEOREM TypeCorrect == Spec => []TypeInv
  BY TypeInit, TypeStep, PTL DEF Spec

THEOREM TypeOKHolds == Spec => []TypeOK
  <1>1. TypeInv => TypeOK
    BY DEF TypeInv
  <1> QED
    BY <1>1, TypeCorrect, PTL

--------------------------------------------------------------------------------
(* A step of one call leaves the others where they are. *)
LEMMA CallsAlone ==
  ASSUME TypeInv, NEW c \in Calls, Request(c) \/ Continue(c) \/ CommandFails(c),
         NEW d \in Calls, d # c
  PROVE  call'[d] = call[d]
  <1>1. ASSUME NEW s, Goto(c, s) PROVE call'[d] = call[d]
    BY <1>1 DEF TypeInv, TypeOK, Goto
  <1>2. ASSUME NEW todo, NEW found, Settle(c, todo, found) PROVE call'[d] = call[d]
    BY <1>1, <1>2 DEF Settle
  <1>3. CASE Request(c)
    BY <1>1, <1>3 DEF Request, LoginUser, RevalidateUserTokens, RevokeUserAccess,
       RecoverCredentials, ResetUserPassword, VerifyAccount
  <1>4. CASE CommandFails(c)
    BY <1>1, <1>2, <1>4 DEF CommandFails
  <1>5. CASE Continue(c)
    BY <1>1, <1>2, <1>5
       DEF Continue, Validate, RotateInvalidate, RotateInsert, ReplyTokens, FindActiveUser,
           DeactivateUser, InvalidateBranch, FindPreviousToken, DeletePreviousToken,
           CreateRecoveryToken, FindUserToReset, UpdateUserPassword, FindRecoveryTokens,
           DeleteRecoveryToken, VerifyUserAccount
  <1> QED
    BY <1>3, <1>4, <1>5
================================================================================
