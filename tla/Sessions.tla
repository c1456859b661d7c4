------------------------------- MODULE Sessions -------------------------------
(***************************************************************************)
(* Accounts and refresh-token sessions of user-service.  Every call is a   *)
(* sequence of separate database statements with no transaction around     *)
(* them; calls run concurrently and may break off after any statement.     *)
(*                                                                         *)
(* A call creates at most one session, so sessions and their refresh       *)
(* tokens are named after the call that created them.  Access tokens are   *)
(* stateless and not modelled.                                             *)
(***************************************************************************)
EXTENDS Integers, FiniteSets

CONSTANTS Requests, Users

Null == [op |-> "null"]

VARIABLES
  account,   \* "none", "alive", "deleted" (deleted_at set)
  session,   \* "none", "active", "revoked", "expired"
  root,      \* the login or registration a session descends from
  call,      \* what is asked: [op, user, token]
  pc,        \* the statement the handler is at
  answer,    \* "none", "ok", "error"
  pending    \* pending[u]: calls in flight for u when it was deleted

vars == <<account, session, root, call, pc, answer, pending>>

Goto(r, label) == pc' = [pc EXCEPT ![r] = label] /\ UNCHANGED answer
Answer(r, what) == pc' = [pc EXCEPT ![r] = "done"] /\ answer' = [answer EXCEPT ![r] = what]

(* Refresh tokens a client can present: those it has been given.           *)
Tokens == {s \in Requests : answer[s] = "ok" /\ session[s] # "none"}
Owner(s) == call[s].user
-----------------------------------------------------------------------------
Init ==
  /\ account \in [Users -> {"none", "alive"}]
  /\ session = [r \in Requests |-> "none"]
  /\ root = [r \in Requests |-> r]
  /\ call = [r \in Requests |-> Null]
  /\ pc = [r \in Requests |-> "idle"]
  /\ answer = [r \in Requests |-> "none"]
  /\ pending = [u \in Users |-> {}]

Begin(r, c, first) ==
  /\ pc[r] = "idle"
  /\ call' = [call EXCEPT ![r] = c]
  /\ Goto(r, first)
  /\ UNCHANGED <<account, session, root, pending>>

Register(r, u) == Begin(r, [op |-> "register", user |-> u], "insertUser")
Login(r, u) == Begin(r, [op |-> "login", user |-> u], "findUser")
DeleteUser(r, u) == Begin(r, [op |-> "delete", user |-> u], "findUser")
RefreshToken(r, s) ==
  Begin(r, [op |-> "refresh", user |-> Owner(s), token |-> s], "findSession")
Logout(r, u, s) == Begin(r, [op |-> "logout", user |-> u, token |-> s], "findSession")

Taken(u) == account[u] # "none"

(* userRepo.Create: email and username stay taken by deleted users.        *)
InsertUser(r) ==
  /\ pc[r] = "insertUser"
  /\ IF Taken(call[r].user)
       THEN Answer(r, "error") /\ UNCHANGED account
       ELSE /\ account' = [account EXCEPT ![call[r].user] = "alive"]
            /\ Goto(r, "create")
  /\ UNCHANGED <<session, root, call, pending>>

(* FindActiveByRefreshTokenHash, and Logout's check of the owner.          *)
FindSession(r) ==
  /\ pc[r] = "findSession"
  /\ IF /\ session[call[r].token] = "active"
        /\ call[r].user = Owner(call[r].token)
       THEN Goto(r, IF call[r].op = "refresh" THEN "findUser" ELSE "revoke")
       ELSE Answer(r, "error")
  /\ UNCHANGED <<account, session, root, call, pending>>

(* Mutants: an Unscoped() lookup; a refresh that revokes nothing. *)
FindUserDeletedToo(r) ==
  /\ pc[r] = "findUser"
  /\ IF account[call[r].user] # "none"
       THEN Goto(r, CASE call[r].op = "login" -> "create"
                      [] call[r].op = "refresh" -> "revoke"
                      [] call[r].op = "delete" -> "softDelete")
       ELSE Answer(r, "error")
  /\ UNCHANGED <<account, session, root, call, pending>>

FindUserNoRotation(r) ==
  /\ pc[r] = "findUser"
  /\ IF account[call[r].user] = "alive"
       THEN Goto(r, IF call[r].op = "delete" THEN "softDelete" ELSE "create")
       ELSE Answer(r, "error")
  /\ UNCHANGED <<account, session, root, call, pending>>

(* FindByID, or FindByEmail and the password.                              *)
FindUser(r) ==
  /\ pc[r] = "findUser"
  /\ IF account[call[r].user] = "alive"
       THEN Goto(r, CASE call[r].op = "login" -> "create"
                      [] call[r].op = "refresh" -> "revoke"
                      [] call[r].op = "delete" -> "softDelete")
       ELSE Answer(r, "error")
  /\ UNCHANGED <<account, session, root, call, pending>>

(* Mutants: RowsAffected is not looked at; only Logout does not look. *)
RevokeUnchecked(r) ==
  /\ pc[r] = "revoke"
  /\ session' = [session EXCEPT ![call[r].token] = "revoked"]
  /\ IF call[r].op = "refresh" THEN Goto(r, "create") ELSE Answer(r, "ok")
  /\ UNCHANGED <<account, root, call, pending>>

RevokeIdempotentLogout(r) ==
  /\ pc[r] = "revoke"
  /\ session' = [session EXCEPT ![call[r].token] = "revoked"]
  /\ CASE call[r].op = "logout" -> Answer(r, "ok")
       [] session[call[r].token] # "revoked" -> Goto(r, "create")
       [] OTHER -> Answer(r, "error")
  /\ UNCHANGED <<account, root, call, pending>>

(* RevokeByID: UPDATE ... WHERE revoked_at IS NULL; no row is an error.    *)
Revoke(r) ==
  /\ pc[r] = "revoke"
  /\ LET s == call[r].token IN
     IF session[s] # "revoked"
       THEN /\ session' = [session EXCEPT ![s] = "revoked"]
            /\ IF call[r].op = "refresh" THEN Goto(r, "create") ELSE Answer(r, "ok")
       ELSE Answer(r, "error") /\ UNCHANGED session
  /\ UNCHANGED <<account, root, call, pending>>

(* createAuthResponse: sessionRepo.Create, then the tokens go to the       *)
(* client (unless the answer is lost: Fail at "reply").                    *)
CreateSession(r) ==
  /\ pc[r] = "create"
  /\ session' = [session EXCEPT ![r] = "active"]
  /\ root' = [root EXCEPT ![r] = IF call[r].op = "refresh" THEN root[call[r].token] ELSE r]
  /\ Goto(r, "reply")
  /\ UNCHANGED <<account, call, pending>>

Reply(r) ==
  /\ pc[r] = "reply"
  /\ Answer(r, "ok")
  /\ UNCHANGED <<account, session, root, call, pending>>

(* DeleteByID: gorm sets deleted_at; no row is an error.                   *)
SoftDelete(r) ==
  /\ pc[r] = "softDelete"
  /\ LET u == call[r].user IN
     IF account[u] = "alive"
       THEN /\ account' = [account EXCEPT ![u] = "deleted"]
            /\ pending' = [pending EXCEPT ![u] =
                 {s \in Requests : pc[s] \in {"revoke", "create"} /\ call[s].user = u}]
            /\ Goto(r, "revokeAll")
       ELSE Answer(r, "error") /\ UNCHANGED <<account, pending>>
  /\ UNCHANGED <<session, root, call>>

RevokeAll(r) ==
  /\ pc[r] = "revokeAll"
  /\ session' = [s \in Requests |->
       IF session[s] \in {"active", "expired"} /\ Owner(s) = call[r].user
         THEN "revoked" ELSE session[s]]
  /\ Answer(r, "ok")
  /\ UNCHANGED <<account, root, call, pending>>

(* The handler breaks off: a database error, or the 3 s deadline.          *)
Fail(r) ==
  /\ pc[r] \notin {"idle", "done"}
  /\ Answer(r, "error")
  /\ UNCHANGED <<account, session, root, call, pending>>

(* expires_at passes.                                                      *)
Expire(s) ==
  /\ session[s] = "active"
  /\ session' = [session EXCEPT ![s] = "expired"]
  /\ UNCHANGED <<account, root, call, pc, answer, pending>>

Ask(r) == \/ \E u \in Users : Register(r, u) \/ Login(r, u) \/ DeleteUser(r, u)
          \/ \E s \in Tokens : RefreshToken(r, s) \/ \E u \in Users : Logout(r, u, s)

Step(r) == \/ InsertUser(r) \/ FindSession(r) \/ FindUser(r) \/ Revoke(r)
           \/ CreateSession(r) \/ Reply(r) \/ SoftDelete(r) \/ RevokeAll(r)

Next == \E r \in Requests : Ask(r) \/ Step(r) \/ Fail(r) \/ Expire(r)

Spec == Init /\ [][Next]_vars
-----------------------------------------------------------------------------
AllCalls == [op : {"register", "login", "delete"}, user : Users]
              \cup [op : {"refresh", "logout"}, user : Users, token : Requests]

(* Types.  A session row, once made, stays (nothing calls DeleteExpired).  *)
TypeOK ==
  /\ account \in [Users -> {"none", "alive", "deleted"}]
  /\ session \in [Requests -> {"none", "active", "revoked", "expired"}]
  /\ root \in [Requests -> Requests]
  /\ call \in [Requests -> AllCalls \cup {Null}]
  /\ pc \in [Requests -> {"idle", "insertUser", "findSession", "findUser", "revoke",
                          "create", "reply", "softDelete", "revokeAll", "done"}]
  /\ answer \in [Requests -> {"none", "ok", "error"}]
  /\ pending \in [Users -> SUBSET Requests]

Redeemed(s) == {r \in Requests : call[r].op = "refresh" /\ call[r].token = s
                                  /\ session[r] # "none"}

(* A refresh token buys at most one new session, whoever presents it and   *)
(* however often: concurrent RefreshToken calls all read it as active, and *)
(* only one of them revokes it.                                            *)
RedeemedOnce == \A s \in Requests : Cardinality(Redeemed(s)) =< 1

(* So rotation never multiplies sessions: one login has at most one usable *)
(* session at a time.                                                      *)
OneSessionPerLogin ==
  \A s, t \in Requests :
    session[s] = "active" /\ session[t] = "active" /\ root[s] = root[t] => s = t

(* A logout that was answered with success ends the login: no refresh that *)
(* was under way at the time brings it back.                               *)
LogoutIsFinal ==
  \A r \in Requests : call[r].op = "logout" /\ answer[r] = "ok" =>
    \A s \in Requests : root[s] = root[call[r].token] => session[s] # "active"

(* A deleted user gets no new session, but for the calls that had already  *)
(* looked the account up when it was deleted.                              *)
NoSessionsForTheDeleted ==
  [][\A r \in Requests : session[r] = "none" /\ session'[r] = "active"
       /\ account[Owner(r)] = "deleted" => r \in pending[Owner(r)]]_vars
=============================================================================
