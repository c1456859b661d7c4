---------------------------- MODULE SessionsProofs ----------------------------
(* Theorems about Sessions, for any number of calls and users.             *)
EXTENDS Sessions, FiniteSetTheorems, TLAPS

Issues(op) == op \in {"register", "login", "refresh"}
Presents(op) == op \in {"refresh", "logout"}

(* Which kind of call is at which statement.                               *)
AtStage(r) ==
  /\ pc[r] = "idle" <=> call[r] = Null
  /\ pc[r] = "insertUser" => call[r].op = "register"
  /\ pc[r] = "findSession" => Presents(call[r].op)
  /\ pc[r] = "findUser" => call[r].op \in {"login", "refresh", "delete"}
  /\ pc[r] = "revoke" => Presents(call[r].op)
  /\ pc[r] \in {"create", "reply"} => Issues(call[r].op)
  /\ pc[r] \in {"softDelete", "revokeAll"} => call[r].op = "delete"
  /\ answer[r] # "none" => pc[r] = "done"
Stages == \A r \in Requests : AtStage(r)

(* A session is there from its statement on, and made by a call that       *)
(* issues tokens; what a call presents has been issued.                    *)
IssuedFor(r) ==
  /\ pc[r] = "reply" => session[r] # "none"
  /\ session[r] # "none" => pc[r] \in {"reply", "done"} /\ Issues(call[r].op)
  /\ Presents(call[r].op) => session[call[r].token] # "none"
Issued == \A r \in Requests : IssuedFor(r)

(* A session descends from one that was made.                              *)
Roots ==
  \A r \in Requests :
    /\ session[r] = "none" => root[r] = r
    /\ session[r] # "none" => session[root[r]] # "none"

(* The calls whose refresh has revoked its token.                          *)
Redeemer(r, s) == /\ call[r].op = "refresh" /\ call[r].token = s
                  /\ pc[r] = "create" \/ session[r] # "none"

Redemption ==
  \A s \in Requests :
    /\ \A r \in Requests : Redeemer(r, s) => session[s] = "revoked"
    /\ \A r, t \in Requests : Redeemer(r, s) /\ Redeemer(t, s) => r = t

(* Who can still act for the login x: a session that is not revoked, or a  *)
(* refresh that has revoked its token and not yet made the next one.       *)
Head(r, x) ==
  \/ session[r] \in {"active", "expired"} /\ root[r] = x
  \/ pc[r] = "create" /\ call[r].op = "refresh" /\ root[call[r].token] = x

OneHead == \A x \in Requests : \A r, t \in Requests : Head(r, x) /\ Head(t, x) => r = t

LoggedOut ==
  \A r, t, x \in Requests :
    call[r].op = "logout" /\ answer[r] = "ok" /\ root[call[r].token] = x => ~Head(t, x)

(* Past its look at the account a call outlives the account only if it was *)
(* under way when the account was deleted.                                 *)
Outlives(r) ==
  /\ pc[r] \in {"revoke", "create"} /\ Issues(call[r].op)
  /\ account[call[r].user] = "deleted"
  => r \in pending[call[r].user]
Outliving == \A r \in Requests : Outlives(r)

IInv == /\ TypeOK /\ Stages /\ Issued /\ Roots
        /\ Redemption /\ OneHead /\ LoggedOut /\ Outliving
-----------------------------------------------------------------------------
(* What is asked for, whatever it is.                                      *)
LEMMA AllCallsTypes ==
  ASSUME NEW c \in AllCalls
  PROVE  /\ c # Null
         /\ c.op \in {"register", "login", "delete", "refresh", "logout"}
         /\ c.user \in Users
         /\ Presents(c.op) => c.token \in Requests
<1>1. CASE c \in [op : {"register", "login", "delete"}, user : Users]
  <2>1. c.op \in {"register", "login", "delete"} /\ c.user \in Users
    BY <1>1
  <2>2. c # Null
    BY <2>1 DEF Null
  <2>3. QED  BY <2>1, <2>2 DEF Presents
<1>2. CASE c \in [op : {"refresh", "logout"}, user : Users, token : Requests]
  <2>1. c.op \in {"refresh", "logout"} /\ c.user \in Users /\ c.token \in Requests
    BY <1>2
  <2>2. c # Null
    BY <2>1 DEF Null
  <2>3. QED  BY <2>1, <2>2
<1>3. QED  BY <1>1, <1>2 DEF AllCalls

(* What a call in the state is.                                            *)
LEMMA CallTypes ==
  ASSUME TypeOK, NEW r \in Requests
  PROVE  /\ call[r] = Null => call[r].op = "null"
         /\ call[r] # Null => /\ call[r].op \in {"register", "login", "delete", "refresh", "logout"}
                              /\ call[r].user \in Users
         /\ Presents(call[r].op) => call[r] # Null /\ call[r].token \in Requests
         /\ Issues(call[r].op) => call[r] # Null
<1>1. call[r] \in AllCalls \cup {Null}
  BY DEF TypeOK
<1>2. Null.op = "null"
  BY DEF Null
<1>3. QED  BY <1>1, <1>2, AllCallsTypes DEF Presents, Issues

(* The invariant holds before the first call.                              *)
LEMMA InitIInv == Init => IInv
<1> SUFFICES ASSUME Init PROVE IInv
  OBVIOUS
<1>1. TypeOK
  BY DEF Init, TypeOK
<1>2. \A r \in Requests : call[r].op = "null"
  BY DEF Init, Null
<1>3. Stages /\ Issued /\ Roots
  BY <1>2 DEF Init, Stages, AtStage, Issued, IssuedFor, Roots, Presents, Issues
<1>4. Redemption /\ OneHead /\ LoggedOut /\ Outliving
  BY <1>2 DEF Init, Redemption, Redeemer, OneHead, Head, LoggedOut, Outliving, Outlives, Issues
<1>5. QED  BY <1>1, <1>3, <1>4 DEF IInv

(* A client asks: nothing but the call and its first statement changes.    *)
LEMMA BeginIInv ==
  ASSUME IInv, NEW r \in Requests, NEW c \in AllCalls, NEW first,
         Begin(r, c, first),
         first = "insertUser" => c.op = "register",
         first = "findUser" => c.op \in {"login", "delete"},
         first = "findSession" => Presents(c.op) /\ session[c.token] # "none",
         first \in {"insertUser", "findUser", "findSession"},
         Presents(c.op) => first = "findSession"
  PROVE  IInv'
<1> USE DEF IInv
<1>1. /\ pc[r] = "idle" /\ call' = [call EXCEPT ![r] = c] /\ pc' = [pc EXCEPT ![r] = first]
      /\ UNCHANGED <<account, session, root, answer, pending>>
  BY DEF Begin, Goto
<1>2. call[r] = Null /\ call[r].op = "null" /\ session[r] = "none" /\ answer[r] = "none"
  BY <1>1, CallTypes DEF Stages, AtStage, Issued, IssuedFor, TypeOK
<1>3. c # Null
  BY AllCallsTypes
<1>4. TypeOK'
  BY <1>1 DEF TypeOK
<1>5. \A t \in Requests \ {r} : call'[t] = call[t] /\ pc'[t] = pc[t]
  BY <1>1 DEF TypeOK
<1>6. call'[r] = c /\ pc'[r] = first
  BY <1>1 DEF TypeOK
<1>7. Stages'
  <2>1. c.op \in {"register", "login", "delete", "refresh", "logout"}
    BY AllCallsTypes
  <2>2. ASSUME NEW t \in Requests, t # r PROVE AtStage(t)'
    BY <1>1, <1>5, <2>2 DEF Stages, AtStage, Presents, Issues
  <2>3. AtStage(r)'
    BY <1>1, <1>2, <1>3, <1>6, <2>1 DEF AtStage, Presents, Issues
  <2>4. QED  BY <2>2, <2>3 DEF Stages
<1>8. Issued' /\ Roots'
  <2>1. ASSUME NEW t \in Requests, t # r PROVE IssuedFor(t)'
    BY <1>1, <1>5, <2>1 DEF Issued, IssuedFor, Presents, Issues
  <2>2. IssuedFor(r)'
    BY <1>1, <1>2, <1>6 DEF IssuedFor, Presents, Issues
  <2>3. Roots'
    BY <1>1 DEF Roots
  <2>4. QED  BY <2>1, <2>2, <2>3 DEF Issued
<1>9. \A t, s \in Requests : Redeemer(t, s)' <=> Redeemer(t, s)
  <2>1. \A s \in Requests : ~Redeemer(r, s) /\ ~Redeemer(r, s)'
    BY <1>1, <1>2, <1>6 DEF Redeemer
  <2>2. QED  BY <1>1, <1>5, <2>1 DEF Redeemer
<1>10. Redemption'
  BY <1>1, <1>9 DEF Redemption
<1>11. \A t, x \in Requests : Head(t, x)' <=> Head(t, x)
  <2>1. \A x \in Requests : ~Head(r, x) /\ ~Head(r, x)'
    BY <1>1, <1>2, <1>6 DEF Head
  <2>2. QED  BY <1>1, <1>5, <2>1 DEF Head
<1>12. OneHead'
  BY <1>11 DEF OneHead
<1>13. LoggedOut'
  <2>1. ~(answer'[r] = "ok")
    BY <1>1, <1>2
  <2>2. QED  BY <1>1, <1>5, <1>11, <2>1 DEF LoggedOut
<1>14. Outliving'
  BY <1>1, <1>5, <1>6 DEF Outliving, Outlives, Issues
<1>15. QED  BY <1>4, <1>7, <1>8, <1>10, <1>12, <1>13, <1>14

(* A statement that moves its own call on and writes no session.           *)
LEMMA MoveIInv ==
  ASSUME IInv, NEW r \in Requests, NEW l, NEW a,
         pc[r] # "idle", l # "idle", l # "reply",
         pc' = [pc EXCEPT ![r] = l], answer' = [answer EXCEPT ![r] = a],
         UNCHANGED <<session, root, call, pending>>,
         account' \in [Users -> {"none", "alive", "deleted"}],
         \A u \in Users : account'[u] = "deleted" => account[u] = "deleted",
         TypeOK', AtStage(r)', IssuedFor(r)', Outlives(r)',
         l = "create" => call[r].op # "refresh",
         call[r].op = "logout" => a # "ok"
  PROVE  IInv'
<1> USE DEF IInv
<1>1. \A t \in Requests \ {r} : pc'[t] = pc[t] /\ answer'[t] = answer[t]
  BY DEF TypeOK
<1>2. pc'[r] = l /\ answer'[r] = a
  BY DEF TypeOK
<1>3. Stages'
  <2>1. ASSUME NEW t \in Requests, t # r PROVE AtStage(t)'
    BY <1>1, <2>1 DEF Stages, AtStage, Presents, Issues
  <2>2. QED  BY <2>1 DEF Stages
<1>4. Issued' /\ Roots'
  <2>1. ASSUME NEW t \in Requests, t # r PROVE IssuedFor(t)'
    BY <1>1, <2>1 DEF Issued, IssuedFor, Presents, Issues
  <2>2. QED  BY <2>1 DEF Issued, Roots
<1>5. \A t, s \in Requests : Redeemer(t, s)' => Redeemer(t, s)
  BY <1>1, <1>2 DEF Redeemer
<1>6. Redemption'
  BY <1>5 DEF Redemption
<1>7. \A t, x \in Requests : Head(t, x)' => Head(t, x)
  BY <1>1, <1>2 DEF Head
<1>8. OneHead'
  BY <1>7 DEF OneHead
<1>9. LoggedOut'
  BY <1>1, <1>2, <1>7 DEF LoggedOut
<1>10. Outliving'
  <2>1. ASSUME NEW t \in Requests, t # r PROVE Outlives(t)'
    BY <1>1, <2>1, CallTypes, AllCallsTypes DEF Outliving, Outlives, Issues, TypeOK
  <2>2. QED  BY <2>1 DEF Outliving
<1>11. QED  BY <1>3, <1>4, <1>6, <1>8, <1>9, <1>10

(* The statements that write no session.                                   *)
LEMMA InsertUserIInv == ASSUME IInv, NEW r \in Requests, InsertUser(r) PROVE IInv'
<1> USE DEF IInv
<1>1. /\ pc[r] = "insertUser" /\ UNCHANGED <<session, root, call, pending>>
      /\ call[r].op = "register" /\ call[r].user \in Users /\ answer[r] = "none"
      /\ call[r] # Null /\ session[r] = "none"
  BY CallTypes DEF InsertUser, Stages, AtStage, Issued, IssuedFor, TypeOK
<1>2. CASE Taken(call[r].user)
  <2>1. /\ pc' = [pc EXCEPT ![r] = "done"] /\ answer' = [answer EXCEPT ![r] = "error"]
        /\ account' = account
    BY <1>2 DEF InsertUser, Answer
  <2>2. TypeOK'
    BY <1>1, <2>1 DEF TypeOK
  <2>3. AtStage(r)' /\ IssuedFor(r)' /\ Outlives(r)'
    BY <1>1, <2>1 DEF TypeOK, AtStage, IssuedFor, Outlives, Presents, Issues
  <2>4. account' \in [Users -> {"none", "alive", "deleted"}]
    BY <2>2 DEF TypeOK
  <2>5. QED  BY <1>1, <2>1, <2>2, <2>3, <2>4, MoveIInv
<1>3. CASE ~Taken(call[r].user)
  <2>1. /\ pc' = [pc EXCEPT ![r] = "create"] /\ answer' = answer
        /\ account' = [account EXCEPT ![call[r].user] = "alive"]
    BY <1>3 DEF InsertUser, Goto
  <2>2. TypeOK'
    BY <1>1, <2>1 DEF TypeOK
  <2>3. AtStage(r)' /\ IssuedFor(r)' /\ Outlives(r)'
    BY <1>1, <2>1 DEF TypeOK, AtStage, IssuedFor, Outlives, Presents, Issues
  <2>4. /\ account' \in [Users -> {"none", "alive", "deleted"}]
        /\ \A u \in Users : account'[u] = "deleted" => account[u] = "deleted"
    BY <1>1, <2>1, <2>2 DEF TypeOK
  <2>5. answer' = [answer EXCEPT ![r] = answer[r]]
    BY <2>1 DEF TypeOK
  <2>6. QED  BY <1>1, <2>1, <2>2, <2>3, <2>4, <2>5, MoveIInv
<1>4. QED  BY <1>2, <1>3

(* FindByTokenHash: a call whose token is usable goes on, one without ends. *)
LEMMA FindSessionIInv == ASSUME IInv, NEW r \in Requests, FindSession(r) PROVE IInv'
<1> USE DEF IInv
<1>1. /\ pc[r] = "findSession" /\ UNCHANGED <<account, session, root, call, pending>>
      /\ Presents(call[r].op) /\ answer[r] = "none" /\ call[r] # Null /\ session[r] = "none"
      /\ session[call[r].token] # "none"
  BY CallTypes DEF FindSession, Stages, AtStage, Issued, IssuedFor, TypeOK
<1>2. account' \in [Users -> {"none", "alive", "deleted"}]
  BY <1>1 DEF TypeOK
<1>3. ASSUME pc' = [pc EXCEPT ![r] = "done"], answer' = [answer EXCEPT ![r] = "error"]
      PROVE  IInv'
  <2>1. TypeOK'
    BY <1>1, <1>3 DEF TypeOK
  <2>2. AtStage(r)' /\ IssuedFor(r)' /\ Outlives(r)'
    BY <1>1, <1>3 DEF TypeOK, AtStage, IssuedFor, Outlives, Presents, Issues
  <2>3. QED  BY <1>1, <1>2, <1>3, <2>1, <2>2, MoveIInv
<1>4. ASSUME NEW l, l = IF call[r].op = "refresh" THEN "findUser" ELSE "revoke",
             pc' = [pc EXCEPT ![r] = l], answer' = answer
      PROVE  IInv'
  <2>1. l \in {"findUser", "revoke"}
    BY <1>4
  <2>2. TypeOK'
    BY <1>1, <1>4, <2>1 DEF TypeOK
  <2>3. AtStage(r)' /\ IssuedFor(r)' /\ Outlives(r)'
    BY <1>1, <1>4 DEF TypeOK, AtStage, IssuedFor, Outlives, Presents, Issues
  <2>4. answer' = [answer EXCEPT ![r] = answer[r]]
    BY <1>4 DEF TypeOK
  <2>5. QED  BY <1>1, <1>2, <1>4, <2>1, <2>2, <2>3, <2>4, MoveIInv
<1>5. QED  BY <1>3, <1>4 DEF FindSession, Answer, Goto

(* FindByID or FindByEmail: only the calls of a living account go on.      *)
LEMMA FindUserIInv == ASSUME IInv, NEW r \in Requests, FindUser(r) PROVE IInv'
<1> USE DEF IInv
<1>1. /\ pc[r] = "findUser" /\ UNCHANGED <<account, session, root, call, pending>>
      /\ call[r].op \in {"login", "refresh", "delete"} /\ answer[r] = "none"
      /\ call[r] # Null /\ session[r] = "none"
      /\ Presents(call[r].op) => session[call[r].token] # "none"
  BY CallTypes DEF FindUser, Stages, AtStage, Issued, IssuedFor, TypeOK
<1>2. account' \in [Users -> {"none", "alive", "deleted"}]
  BY <1>1 DEF TypeOK
<1>3. CASE account[call[r].user] # "alive"
  <2>1. pc' = [pc EXCEPT ![r] = "done"] /\ answer' = [answer EXCEPT ![r] = "error"]
    BY <1>3 DEF FindUser, Answer
  <2>2. TypeOK'
    BY <1>1, <2>1 DEF TypeOK
  <2>3. AtStage(r)' /\ IssuedFor(r)' /\ Outlives(r)'
    BY <1>1, <2>1 DEF TypeOK, AtStage, IssuedFor, Outlives, Presents, Issues
  <2>4. QED  BY <1>1, <1>2, <2>1, <2>2, <2>3, MoveIInv
<1>4. CASE account[call[r].user] = "alive"
  <2> DEFINE l == CASE call[r].op = "login" -> "create"
                    [] call[r].op = "refresh" -> "revoke"
                    [] call[r].op = "delete" -> "softDelete"
  <2>1. pc' = [pc EXCEPT ![r] = l] /\ answer' = answer
    BY <1>4 DEF FindUser, Goto
  <2>2. /\ call[r].op = "login" => l = "create"
        /\ call[r].op = "refresh" => l = "revoke"
        /\ call[r].op = "delete" => l = "softDelete"
    OBVIOUS
  <2> HIDE DEF l
  <2>3. l \in {"create", "revoke", "softDelete"}
    BY <1>1, <2>2
  <2>4. TypeOK'
    BY <1>1, <2>1, <2>3 DEF TypeOK
  <2>5. AtStage(r)' /\ IssuedFor(r)' /\ Outlives(r)'
    BY <1>1, <1>4, <2>1, <2>2 DEF TypeOK, AtStage, IssuedFor, Outlives, Presents, Issues
  <2>6. answer' = [answer EXCEPT ![r] = answer[r]]
    BY <2>1 DEF TypeOK
  <2>7. QED  BY <1>1, <1>2, <2>1, <2>2, <2>3, <2>4, <2>5, <2>6, MoveIInv
<1>5. QED  BY <1>3, <1>4

(* The answer with the tokens, whose session is there.                     *)
LEMMA ReplyIInv == ASSUME IInv, NEW r \in Requests, Reply(r) PROVE IInv'
<1> USE DEF IInv
<1>1. /\ pc[r] = "reply" /\ UNCHANGED <<account, session, root, call, pending>>
      /\ Issues(call[r].op) /\ call[r] # Null /\ session[r] # "none"
      /\ Presents(call[r].op) => session[call[r].token] # "none"
      /\ pc' = [pc EXCEPT ![r] = "done"] /\ answer' = [answer EXCEPT ![r] = "ok"]
  BY CallTypes DEF Reply, Answer, Stages, AtStage, Issued, IssuedFor, TypeOK
<1>2. TypeOK'
  BY <1>1 DEF TypeOK
<1>3. AtStage(r)' /\ IssuedFor(r)' /\ Outlives(r)'
  BY <1>1 DEF TypeOK, AtStage, IssuedFor, Outlives, Presents, Issues
<1>4. account' \in [Users -> {"none", "alive", "deleted"}] /\ call[r].op # "logout"
  BY <1>1 DEF TypeOK, Issues
<1>5. QED  BY <1>1, <1>2, <1>3, <1>4, MoveIInv

(* A handler that ends with an error tells no success.                     *)
LEMMA FailIInv ==
  ASSUME IInv, NEW r \in Requests, pc[r] \notin {"idle", "done"},
         Answer(r, "error"), UNCHANGED <<account, session, root, call, pending>>
  PROVE  IInv'
<1> USE DEF IInv
<1>1. /\ call[r] # Null
      /\ session[r] # "none" => Issues(call[r].op)
      /\ Presents(call[r].op) => session[call[r].token] # "none"
      /\ pc' = [pc EXCEPT ![r] = "done"] /\ answer' = [answer EXCEPT ![r] = "error"]
  BY DEF Answer, Stages, AtStage, Issued, IssuedFor
<1>2. TypeOK'
  BY <1>1 DEF TypeOK
<1>3. AtStage(r)' /\ IssuedFor(r)' /\ Outlives(r)'
  BY <1>1 DEF TypeOK, AtStage, IssuedFor, Outlives, Presents, Issues
<1>4. account' \in [Users -> {"none", "alive", "deleted"}]
  BY DEF TypeOK
<1>5. QED  BY <1>1, <1>2, <1>3, <1>4, MoveIInv

(* Sessions that end end for good: the statement of a deletion, and time.  *)
LEMMA FadeIInv ==
  ASSUME IInv, TypeOK', UNCHANGED <<account, root, call, pending>>,
         \A t \in Requests :
           /\ session'[t] = "none" <=> session[t] = "none"
           /\ session[t] = "revoked" => session'[t] = "revoked"
           /\ \/ pc'[t] = pc[t] /\ answer'[t] = answer[t]
              \/ call[t].op = "delete" /\ pc[t] # "idle" /\ pc'[t] = "done"
  PROVE  IInv'
<1> USE DEF IInv
<1>1. Stages'
  <2>1. ASSUME NEW t \in Requests PROVE AtStage(t)'
    BY DEF Stages, AtStage, Presents, Issues
  <2>2. QED  BY <2>1 DEF Stages
<1>2. \A t \in Requests : Presents(call[t].op) => call[t].token \in Requests
  BY CallTypes
<1>3. Issued'
  <2>1. ASSUME NEW t \in Requests PROVE IssuedFor(t)'
    BY <1>2 DEF Issued, IssuedFor, Presents, Issues
  <2>2. QED  BY <2>1 DEF Issued
<1>4. Roots'
  BY DEF Roots, TypeOK
<1>5. \A t, s \in Requests : Redeemer(t, s)' => Redeemer(t, s)
  BY DEF Redeemer
<1>6. Redemption'
  BY <1>5 DEF Redemption
<1>7. \A t, x \in Requests : Head(t, x)' => Head(t, x)
  BY DEF Head, TypeOK
<1>8. OneHead'
  BY <1>7 DEF OneHead
<1>9. LoggedOut'
  BY <1>7 DEF LoggedOut
<1>10. Outliving'
  <2>1. ASSUME NEW t \in Requests PROVE Outlives(t)'
    BY DEF Outliving, Outlives, Issues
  <2>2. QED  BY <2>1 DEF Outliving
<1>11. QED  BY <1>1, <1>3, <1>4, <1>6, <1>8, <1>9, <1>10

(* Time ends a session; nothing makes it usable again.                     *)
LEMMA ExpireIInv == ASSUME IInv, NEW s \in Requests, Expire(s) PROVE IInv'
<1> USE DEF IInv
<1>1. /\ session[s] = "active" /\ session' = [session EXCEPT ![s] = "expired"]
      /\ UNCHANGED <<account, root, call, pc, answer, pending>>
  BY DEF Expire
<1>2. TypeOK'
  BY <1>1 DEF TypeOK
<1>3. \A t \in Requests : /\ session'[t] = "none" <=> session[t] = "none"
                          /\ session[t] = "revoked" => session'[t] = "revoked"
  BY <1>1 DEF TypeOK
<1>4. QED  BY <1>1, <1>2, <1>3, FadeIInv

(* The second statement of a deletion ends the sessions there are.         *)
LEMMA RevokeAllIInv == ASSUME IInv, NEW r \in Requests, RevokeAll(r) PROVE IInv'
<1> USE DEF IInv
<1>1. /\ pc[r] = "revokeAll" /\ call[r].op = "delete"
      /\ pc' = [pc EXCEPT ![r] = "done"] /\ answer' = [answer EXCEPT ![r] = "ok"]
      /\ UNCHANGED <<account, root, call, pending>>
  BY DEF RevokeAll, Answer, Stages, AtStage
<1>2. session' = [s \in Requests |->
        IF session[s] \in {"active", "expired"} /\ Owner(s) = call[r].user
          THEN "revoked" ELSE session[s]]
  BY DEF RevokeAll
<1>3. \A t \in Requests : /\ session'[t] = "none" <=> session[t] = "none"
                          /\ session[t] = "revoked" => session'[t] = "revoked"
  BY <1>2
<1>4. session' \in [Requests -> {"none", "active", "revoked", "expired"}]
  BY <1>2 DEF TypeOK
<1>5. TypeOK'
  BY <1>1, <1>4 DEF TypeOK
<1>6. \A t \in Requests : \/ pc'[t] = pc[t] /\ answer'[t] = answer[t]
                          \/ call[t].op = "delete" /\ pc[t] # "idle" /\ pc'[t] = "done"
  BY <1>1 DEF TypeOK
<1>7. QED  BY <1>1, <1>3, <1>5, <1>6, FadeIInv

(* The first one remembers the calls that had looked the account up.       *)
LEMMA SoftDeleteIInv == ASSUME IInv, NEW r \in Requests, SoftDelete(r) PROVE IInv'
<1> USE DEF IInv
<1> DEFINE u == call[r].user
           flight == {s \in Requests : pc[s] \in {"revoke", "create"} /\ call[s].user = u}
<1>1. /\ pc[r] = "softDelete" /\ call[r].op = "delete" /\ call[r] # Null /\ u \in Users
      /\ answer[r] = "none" /\ session[r] = "none" /\ UNCHANGED <<session, root, call>>
  BY CallTypes DEF SoftDelete, Stages, AtStage, Issued, IssuedFor, TypeOK
<1>2. CASE account[u] # "alive"
  BY <1>1, <1>2, FailIInv DEF SoftDelete
<1>3. CASE account[u] = "alive"
  <2>1. /\ account' = [account EXCEPT ![u] = "deleted"]
        /\ pending' = [pending EXCEPT ![u] = flight]
        /\ pc' = [pc EXCEPT ![r] = "revokeAll"] /\ answer' = answer
    BY <1>3 DEF SoftDelete, Goto
  <2>2. TypeOK'
    BY <1>1, <2>1 DEF TypeOK
  <2>3. /\ pc'[r] = "revokeAll"
        /\ \A t \in Requests \ {r} : pc'[t] = pc[t]
    BY <2>1 DEF TypeOK
  <2>4. Stages'
    <3>1. ASSUME NEW t \in Requests PROVE AtStage(t)'
      BY <1>1, <2>1, <2>3 DEF Stages, AtStage, Presents, Issues
    <3>2. QED  BY <3>1 DEF Stages
  <2>5. Issued' /\ Roots'
    <3>1. ASSUME NEW t \in Requests PROVE IssuedFor(t)'
      BY <1>1, <2>1, <2>3 DEF Issued, IssuedFor, Presents, Issues
    <3>2. QED  BY <1>1, <3>1 DEF Issued, Roots
  <2>6. \A t, s \in Requests : Redeemer(t, s)' => Redeemer(t, s)
    BY <1>1, <2>3 DEF Redeemer
  <2>7. Redemption'
    BY <1>1, <2>6 DEF Redemption
  <2>8. \A t, x \in Requests : Head(t, x)' => Head(t, x)
    BY <1>1, <2>3 DEF Head
  <2>9. OneHead' /\ LoggedOut'
    BY <1>1, <2>1, <2>8 DEF OneHead, LoggedOut
  <2>10. Outliving'
    <3> SUFFICES ASSUME NEW t \in Requests, pc'[t] \in {"revoke", "create"},
                        Issues(call[t].op), account'[call[t].user] = "deleted"
                 PROVE  t \in pending'[call[t].user]
      BY <1>1 DEF Outliving, Outlives, Issues
    <3>1. t # r /\ pc[t] \in {"revoke", "create"} /\ call[t].user \in Users
      BY <2>3, CallTypes
    <3>2. CASE call[t].user = u
      BY <2>1, <3>1, <3>2 DEF TypeOK
    <3>3. CASE call[t].user # u
      BY <2>1, <3>1, <3>3 DEF TypeOK, Outliving, Outlives
    <3>4. QED  BY <3>2, <3>3
  <2>11. QED  BY <2>2, <2>4, <2>5, <2>7, <2>9, <2>10
<1>4. QED  BY <1>2, <1>3

(* The UPDATE that ends the session of a token: the refresh that did it    *)
(* takes the place of the session, a logout leaves none.                   *)
LEMMA RevokeIInv == ASSUME IInv, NEW r \in Requests, Revoke(r) PROVE IInv'
<1> USE DEF IInv
<1> DEFINE s == call[r].token
<1>1. /\ pc[r] = "revoke" /\ UNCHANGED <<account, root, call, pending>>
      /\ Presents(call[r].op) /\ call[r] # Null /\ s \in Requests
      /\ answer[r] = "none" /\ session[r] = "none" /\ session[s] # "none" /\ s # r
  BY CallTypes DEF Revoke, Stages, AtStage, Issued, IssuedFor, TypeOK
<1>2. CASE session[s] = "revoked"
  BY <1>1, <1>2, FailIInv DEF Revoke
<1>3. CASE session[s] # "revoked"
  <2>1. /\ session' = [session EXCEPT ![s] = "revoked"]
        /\ IF call[r].op = "refresh" THEN Goto(r, "create") ELSE Answer(r, "ok")
    BY <1>3 DEF Revoke
  <2>2. /\ session[s] \in {"active", "expired"} /\ pc[s] \in {"reply", "done"}
        /\ Head(s, root[s]) /\ root[s] \in Requests
    BY <1>1, <1>3 DEF TypeOK, Issued, IssuedFor, Head
  <2>3. /\ \A t \in Requests \ {s} : session'[t] = session[t]
        /\ session'[s] = "revoked"
    BY <1>1, <2>1 DEF TypeOK
  <2>4. /\ \A t \in Requests \ {r} : pc'[t] = pc[t] /\ answer'[t] = answer[t]
        /\ call[r].op = "refresh" => pc'[r] = "create" /\ answer'[r] = "none"
        /\ call[r].op = "logout" => pc'[r] = "done" /\ answer'[r] = "ok"
    BY <1>1, <2>1 DEF TypeOK, Goto, Answer, Presents
  <2>5. TypeOK'
    <3>1. session' \in [Requests -> {"none", "active", "revoked", "expired"}]
      BY <1>1, <2>1 DEF TypeOK
    <3>2. CASE call[r].op = "refresh"
      BY <1>1, <2>1, <3>1, <3>2 DEF TypeOK, Goto
    <3>3. CASE call[r].op # "refresh"
      BY <1>1, <2>1, <3>1, <3>3 DEF TypeOK, Answer
    <3>4. QED  BY <3>2, <3>3
  <2>6. Stages'
    <3>1. ASSUME NEW t \in Requests PROVE AtStage(t)'
      BY <1>1, <2>4 DEF Stages, AtStage, Presents, Issues
    <3>2. QED  BY <3>1 DEF Stages
  <2>7. Issued' /\ Roots'
    <3>1. \A t \in Requests : session'[t] = "none" <=> session[t] = "none"
      BY <2>2, <2>3
    <3>2. \A t \in Requests : Presents(call[t].op) => call[t].token \in Requests
      BY CallTypes
    <3>3. ASSUME NEW t \in Requests PROVE IssuedFor(t)'
      BY <1>1, <2>4, <3>1, <3>2 DEF Issued, IssuedFor, Presents, Issues
    <3>4. QED  BY <1>1, <3>1, <3>3 DEF Issued, Roots, TypeOK
  <2>8. \A t, x \in Requests : Redeemer(t, x)' => Redeemer(t, x) \/ (t = r /\ x = s)
    <3> SUFFICES ASSUME NEW t \in Requests, NEW x \in Requests, Redeemer(t, x)'
                 PROVE  Redeemer(t, x) \/ (t = r /\ x = s)
      OBVIOUS
    <3>1. CASE t = r
      BY <1>1, <3>1 DEF Redeemer
    <3>2. CASE t # r
      <4>1. session'[t] = "none" <=> session[t] = "none"
        BY <2>2, <2>3
      <4>2. QED  BY <1>1, <2>4, <3>2, <4>1 DEF Redeemer
    <3>3. QED  BY <3>1, <3>2
  <2>9. \A t \in Requests : ~Redeemer(t, s)
    BY <1>1, <1>3 DEF Redemption
  <2>10. Redemption'
    BY <1>1, <2>3, <2>8, <2>9 DEF Redemption
  <2>11. \A t, x \in Requests :
           Head(t, x)' => /\ t # s
                          /\ Head(t, x) \/ (t = r /\ x = root[s] /\ call[r].op = "refresh")
    <3> SUFFICES ASSUME NEW t \in Requests, NEW x \in Requests, Head(t, x)'
                 PROVE  /\ t # s
                        /\ Head(t, x) \/ (t = r /\ x = root[s] /\ call[r].op = "refresh")
      OBVIOUS
    <3>1. t # s
      BY <1>1, <2>2, <2>3, <2>4 DEF Head
    <3>2. CASE t = r
      BY <1>1, <2>3, <3>1, <3>2 DEF Head
    <3>3. CASE t # r
      <4>1. session'[t] = session[t] /\ pc'[t] = pc[t]
        BY <2>3, <2>4, <3>1, <3>3
      <4>2. root' = root /\ call' = call
        BY <1>1
      <4>3. Head(t, x)
        BY <4>1, <4>2 DEF Head
      <4>4. QED  BY <3>1, <4>3
    <3>4. QED  BY <3>1, <3>2, <3>3
  <2>12. OneHead'
    BY <1>1, <2>2, <2>11 DEF OneHead
  <2>13. LoggedOut'
    <3> SUFFICES ASSUME NEW q \in Requests, NEW t \in Requests, NEW x \in Requests,
                        call[q].op = "logout", answer'[q] = "ok", root[call[q].token] = x,
                        Head(t, x)'
                 PROVE  FALSE
      BY <1>1 DEF LoggedOut
    <3>1. CASE q = r
      BY <1>1, <2>2, <2>11, <3>1 DEF OneHead
    <3>2. CASE q # r
      BY <1>1, <2>2, <2>4, <2>11, <3>2 DEF LoggedOut
    <3>3. QED  BY <3>1, <3>2
  <2>14. Outliving'
    <3>1. ASSUME NEW t \in Requests PROVE Outlives(t)'
      BY <1>1, <2>4 DEF Outliving, Outlives, Issues, Presents
    <3>2. QED  BY <3>1 DEF Outliving
  <2>15. QED  BY <2>5, <2>6, <2>7, <2>10, <2>12, <2>13, <2>14
<1>4. QED  BY <1>2, <1>3

(* The new session: a refresh's in place of the one it revoked, any        *)
(* other's at the root of a login that nobody had a session of.            *)
LEMMA CreateSessionIInv == ASSUME IInv, NEW r \in Requests, CreateSession(r) PROVE IInv'
<1> USE DEF IInv
<1> DEFINE s == call[r].token
           x0 == IF call[r].op = "refresh" THEN root[s] ELSE r
<1>1. /\ pc[r] = "create" /\ UNCHANGED <<account, call, answer, pending>>
      /\ session' = [session EXCEPT ![r] = "active"] /\ root' = [root EXCEPT ![r] = x0]
      /\ pc' = [pc EXCEPT ![r] = "reply"]
  BY DEF CreateSession, Goto
<1>2. /\ Issues(call[r].op) /\ call[r] # Null /\ answer[r] = "none"
      /\ session[r] = "none" /\ root[r] = r
      /\ call[r].op = "refresh" => s \in Requests /\ session[s] # "none" /\ s # r
  BY <1>1, CallTypes DEF Stages, AtStage, Issued, IssuedFor, Roots, TypeOK, Presents
<1>3. x0 \in Requests /\ (x0 # r => session[x0] # "none")
  BY <1>2 DEF TypeOK, Roots
<1> HIDE DEF x0
<1>4. /\ session'[r] = "active" /\ root'[r] = x0 /\ pc'[r] = "reply"
      /\ \A t \in Requests \ {r} :
           session'[t] = session[t] /\ root'[t] = root[t] /\ pc'[t] = pc[t]
  BY <1>1 DEF TypeOK
<1>5. TypeOK'
  BY <1>1, <1>3 DEF TypeOK
<1>6. Stages'
  <2>1. ASSUME NEW t \in Requests PROVE AtStage(t)'
    BY <1>1, <1>2, <1>4 DEF Stages, AtStage, Presents, Issues
  <2>2. QED  BY <2>1 DEF Stages
<1>7. \A t \in Requests : session[t] # "none" => session'[t] # "none" /\ root'[t] = root[t]
  BY <1>2, <1>4
<1>8. \A t \in Requests : Presents(call[t].op) =>
        call[t].token \in Requests /\ session[call[t].token] # "none"
  BY CallTypes DEF Issued, IssuedFor
<1>9. Issued'
  <2>1. ASSUME NEW t \in Requests PROVE IssuedFor(t)'
    BY <1>1, <1>2, <1>4, <1>7, <1>8 DEF Issued, IssuedFor, Presents, Issues
  <2>2. QED  BY <2>1 DEF Issued
<1>10. Roots'
  BY <1>2, <1>3, <1>4, <1>7 DEF Roots, TypeOK
<1>11. \A t, x \in Requests : Redeemer(t, x)' => Redeemer(t, x)
  BY <1>1, <1>2, <1>4 DEF Redeemer
<1>12. \A t \in Requests : session[t] = "revoked" => session'[t] = "revoked"
  BY <1>2, <1>4
<1>13. Redemption'
  BY <1>1, <1>11, <1>12 DEF Redemption
<1>14. \A t, x \in Requests : Head(t, x)' => Head(t, x) \/ (t = r /\ x = x0)
  <2> SUFFICES ASSUME NEW t \in Requests, NEW x \in Requests, Head(t, x)'
               PROVE  Head(t, x) \/ (t = r /\ x = x0)
    OBVIOUS
  <2>1. CASE t = r
    BY <1>4, <2>1 DEF Head
  <2>2. CASE t # r
    <3>1. session'[t] = session[t] /\ root'[t] = root[t] /\ pc'[t] = pc[t]
      BY <1>4, <2>2
    <3>2. call' = call
      BY <1>1
    <3>3. call[t].op = "refresh" => root'[call[t].token] = root[call[t].token]
      BY <1>7, <1>8 DEF Presents
    <3>4. Head(t, x)
      BY <3>1, <3>2, <3>3 DEF Head
    <3>5. QED  BY <3>4
  <2>3. QED  BY <2>1, <2>2
<1>15. \A t \in Requests : t # r /\ Head(t, x0) => FALSE
  <2>1. CASE call[r].op = "refresh"
    <3>1. Head(r, x0)
      BY <1>1, <2>1 DEF Head, x0
    <3>2. QED  BY <1>3, <3>1 DEF OneHead
  <2>2. CASE call[r].op # "refresh"
    <3>1. x0 = r
      BY <2>2 DEF x0
    <3>2. \A t \in Requests : session[t] # "none" => root[t] # r
      BY <1>2 DEF Roots
    <3>3. QED  BY <1>8, <3>1, <3>2 DEF Head, Presents
  <2>3. QED  BY <2>1, <2>2
<1>16. OneHead'
  BY <1>1, <1>14, <1>15 DEF OneHead
<1>17. LoggedOut'
  <2> SUFFICES ASSUME NEW q \in Requests, NEW t \in Requests, NEW x \in Requests,
                      call[q].op = "logout", answer[q] = "ok", root'[call[q].token] = x,
                      Head(t, x)'
               PROVE  FALSE
    BY <1>1 DEF LoggedOut
  <2>1. root[call[q].token] = x /\ call[q].token \in Requests /\ session[call[q].token] # "none"
    BY <1>7, <1>8 DEF Presents
  <2>2. ~Head(r, x) /\ ~Head(t, x)
    BY <2>1 DEF LoggedOut
  <2>3. x = x0
    BY <1>14, <2>2
  <2>4. x # r
    BY <1>2, <2>1 DEF Roots
  <2>5. call[r].op = "refresh"
    BY <2>3, <2>4 DEF x0
  <2>6. Head(r, x)
    BY <1>1, <2>3, <2>5 DEF Head, x0
  <2>7. QED  BY <2>2, <2>6
<1>18. Outliving'
  <2>1. ASSUME NEW t \in Requests PROVE Outlives(t)'
    BY <1>1, <1>4 DEF Outliving, Outlives, Issues
  <2>2. QED  BY <2>1 DEF Outliving
<1>19. QED  BY <1>5, <1>6, <1>9, <1>10, <1>13, <1>16, <1>17, <1>18

(* What a client asks for is a call of its kind, at its first statement.   *)
LEMMA AskIInv == ASSUME IInv, NEW r \in Requests, Ask(r) PROVE IInv'
<1> USE DEF IInv
<1>1. ASSUME NEW u \in Users, NEW op \in {"register", "login", "delete"}
      PROVE  [op |-> op, user |-> u] \in AllCalls
  BY DEF AllCalls
<1>2. ASSUME NEW u \in Users, NEW s \in Requests, NEW op \in {"refresh", "logout"}
      PROVE  [op |-> op, user |-> u, token |-> s] \in AllCalls
  BY DEF AllCalls
<1>3. ASSUME NEW u \in Users, Register(r, u) \/ Login(r, u) \/ DeleteUser(r, u) PROVE IInv'
  <2>1. CASE Register(r, u)
    <3>1. Begin(r, [op |-> "register", user |-> u], "insertUser")
      BY <2>1 DEF Register
    <3>2. QED  BY <1>1, <3>1, BeginIInv DEF Presents
  <2>2. CASE Login(r, u)
    <3>1. Begin(r, [op |-> "login", user |-> u], "findUser")
      BY <2>2 DEF Login
    <3>2. QED  BY <1>1, <3>1, BeginIInv DEF Presents
  <2>3. CASE DeleteUser(r, u)
    <3>1. Begin(r, [op |-> "delete", user |-> u], "findUser")
      BY <2>3 DEF DeleteUser
    <3>2. QED  BY <1>1, <3>1, BeginIInv DEF Presents
  <2>4. QED  BY <1>3, <2>1, <2>2, <2>3
<1>4. ASSUME NEW s \in Tokens PROVE s \in Requests /\ session[s] # "none" /\ Owner(s) \in Users
  <2>1. s \in Requests /\ session[s] # "none"
    BY DEF Tokens
  <2>2. QED  BY <2>1, CallTypes DEF Owner, Issued, IssuedFor
<1>5. ASSUME NEW s \in Tokens, RefreshToken(r, s) PROVE IInv'
  <2>1. Begin(r, [op |-> "refresh", user |-> Owner(s), token |-> s], "findSession")
    BY <1>5 DEF RefreshToken
  <2>2. QED  BY <1>2, <1>4, <2>1, BeginIInv DEF Presents
<1>6. ASSUME NEW s \in Tokens, NEW u \in Users, Logout(r, u, s) PROVE IInv'
  <2>1. Begin(r, [op |-> "logout", user |-> u, token |-> s], "findSession")
    BY <1>6 DEF Logout
  <2>2. QED  BY <1>2, <1>4, <2>1, BeginIInv DEF Presents
<1>7. QED  BY <1>3, <1>5, <1>6 DEF Ask

(* Every step keeps the invariant.                                         *)
LEMMA StepIInv == IInv /\ [Next]_vars => IInv'
<1> SUFFICES ASSUME IInv, [Next]_vars PROVE IInv'
  OBVIOUS
<1>1. ASSUME NEW r \in Requests, Ask(r) PROVE IInv'
  BY <1>1, AskIInv
<1>2. ASSUME NEW r \in Requests, Step(r) PROVE IInv'
  BY <1>2, InsertUserIInv, FindSessionIInv, FindUserIInv, RevokeIInv, CreateSessionIInv,
     ReplyIInv, SoftDeleteIInv, RevokeAllIInv DEF Step
<1>3. ASSUME NEW r \in Requests, Fail(r) PROVE IInv'
  BY <1>3, FailIInv DEF Fail
<1>4. ASSUME NEW r \in Requests, Expire(r) PROVE IInv'
  BY <1>4, ExpireIInv
<1>5. CASE UNCHANGED vars
  <2>1. UNCHANGED <<account, session, root, call, pc, answer, pending>>
    BY <1>5 DEF vars
  <2>2. TypeOK'
    BY <2>1 DEF IInv, TypeOK
  <2>3. QED  BY <2>1, <2>2, FadeIInv
<1>6. QED  BY <1>1, <1>2, <1>3, <1>4, <1>5 DEF Next
-----------------------------------------------------------------------------
(* The inductive invariant holds in every reachable state.                 *)
THEOREM InductiveInvariant == Spec => []IInv
  BY InitIInv, StepIInv, PTL DEF Spec

(* Type correctness: in particular a session row that is made stays.       *)
THEOREM TypeCorrect == Spec => []TypeOK
  BY InductiveInvariant, PTL DEF IInv

(* Whoever presents a refresh token, however often and concurrently, at    *)
(* most one new session comes of it.                                       *)
THEOREM TokensRedeemedOnce == Spec => []RedeemedOnce
<1>1. IInv => RedeemedOnce
  <2> SUFFICES ASSUME IInv, NEW s \in Requests PROVE Cardinality(Redeemed(s)) =< 1
    BY DEF RedeemedOnce
  <2>1. \A r, t \in Redeemed(s) : r = t
    BY DEF IInv, Redemption, Redeemer, Redeemed
  <2>2. CASE Redeemed(s) = {}
    BY <2>2, FS_EmptySet
  <2>3. CASE Redeemed(s) # {}
    <3>1. PICK r : r \in Redeemed(s)
      BY <2>3
    <3>2. Redeemed(s) = {r}
      BY <2>1, <3>1
    <3>3. Cardinality({r}) = 1
      BY FS_Singleton
    <3>4. QED  BY <3>2, <3>3
  <2>4. QED  BY <2>2, <2>3
<1>2. QED  BY <1>1, InductiveInvariant, PTL

(* Rotation never multiplies sessions: a login has at most one that can be *)
(* used at any time.                                                       *)
THEOREM RotationKeepsOneSession == Spec => []OneSessionPerLogin
<1>1. IInv => OneSessionPerLogin
  BY DEF IInv, TypeOK, OneHead, Head, OneSessionPerLogin
<1>2. QED  BY <1>1, InductiveInvariant, PTL

(* After a logout that was answered with success no session of its login   *)
(* is usable again, whatever refresh was under way.                        *)
THEOREM LogoutEndsTheLogin == Spec => []LogoutIsFinal
<1>1. IInv => LogoutIsFinal
  <2> SUFFICES ASSUME IInv, NEW r \in Requests, call[r].op = "logout", answer[r] = "ok",
                      NEW s \in Requests, root[s] = root[call[r].token]
               PROVE  session[s] # "active"
    BY DEF LogoutIsFinal
  <2>1. root[s] \in Requests
    BY DEF IInv, TypeOK
  <2>2. ~Head(s, root[s])
    BY <2>1 DEF IInv, LoggedOut
  <2>3. QED  BY <2>2 DEF Head
<1>2. QED  BY <1>1, InductiveInvariant, PTL

(* A deleted user gets a session only from a call that had looked the      *)
(* account up before it was deleted.                                       *)
THEOREM DeletedUsersStayOut == Spec => NoSessionsForTheDeleted
<1>1. ASSUME IInv, [Next]_vars, NEW r \in Requests,
             session[r] = "none", session'[r] = "active", account[Owner(r)] = "deleted"
      PROVE  r \in pending[Owner(r)]
  <2>1. CreateSession(r)
    <3>1. ASSUME NEW t \in Requests, CreateSession(t) PROVE t = r
      BY <1>1, <3>1 DEF CreateSession, IInv, TypeOK
    <3>2. ASSUME NEW t \in Requests, Revoke(t) PROVE FALSE
      BY <1>1, <3>2 DEF Revoke, IInv, TypeOK
    <3>3. ASSUME NEW t \in Requests, RevokeAll(t) PROVE FALSE
      BY <1>1, <3>3 DEF RevokeAll, IInv, TypeOK
    <3>4. ASSUME NEW t \in Requests, Expire(t) PROVE FALSE
      BY <1>1, <3>4 DEF Expire, IInv, TypeOK
    <3>5. ASSUME UNCHANGED session PROVE FALSE
      BY <1>1, <3>5
    <3>6. ASSUME NEW t \in Requests, Step(t) PROVE t = r /\ CreateSession(t)
      BY <3>1, <3>2, <3>3, <3>5, <3>6
      DEF Step, InsertUser, FindSession, FindUser, Reply, SoftDelete
    <3>7. ASSUME NEW t \in Requests, Ask(t) \/ Fail(t) PROVE FALSE
      BY <3>5, <3>7 DEF Ask, Fail, Begin, Register, Login, DeleteUser, RefreshToken, Logout
    <3>8. QED  BY <1>1, <3>4, <3>5, <3>6, <3>7 DEF Next, vars
  <2>2. pc[r] = "create" /\ Issues(call[r].op)
    BY <1>1, <2>1 DEF CreateSession, IInv, Stages, AtStage
  <2>3. QED  BY <1>1, <2>2 DEF IInv, Outliving, Outlives, Owner
<1>2. IInv /\ [Next]_vars =>
        [\A r \in Requests : session[r] = "none" /\ session'[r] = "active"
           /\ account[Owner(r)] = "deleted" => r \in pending[Owner(r)]]_vars
  BY <1>1
<1>3. QED  BY <1>2, InductiveInvariant, PTL DEF Spec, NoSessionsForTheDeleted
=============================================================================
