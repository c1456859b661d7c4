---------------------------- MODULE GatewayProofs ----------------------------
(* What the gateway promises its clients, for any requests that meet and   *)
(* every failure, deadline and stopped process:                            *)
(*   - a row of media has its file, and a file without a row is shown by   *)
(*     no post and was not answered with 201 (MInv);                       *)
(*   - every call is at a statement of its own route, and whoever deleted  *)
(*     the account is without effect from then on (PInv);                  *)
(*   - a 2xx stands until it is taken back, a 4xx left nothing (EInv);     *)
(*   - a list holds the newest of what was there all the while (TInv);     *)
(*   - a client that scrolls meets every post once (SInv);                 *)
(*   - whatever a service ends in has a status for its client (KInv).      *)
EXTENDS Gateway, TLAPS, FiniteSetTheorems, WellFoundedInduction

Functional(f) == f = [r \in Requests |-> f[r]]

(* The statements of an upload are those of no other call.                 *)
UploadLabels == {"new", "put", "row", "out", "end"}
Placed ==
  \A r \in Requests : /\ Op(r) = "upload" => pc[r] \in UploadLabels
                      /\ pc[r] \in {"put", "row"} => Op(r) = "upload"

(* At the second statement the file is there.                              *)
FileFirst == /\ media \subseteq objects
             /\ \A r \in Requests : pc[r] = "row" => r \in objects

(* Objects are uploads, and a success has its row.                         *)
OfUploads == \A r \in objects : r \in Requests /\ Op(r) = "upload"
Recorded ==
  \A r \in Requests : Op(r) = "upload" /\ (out[r] = "ok" \/ status[r] = 201) => r \in media

(* Posts show what has a row.                                              *)
Shown == \A r \in Requests : home[r] # None => r \in media

MInv ==
  /\ Functional(pc) /\ Functional(out) /\ Functional(status) /\ Functional(home)
  /\ Placed /\ FileFirst /\ OfUploads /\ Recorded /\ Shown
-----------------------------------------------------------------------------
(* The invariant implies the property of the run.                          *)
LEMMA MInvAccounts == MInv => ObjectsAccounted
  BY DEF MInv, FileFirst, OfUploads, Recorded, Shown, ObjectsAccounted

(* It holds before the first request.                                      *)
LEMMA InitMInv == Init => MInv
<1> SUFFICES ASSUME Init PROVE MInv
  OBVIOUS
<1>1. /\ Functional(pc) /\ Functional(out) /\ Functional(status) /\ Functional(home)
  BY DEF Init, Functional
<1>2. /\ objects = {} /\ media = {}
      /\ \A r \in Requests : /\ pc[r] \in {"new", "end"} /\ out[r] = None
                             /\ status[r] = 0 /\ home[r] = None
  BY DEF Init
<1>3. None # "ok"
  BY DEF None
<1>4. QED
  BY <1>1, <1>2, <1>3 DEF MInv, Placed, UploadLabels, FileFirst, OfUploads, Recorded, Shown

(* An assignment to one element keeps a function on Requests one.          *)
LEMMA ExceptAt ==
  ASSUME NEW f, Functional(f), NEW r \in Requests, NEW x,
         NEW g, g = [f EXCEPT ![r] = x]
  PROVE  /\ Functional(g) /\ g[r] = x
         /\ \A s \in Requests : s # r => g[s] = f[s]
<1>1. f = [s \in Requests |-> f[s]]
  BY DEF Functional
<1>2. g = [s \in Requests |-> IF s = r THEN x ELSE f[s]]
  BY <1>1
<1>3. \A s \in Requests : g[s] = IF s = r THEN x ELSE f[s]
  BY <1>2
<1>4. Functional(g)
  BY <1>2, <1>3 DEF Functional
<1>5. QED  BY <1>3, <1>4

(* A call that goes on to a statement that is not one of an upload.        *)
LEMMA GoesOn ==
  ASSUME MInv, NEW r \in Requests, NEW x, Goto(r, x), UNCHANGED <<call, Files, status>>,
         x \notin {"put", "row"}, Op(r) # "upload"
  PROVE  MInv'
<1>1. /\ Functional(pc') /\ pc'[r] = x
      /\ \A s \in Requests : s # r => pc'[s] = pc[s]
  <2>1. Functional(pc) /\ pc' = [pc EXCEPT ![r] = x]
    BY DEF Goto, MInv
  <2>2. QED  BY <2>1, ExceptAt DEF Functional
<1>2. /\ out' = out /\ status' = status /\ call' = call
      /\ objects' = objects /\ media' = media /\ home' = home
  BY DEF Goto, Files
<1>3. Placed' /\ FileFirst'
  BY <1>1, <1>2 DEF MInv, Placed, FileFirst, UploadLabels, Op
<1>4. OfUploads' /\ Recorded' /\ Shown'
  BY <1>2 DEF MInv, OfUploads, Recorded, Shown, Op
<1>5. QED  BY <1>1, <1>2, <1>3, <1>4 DEF MInv, Functional

(* A service that returns, other than from an upload with success.         *)
LEMMA ComesBackWith ==
  ASSUME MInv, NEW r \in Requests, NEW o, Return(r, o), UNCHANGED <<call, Files, status>>,
         Op(r) # "upload" \/ o # "ok"
  PROVE  MInv'
<1>1. /\ Functional(pc') /\ pc'[r] = "out"
      /\ \A s \in Requests : s # r => pc'[s] = pc[s]
  <2>1. Functional(pc) /\ pc' = [pc EXCEPT ![r] = "out"]
    BY DEF Return, MInv
  <2>2. QED  BY <2>1, ExceptAt DEF Functional
<1>2. /\ Functional(out') /\ out'[r] = o
      /\ \A s \in Requests : s # r => out'[s] = out[s]
  <2>1. Functional(out) /\ out' = [out EXCEPT ![r] = o]
    BY DEF Return, MInv
  <2>2. QED  BY <2>1, ExceptAt DEF Functional
<1>3. /\ status' = status /\ call' = call
      /\ objects' = objects /\ media' = media /\ home' = home
  BY DEF Files
<1>4. Placed' /\ FileFirst'
  BY <1>1, <1>3 DEF MInv, Placed, FileFirst, UploadLabels, Op
<1>5. OfUploads' /\ Recorded' /\ Shown'
  BY <1>2, <1>3 DEF MInv, OfUploads, Recorded, Shown, Op
<1>6. QED  BY <1>1, <1>2, <1>3, <1>4, <1>5 DEF MInv, Functional

(* A call at a statement of another route is no upload.                    *)
LEMMA NoUpload ==
  ASSUME MInv, NEW r \in Requests, pc[r] \notin UploadLabels PROVE Op(r) # "upload"
  BY DEF MInv, Placed
-----------------------------------------------------------------------------
(* user-service has nothing to do with files.                              *)
LEMMA UserKeeps ==
  ASSUME MInv, NEW r \in Requests, UserStep(r), UNCHANGED <<call, status>> PROVE MInv'
<1>1. CASE FindLogin(r)
  BY <1>1, NoUpload, GoesOn, ComesBackWith DEF FindLogin, At, UploadLabels, data, Files
<1>2. CASE Issue(r)
  BY <1>2, NoUpload, ComesBackWith DEF Issue, At, UploadLabels, data, Files
<1>3. CASE FindMe(r)
  BY <1>3, NoUpload, GoesOn, ComesBackWith DEF FindMe, At, UploadLabels, data, Files
<1>4. CASE Drop(r)
  BY <1>4, NoUpload, GoesOn, ComesBackWith DEF Drop, At, UploadLabels, Files
<1>5. CASE Revoke(r)
  BY <1>5, NoUpload, ComesBackWith DEF Revoke, At, UploadLabels, data, Files
<1>6. CASE FindProfile(r)
  BY <1>6, NoUpload, GoesOn, ComesBackWith DEF FindProfile, At, UploadLabels, data, Files
<1>7. CASE WriteProfile(r)
  BY <1>7, NoUpload, GoesOn DEF WriteProfile, At, UploadLabels, Files
<1>8. CASE RereadProfile(r)
  BY <1>8, NoUpload, ComesBackWith DEF RereadProfile, At, UploadLabels, data, Files
<1>9. QED
  BY <1>1, <1>2, <1>3, <1>4, <1>5, <1>6, <1>7, <1>8 DEF UserStep

(* content-service only shows media that have a row.                       *)
LEMMA AttachKeeps ==
  ASSUME MInv, NEW r \in Requests, Attach(r), UNCHANGED <<call, status>> PROVE MInv'
<1>1. At(r, "attach") /\ Op(r) # "upload"
  BY NoUpload DEF Attach, At, UploadLabels
<1>2. /\ Free(r) \subseteq media
      /\ home' = [m \in Requests |-> IF m \in Free(r) THEN r ELSE home[m]]
      /\ media' = media /\ objects' = objects
  BY DEF Attach, Free
<1>3. Functional(home')
  BY <1>2 DEF Functional
<1>4. Shown'
  BY <1>2 DEF MInv, Shown
<1>5. \E x \in {"read", "out"} : pc' = [pc EXCEPT ![r] = x]
  BY DEF Attach, Goto, Return
<1>6. PICK x \in {"read", "out"} : pc' = [pc EXCEPT ![r] = x]
  BY <1>5
<1>7. /\ Functional(pc') /\ pc'[r] = x
      /\ \A s \in Requests : s # r => pc'[s] = pc[s]
  BY <1>6, ExceptAt DEF MInv, Functional
<1>8. \E o : out' = out \/ out' = [out EXCEPT ![r] = o]
  BY DEF Attach, Goto, Return
<1>9. PICK o : out' = out \/ out' = [out EXCEPT ![r] = o]
  BY <1>8
<1>10. Functional(out') /\ \A s \in Requests : s # r => out'[s] = out[s]
  BY <1>9, ExceptAt DEF MInv, Functional
<1>11. Placed' /\ FileFirst'
  BY <1>1, <1>2, <1>7 DEF MInv, Placed, FileFirst, UploadLabels, Op
<1>12. OfUploads' /\ Recorded'
  BY <1>1, <1>2, <1>10 DEF MInv, OfUploads, Recorded, Op
<1>13. QED
  BY <1>3, <1>4, <1>7, <1>10, <1>11, <1>12 DEF MInv, Functional

(* Of content-service's statements only those that attach media look at it. *)
LEMMA ContentKeeps ==
  ASSUME MInv, NEW r \in Requests, ContentStep(r), UNCHANGED <<call, status>> PROVE MInv'
<1>1. CASE FindParent(r)
  BY <1>1, NoUpload, GoesOn, ComesBackWith DEF FindParent, At, UploadLabels, data, Files
<1>2. CASE Insert(r)
  BY <1>2, NoUpload, GoesOn DEF Insert, At, UploadLabels, Files
<1>3. CASE Attach(r)
  BY <1>3, AttachKeeps
<1>4. CASE ReadBack(r)
  BY <1>4, NoUpload, ComesBackWith DEF ReadBack, At, UploadLabels, data, Files
<1>5. CASE FindPost(r)
  BY <1>5, NoUpload, GoesOn, ComesBackWith DEF FindPost, At, UploadLabels, data, Files
<1>6. CASE Erase(r)
  BY <1>6, NoUpload, GoesOn, ComesBackWith DEF Erase, At, UploadLabels, Files
<1>7. CASE MarkMedia(r)
  BY <1>7, NoUpload, ComesBackWith DEF MarkMedia, At, UploadLabels, data, Files
<1>8. CASE FindFollower(r)
  BY <1>8, NoUpload, GoesOn, ComesBackWith DEF FindFollower, At, UploadLabels, data, Files
<1>9. CASE FindTarget(r)
  BY <1>9, NoUpload, GoesOn, ComesBackWith DEF FindTarget, At, UploadLabels, data, Files
<1>10. CASE Toggle(r)
  BY <1>10, NoUpload, ComesBackWith DEF Toggle, At, UploadLabels, Files
<1>11. QED
  BY <1>1, <1>2, <1>3, <1>4, <1>5, <1>6, <1>7, <1>8, <1>9, <1>10 DEF ContentStep

(* Reading leaves files alone.                                             *)
LEMMA ReadKeeps ==
  ASSUME MInv, NEW r \in Requests, ReadStep(r), UNCHANGED <<call, status>> PROVE MInv'
<1>1. CASE ReadReplies(r)
  BY <1>1, NoUpload, ComesBackWith DEF ReadReplies, At, UploadLabels, Files
<1>2. CASE ReadFollows(r)
  BY <1>2, NoUpload, ComesBackWith DEF ReadFollows, At, UploadLabels, Files
<1>3. CASE FindUser(r, "me", "exists")
  BY <1>3, NoUpload, GoesOn, ComesBackWith DEF FindUser, At, UploadLabels, data, Files
<1>4. CASE FindUser(r, "exists", "own")
  BY <1>4, NoUpload, GoesOn, ComesBackWith DEF FindUser, At, UploadLabels, data, Files
<1>5. CASE ReadOwn(r)
  BY <1>5, NoUpload, GoesOn DEF ReadOwn, At, UploadLabels, Files
<1>6. CASE ReadReposts(r)
  BY <1>6, NoUpload, GoesOn DEF ReadReposts, At, UploadLabels, Files
<1>7. CASE PreloadPosts(r)
  BY <1>7, NoUpload, ComesBackWith DEF PreloadPosts, At, UploadLabels, Files
<1>8. CASE ReadCache(r)
  BY <1>8, NoUpload, GoesOn, ComesBackWith DEF ReadCache, At, UploadLabels, Files
<1>9. CASE ReadPage(r)
  BY <1>9, NoUpload, GoesOn DEF ReadPage, At, UploadLabels, Files
<1>10. CASE Fill(r)
  BY <1>10, NoUpload, ComesBackWith DEF Fill, At, UploadLabels, Files
<1>11. QED
  BY <1>1, <1>2, <1>3, <1>4, <1>5, <1>6, <1>7, <1>8, <1>9, <1>10 DEF ReadStep

(* storage-service: the file before the row, the row before the answer.    *)
LEMMA StorageKeeps ==
  ASSUME MInv, NEW r \in Requests, StorageStep(r), UNCHANGED <<call, status>> PROVE MInv'
<1>1. CASE RefuseFile(r)
  BY <1>1, ComesBackWith DEF RefuseFile, data, Files
<1>2. CASE Put(r)
  <2>1. /\ pc[r] = "put" /\ pc' = [pc EXCEPT ![r] = "row"] /\ out' = out
        /\ objects' = objects \cup {r} /\ media' = media /\ home' = home
    BY <1>2 DEF Put, At, Goto
  <2>2. /\ Functional(pc') /\ pc'[r] = "row"
        /\ \A s \in Requests : s # r => pc'[s] = pc[s]
    BY <2>1, ExceptAt DEF MInv, Functional
  <2>3. Op(r) = "upload"
    BY <2>1 DEF MInv, Placed
  <2>4. Placed' /\ FileFirst'
    BY <2>1, <2>2, <2>3 DEF MInv, Placed, FileFirst, UploadLabels, Op
  <2>5. OfUploads' /\ Recorded' /\ Shown'
    BY <2>1, <2>3 DEF MInv, OfUploads, Recorded, Shown, Op
  <2>6. QED  BY <2>1, <2>2, <2>4, <2>5 DEF MInv, Functional
<1>3. CASE InsertMedia(r)
  <2>1. /\ pc[r] = "row" /\ pc' = [pc EXCEPT ![r] = "out"] /\ out' = [out EXCEPT ![r] = "ok"]
        /\ media' = media \cup {r} /\ objects' = objects /\ home' = home
    BY <1>3 DEF InsertMedia, At, Return
  <2>2. /\ Functional(pc') /\ pc'[r] = "out"
        /\ \A s \in Requests : s # r => pc'[s] = pc[s]
    BY <2>1, ExceptAt DEF MInv, Functional
  <2>3. Functional(out') /\ \A s \in Requests : s # r => out'[s] = out[s]
    BY <2>1, ExceptAt DEF MInv, Functional
  <2>4. Placed' /\ FileFirst'
    BY <2>1, <2>2 DEF MInv, Placed, FileFirst, UploadLabels, Op
  <2>5. OfUploads' /\ Recorded' /\ Shown'
    BY <2>1, <2>3 DEF MInv, OfUploads, Recorded, Shown, Op
  <2>6. QED  BY <2>1, <2>2, <2>3, <2>4, <2>5 DEF MInv, Functional
<1>4. QED  BY <1>1, <1>2, <1>3 DEF StorageStep

(* What the gateway lets happen in a service.                              *)
LEMMA StepKeeps == ASSUME MInv, NEW r \in Requests, Step(r) PROVE MInv'
<1> UNCHANGED <<call, status>>
  BY DEF Step
<1>1. CASE UserStep(r)
  BY <1>1, UserKeeps
<1>2. CASE ContentStep(r)
  BY <1>2, ContentKeeps
<1>3. CASE ReadStep(r)
  BY <1>3, ReadKeeps
<1>4. CASE StorageStep(r)
  BY <1>4, StorageKeeps
<1>5. CASE Elsewhere(r)
  BY <1>5, NoUpload, ComesBackWith DEF Elsewhere, At, UploadLabels, data, Files
<1>6. CASE Invalid(r)
  BY <1>6, ComesBackWith DEF Invalid, data, Files
<1>7. CASE Fail(r)
  BY <1>7, ComesBackWith DEF Fail, data, Files
<1>8. CASE Stop(r)
  <2>1. /\ pc' = [pc EXCEPT ![r] = "end"] /\ out' = out
        /\ objects' = objects /\ media' = media /\ home' = home
    BY <1>8 DEF Stop, data
  <2>2. /\ Functional(pc') /\ pc'[r] = "end"
        /\ \A s \in Requests : s # r => pc'[s] = pc[s]
    BY <2>1, ExceptAt DEF MInv, Functional
  <2>3. Placed' /\ FileFirst'
    BY <2>1, <2>2 DEF MInv, Placed, FileFirst, UploadLabels, Op
  <2>4. OfUploads' /\ Recorded' /\ Shown'
    BY <2>1 DEF MInv, OfUploads, Recorded, Shown, Op
  <2>5. QED  BY <2>1, <2>2, <2>3, <2>4 DEF MInv, Functional
<1>9. QED
  BY <1>1, <1>2, <1>3, <1>4, <1>5, <1>6, <1>7, <1>8 DEF Step
-----------------------------------------------------------------------------
(* No error and no missed deadline is reported as 201.                     *)
LEMMA ErrorsAreNot201 ==
  ASSUME NEW op, NEW c PROVE ErrorStatus(op, c) # 201 /\ TimeOutStatus(op) # 201
  BY DEF ErrorStatus, HttpCode, TimeOutStatus, Cut

(* An answer ends the call; a 201 for an upload needs its row.             *)
LEMMA AnswerKeeps ==
  ASSUME MInv, NEW r \in Requests, NEW c, Answer(r, c), UNCHANGED <<call, out, Files>>,
         Op(r) = "upload" /\ c = 201 => r \in media
  PROVE  MInv'
<1>1. /\ pc' = [pc EXCEPT ![r] = "end"] /\ status' = [status EXCEPT ![r] = c]
      /\ out' = out /\ objects' = objects /\ media' = media /\ home' = home
  BY DEF Answer, Files
<1>2. /\ Functional(pc') /\ pc'[r] = "end"
      /\ \A s \in Requests : s # r => pc'[s] = pc[s]
  BY <1>1, ExceptAt DEF MInv, Functional
<1>3. /\ Functional(status') /\ status'[r] = c
      /\ \A s \in Requests : s # r => status'[s] = status[s]
  BY <1>1, ExceptAt DEF MInv, Functional
<1>4. Placed' /\ FileFirst'
  BY <1>1, <1>2 DEF MInv, Placed, FileFirst, UploadLabels, Op
<1>5. OfUploads' /\ Recorded' /\ Shown'
  BY <1>1, <1>3 DEF MInv, OfUploads, Recorded, Shown, Op
<1>6. QED  BY <1>1, <1>2, <1>3, <1>4, <1>5 DEF MInv, Functional

(* An upload begins at its first statement, and nothing else does.         *)
LEMMA FirstOfUpload ==
  ASSUME NEW op
  PROVE  First(op) # "row" /\ (First(op) = "put" <=> op = "upload")
  BY DEF First, Toggles, Adding, Removing

(* A request that is let through starts its call at the first statement.   *)
LEMMA CallKeeps == ASSUME MInv, NEW r \in Requests, Call(r) PROVE MInv'
<1>1. /\ pc' = [pc EXCEPT ![r] = First(Op(r))] /\ out' = out /\ call' = call
      /\ objects' = objects /\ media' = media /\ home' = home /\ status' = status
  BY DEF Call, Files
<1>2. /\ Functional(pc') /\ pc'[r] = First(Op(r))
      /\ \A s \in Requests : s # r => pc'[s] = pc[s]
  BY <1>1, ExceptAt DEF MInv, Functional
<1>3. Placed' /\ FileFirst'
  BY <1>1, <1>2, FirstOfUpload DEF MInv, Placed, FileFirst, UploadLabels, Op
<1>4. OfUploads' /\ Recorded' /\ Shown'
  BY <1>1 DEF MInv, OfUploads, Recorded, Shown, Op
<1>5. QED  BY <1>1, <1>2, <1>3, <1>4 DEF MInv, Functional

(* The gateway answers with what the service returned.                     *)
LEMMA RespondKeeps == ASSUME MInv, NEW r \in Requests, Respond(r) PROVE MInv'
<1>1. Answer(r, Status(Op(r), out[r])) /\ UNCHANGED <<call, out, Files>>
  BY DEF Respond, data, Files
<1>2. Status(Op(r), out[r]) = 201 => out[r] = "ok"
  BY ErrorsAreNot201 DEF Status
<1>3. Op(r) = "upload" /\ Status(Op(r), out[r]) = 201 => r \in media
  BY <1>2 DEF MInv, Recorded
<1>4. QED  BY <1>1, <1>3, AnswerKeeps

(* A refusal in the middleware is no success.                              *)
LEMMA TurnAwayKeeps == ASSUME MInv, NEW r \in Requests, TurnAway(r) PROVE MInv'
<1>1. \E c \in {429, 401, 400} : Answer(r, c) /\ UNCHANGED <<call, out, Files>>
  BY DEF TurnAway, Refuse, data, Files
<1>2. QED  BY <1>1, AnswerKeeps

(* The deadline answers the client and leaves the call where it is.        *)
LEMMA TimeOutKeeps == ASSUME MInv, NEW r \in Requests, TimeOut(r) PROVE MInv'
<1>1. /\ status' = [status EXCEPT ![r] = TimeOutStatus(Op(r))] /\ pc' = pc /\ out' = out
      /\ objects' = objects /\ media' = media /\ home' = home /\ call' = call
  BY DEF TimeOut, data
<1>2. /\ Functional(status') /\ status'[r] # 201
      /\ \A s \in Requests : s # r => status'[s] = status[s]
  BY <1>1, ExceptAt, ErrorsAreNot201 DEF MInv, Functional
<1>3. Placed' /\ FileFirst'
  BY <1>1 DEF MInv, Placed, FileFirst, Op
<1>4. OfUploads' /\ Recorded' /\ Shown'
  BY <1>1, <1>2 DEF MInv, OfUploads, Recorded, Shown, Op
<1>5. QED  BY <1>1, <1>2, <1>3, <1>4 DEF MInv, Functional
-----------------------------------------------------------------------------
(* Nothing else touches files, statements or answers.                      *)
LEMMA RestKeeps ==
  ASSUME MInv, UNCHANGED <<call, pc, out, status, objects, media, home>> PROVE MInv'
  BY DEF MInv, Functional, Placed, FileFirst, OfUploads, Recorded, Shown, Op

(* Every step keeps the inductive invariant.                               *)
LEMMA StepMInv == MInv /\ [Next]_vars => MInv'
<1> SUFFICES ASSUME MInv, [Next]_vars PROVE MInv'
  OBVIOUS
<1>1. ASSUME NEW r \in Requests,
             TurnAway(r) \/ Call(r) \/ Step(r) \/ TimeOut(r) \/ Respond(r)
      PROVE  MInv'
  BY <1>1, TurnAwayKeeps, CallKeeps, StepKeeps, TimeOutKeeps, RespondKeeps
<1>2. ASSUME NEW r \in Requests, Forget(r) PROVE MInv'
  BY <1>2, RestKeeps DEF Forget, Files
<1>3. ASSUME NEW u \in Users, Expire(u) PROVE MInv'
  BY <1>3, RestKeeps DEF Expire, data
<1>4. CASE AllDone \/ UNCHANGED vars
  BY <1>4, RestKeeps DEF AllDone, vars, data
<1>5. QED
  BY <1>1, <1>2, <1>3, <1>4 DEF Next

(* The inductive invariant holds in every reachable state.                 *)
THEOREM InductiveInvariant == Spec => []MInv
  BY InitMInv, StepMInv, PTL DEF Spec

(* Whatever requests meet, and whatever fails, is late or is repeated: a   *)
(* row of media has its file, and no post shows a file without a row, nor  *)
(* was its upload reported a success.                                      *)
THEOREM UploadsAccounted == Spec => []ObjectsAccounted
  BY InductiveInvariant, MInvAccounts, PTL
-----------------------------------------------------------------------------
(* The routes that change what is there, and those that list it.           *)
Achieving == {"createPost", "createReply", "deletePost", "deleteMe", "upload", "updateProfile"}
  \cup Toggles
Listing == {"getMe", "getReplies", "getFollowers", "getFollowing", "homeFeed"}

(* The statements of a route, those of the gateway included.               *)
OnPath(op, at) ==
  /\ at \in {"lookup", "issue"} => op \in {"login", "refresh"}
  /\ at \in {"find", "drop", "revoke"} => op = "deleteMe"
  /\ at \in {"profile", "write", "reread"} => op = "updateProfile"
  /\ at = "parent" => op = "createReply"
  /\ at \in {"insert", "attach", "read"} => op \in {"createPost", "createReply"}
  /\ at = "post" => op \in {"getPost", "deletePost"}
  /\ at \in {"erase", "mark"} => op = "deletePost"
  /\ at = "follower" => op \in {"follow", "unfollow"}
  /\ at = "target" => op \in Toggles \cup {"getFollowers", "getFollowing"}
  /\ at = "toggle" => op \in Toggles
  /\ at = "list" => op \in {"getFollowers", "getFollowing"}
  /\ at = "replies" => op = "getReplies"
  /\ at \in {"me", "exists", "own", "reposts", "preload"} => op = "getMe"
  /\ at \in {"cache", "page", "fill"} => op = "homeFeed"
  /\ at \in {"put", "row"} => op = "upload"
  /\ at = "elsewhere" => op \notin Achieving \cup Listing
  /\ op \in Open \ {"login", "refresh"} => at \in {"new", "elsewhere", "out", "end"}

Calls == call \in Offered /\ \A r \in Requests : pc[r] # "end" => call[r] # Idle

PInv == /\ Functional(pc) /\ Functional(out) /\ Functional(did) /\ Functional(status)
        /\ Calls /\ \A r \in Requests : OnPath(Op(r), pc[r])

(* What the other variables of control may become.                         *)
Marks(r) ==
  /\ \E o : out' = out \/ out' = [out EXCEPT ![r] = o]
  /\ did' = did \/ did' = [did EXCEPT ![r] = TRUE]
  /\ \E c : status' = status \/ status' = [status EXCEPT ![r] = c]
  /\ call' = call

Legal(r) == /\ Marks(r) /\ pc[r] # "end"
            /\ \E x : OnPath(Op(r), x) /\ pc' = [pc EXCEPT ![r] = x]

(* A step of one call leaves those of the others where they are.           *)
LEMMA OthersStay ==
  ASSUME PInv, NEW r \in Requests, Marks(r), NEW x, pc' = [pc EXCEPT ![r] = x]
  PROVE  /\ Functional(pc') /\ Functional(out') /\ Functional(did') /\ Functional(status')
         /\ pc'[r] = x
         /\ \A s \in Requests : s # r => /\ pc'[s] = pc[s] /\ out'[s] = out[s]
                                         /\ did'[s] = did[s] /\ status'[s] = status[s]
<1>1. Functional(pc') /\ pc'[r] = x /\ \A s \in Requests : s # r => pc'[s] = pc[s]
  BY ExceptAt DEF PInv, Functional
<1>2. Functional(out') /\ \A s \in Requests : s # r => out'[s] = out[s]
  BY ExceptAt DEF PInv, Marks
<1>3. Functional(did') /\ \A s \in Requests : s # r => did'[s] = did[s]
  BY ExceptAt DEF PInv, Marks
<1>4. Functional(status') /\ \A s \in Requests : s # r => status'[s] = status[s]
  BY ExceptAt DEF PInv, Marks
<1>5. QED  BY <1>1, <1>2, <1>3, <1>4

(* And keeps the invariant when it goes on to a statement of its route.    *)
LEMMA PathKept == ASSUME PInv, NEW r \in Requests, Legal(r) PROVE PInv'
<1>0. PICK x : OnPath(Op(r), x) /\ pc' = [pc EXCEPT ![r] = x]
  BY DEF Legal
<1>1. /\ Functional(pc') /\ Functional(out') /\ Functional(did') /\ Functional(status')
      /\ pc'[r] = x /\ \A s \in Requests : s # r => pc'[s] = pc[s]
  BY <1>0, OthersStay DEF Legal
<1>2. call' = call
  BY DEF Legal, Marks
<1>3. Calls'
  BY <1>1, <1>2 DEF PInv, Calls, Legal
<1>4. \A s \in Requests : OnPath(Op(s), pc[s])'
  <2> TAKE s \in Requests
  <2>1. CASE s = r
    BY <1>0, <1>1, <1>2, <2>1 DEF Op
  <2>2. CASE s # r
    BY <1>1, <1>2, <2>2 DEF PInv, Op
  <2> QED BY <2>1, <2>2
<1>5. QED  BY <1>1, <1>3, <1>4 DEF PInv, Functional

(* Going on, coming back and stopping are legal.                           *)
LEMMA GoesLegally ==
  ASSUME PInv, NEW r \in Requests, UNCHANGED <<call, status>>, pc[r] # "end",
         NoEffect \/ Effect(r), NEW x, NEW o,
         \/ OnPath(Op(r), x) /\ Goto(r, x)
         \/ Return(r, o)
  PROVE  Legal(r)
<1>1. Marks(r)
  BY DEF Marks, NoEffect, Effect, Goto, Return
<1>2. OnPath(Op(r), "out")
  BY DEF OnPath
<1> QED BY <1>1, <1>2 DEF Legal, Goto, Return

(* user-service.                                                           *)
LEMMA UserLegal ==
  ASSUME PInv, NEW r \in Requests, UserStep(r), UNCHANGED <<call, status>> PROVE Legal(r)
<1> USE DEF At, OnPath, PInv
<1>1. CASE FindLogin(r)
  BY <1>1, GoesLegally DEF FindLogin, Open
<1>2. CASE Issue(r)
  BY <1>2, GoesLegally DEF Issue
<1>3. CASE FindMe(r)
  BY <1>3, GoesLegally DEF FindMe, Open
<1>4. CASE Drop(r)
  BY <1>4, GoesLegally DEF Drop
<1>5. CASE Revoke(r)
  BY <1>5, GoesLegally DEF Revoke
<1>6. CASE FindProfile(r)
  BY <1>6, GoesLegally DEF FindProfile
<1>7. CASE WriteProfile(r)
  BY <1>7, GoesLegally DEF WriteProfile
<1>8. CASE RereadProfile(r)
  BY <1>8, GoesLegally DEF RereadProfile
<1>9. QED
  BY <1>1, <1>2, <1>3, <1>4, <1>5, <1>6, <1>7, <1>8 DEF UserStep

(* content-service.                                                        *)
LEMMA ContentLegal ==
  ASSUME PInv, NEW r \in Requests, ContentStep(r), UNCHANGED <<call, status>> PROVE Legal(r)
<1> USE DEF At, OnPath, PInv
<1>1. CASE FindParent(r)
  BY <1>1, GoesLegally DEF FindParent
<1>2. CASE Insert(r)
  BY <1>2, GoesLegally DEF Insert
<1>3. CASE Attach(r)
  BY <1>3, GoesLegally DEF Attach
<1>4. CASE ReadBack(r)
  BY <1>4, GoesLegally DEF ReadBack
<1>5. CASE FindPost(r)
  BY <1>5, GoesLegally DEF FindPost
<1>6. CASE Erase(r)
  BY <1>6, GoesLegally DEF Erase
<1>7. CASE MarkMedia(r)
  BY <1>7, GoesLegally DEF MarkMedia
<1>8. CASE FindFollower(r)
  BY <1>8, GoesLegally DEF FindFollower, Toggles, Adding, Removing, Open, HealthRPCs
<1>9. CASE FindTarget(r)
  BY <1>9, GoesLegally DEF FindTarget, Toggles, Adding, Removing, Open, HealthRPCs
<1>10. CASE Toggle(r)
  BY <1>10, GoesLegally DEF Toggle
<1> QED
  BY <1>1, <1>2, <1>3, <1>4, <1>5, <1>6, <1>7, <1>8, <1>9, <1>10 DEF ContentStep

(* The calls that read lists.                                              *)
LEMMA ReadLegal ==
  ASSUME PInv, NEW r \in Requests, ReadStep(r), UNCHANGED <<call, status>> PROVE Legal(r)
<1> USE DEF At, OnPath, PInv
<1>1. CASE ReadReplies(r)
  BY <1>1, GoesLegally DEF ReadReplies
<1>2. CASE ReadFollows(r)
  BY <1>2, GoesLegally DEF ReadFollows
<1>3. CASE FindUser(r, "me", "exists")
  BY <1>3, GoesLegally DEF FindUser
<1>4. CASE FindUser(r, "exists", "own")
  BY <1>4, GoesLegally DEF FindUser
<1>5. CASE ReadOwn(r)
  BY <1>5, GoesLegally DEF ReadOwn
<1>6. CASE ReadReposts(r)
  BY <1>6, GoesLegally DEF ReadReposts
<1>7. CASE PreloadPosts(r)
  BY <1>7, GoesLegally DEF PreloadPosts
<1>8. CASE ReadCache(r)
  BY <1>8, GoesLegally DEF ReadCache
<1>9. CASE ReadPage(r)
  BY <1>9, GoesLegally DEF ReadPage
<1>10. CASE Fill(r)
  BY <1>10, GoesLegally DEF Fill
<1> QED
  BY <1>1, <1>2, <1>3, <1>4, <1>5, <1>6, <1>7, <1>8, <1>9, <1>10 DEF ReadStep

(* Every statement, of every service.                                      *)
LEMMA StepLegal == ASSUME PInv, NEW r \in Requests, Step(r) PROVE Legal(r)
<1> UNCHANGED <<call, status>>
  BY DEF Step
<1>1. CASE UserStep(r)
  BY <1>1, UserLegal
<1>2. CASE ContentStep(r)
  BY <1>2, ContentLegal
<1>3. CASE ReadStep(r)
  BY <1>3, ReadLegal
<1>4. CASE StorageStep(r)
  <2> USE DEF At, OnPath, PInv
  <2>1. CASE RefuseFile(r)
    BY <2>1, GoesLegally DEF RefuseFile
  <2>2. CASE Put(r)
    BY <2>2, GoesLegally DEF Put
  <2>3. CASE InsertMedia(r)
    BY <2>3, GoesLegally DEF InsertMedia
  <2> QED BY <1>4, <2>1, <2>2, <2>3 DEF StorageStep
<1>5. CASE Elsewhere(r)
  BY <1>5, GoesLegally DEF Elsewhere, At
<1>6. CASE Invalid(r)
  <2>1. pc[r] # "end"
    BY <1>6 DEF Invalid, Malformed, First, Toggles, Adding, Removing
  <2> QED BY <1>6, <2>1, GoesLegally DEF Invalid
<1>7. CASE Fail(r)
  BY <1>7, GoesLegally DEF Fail, InService
<1>8. CASE Stop(r)
  <2>1. OnPath(Op(r), "end")
    BY DEF OnPath
  <2>2. Marks(r) /\ pc[r] # "end"
    BY <1>8 DEF Stop, Marks, NoEffect, InService, At
  <2> QED BY <1>8, <2>1, <2>2 DEF Stop, Legal
<1> QED
  BY <1>1, <1>2, <1>3, <1>4, <1>5, <1>6, <1>7, <1>8 DEF Step

(* The first statement of a handler is one of its route.                   *)
LEMMA FirstOnPath == ASSUME NEW op PROVE OnPath(op, First(op))
<1> USE DEF First, OnPath, Achieving, Listing, Toggles, Adding, Removing, Open, HealthRPCs
<1>1. CASE op \in {"login", "refresh"}
  BY <1>1
<1>2. CASE op \in {"deleteMe", "updateProfile", "createPost", "createReply"}
  BY <1>2
<1>3. CASE op \in {"getPost", "deletePost", "follow", "unfollow"}
  BY <1>3
<1>4. CASE op \in (Toggles \ {"follow", "unfollow"}) \cup {"getFollowers", "getFollowing"}
  BY <1>4
<1>5. CASE op \in {"getReplies", "getMe", "homeFeed", "upload"}
  BY <1>5
<1>6. CASE /\ op \notin {"login", "refresh", "deleteMe", "updateProfile", "createPost",
                         "createReply", "getPost", "deletePost", "follow", "unfollow",
                         "getReplies", "getMe", "homeFeed", "upload"}
           /\ op \notin (Toggles \ {"follow", "unfollow"}) \cup {"getFollowers", "getFollowing"}
  BY <1>6
<1> QED BY <1>1, <1>2, <1>3, <1>4, <1>5, <1>6

(* What the gateway does with a request.                                   *)
LEMMA GatewayLegal ==
  ASSUME PInv, NEW r \in Requests, TurnAway(r) \/ Call(r) \/ TimeOut(r) \/ Respond(r)
  PROVE  Legal(r)
<1>1. CASE TurnAway(r)
  BY <1>1 DEF TurnAway, Admitted, Sent, At, Refuse, Answer, Legal, Marks, OnPath
<1>2. CASE Call(r)
  BY <1>2, FirstOnPath DEF Call, Admitted, Sent, At, Legal, Marks
<1>3. CASE TimeOut(r)
  <2>1. pc' = [pc EXCEPT ![r] = pc[r]]
    BY <1>3 DEF TimeOut, PInv, Functional
  <2>2. Marks(r) /\ pc[r] # "end"
    BY <1>3 DEF TimeOut, Marks, InService, At
  <2> QED BY <2>1, <2>2 DEF Legal, PInv
<1>4. CASE Respond(r)
  BY <1>4 DEF Respond, At, Answer, Legal, Marks, OnPath
<1> QED BY <1>1, <1>2, <1>3, <1>4

(* Before the first request every call is at its beginning.                *)
LEMMA InitPInv == Init => PInv
<1> SUFFICES ASSUME Init PROVE PInv
  OBVIOUS
<1>1. /\ call \in Offered /\ pc = [r \in Requests |-> IF call[r] = Idle THEN "end" ELSE "new"]
      /\ out = [r \in Requests |-> None] /\ did = [r \in Requests |-> FALSE]
      /\ status = [r \in Requests |-> 0]
  BY DEF Init
<1>2. \A r \in Requests : pc[r] = IF call[r] = Idle THEN "end" ELSE "new"
  BY <1>1
<1>3. Calls /\ \A r \in Requests : OnPath(Op(r), pc[r])
  BY <1>1, <1>2 DEF Calls, OnPath
<1> QED BY <1>1, <1>3 DEF PInv, Functional

(* No step takes a call off its path.                                      *)
LEMMA StepPInv == PInv /\ [Next]_vars => PInv'
<1> SUFFICES ASSUME PInv, [Next]_vars PROVE PInv'
  OBVIOUS
<1>1. ASSUME NEW r \in Requests,
             TurnAway(r) \/ Call(r) \/ Step(r) \/ TimeOut(r) \/ Respond(r)
      PROVE  PInv'
  BY <1>1, StepLegal, GatewayLegal, PathKept
<1>2. ASSUME UNCHANGED <<call, pc, out, did, status>> PROVE PInv'
  BY <1>2 DEF PInv, Functional, Calls, Op
<1>3. ASSUME NEW r \in Requests, Forget(r) PROVE PInv'
  BY <1>2, <1>3 DEF Forget
<1>4. ASSUME NEW u \in Users, Expire(u) PROVE PInv'
  BY <1>2, <1>4 DEF Expire
<1>5. CASE AllDone \/ UNCHANGED vars
  BY <1>2, <1>5 DEF AllDone, vars
<1> QED
  BY <1>1, <1>3, <1>4, <1>5 DEF Next
-----------------------------------------------------------------------------
(* The statements that change what a request is about.                     *)
Tables == <<rows, gone, alive, profile, media, home>>
Writes(r) == \/ Drop(r) \/ WriteProfile(r) \/ Insert(r) \/ Attach(r) \/ Erase(r) \/ Toggle(r)
             \/ InsertMedia(r)

(* All others leave the tables alone, and only a login has an effect       *)
(* elsewhere.                                                              *)
LEMMA OthersOnlyRead ==
  ASSUME NEW r \in Requests, Step(r)
  PROVE  Writes(r) \/ (UNCHANGED Tables /\ (NoEffect \/ Issue(r)))
<1>1. CASE UserStep(r)
  BY <1>1 DEF UserStep, Writes, FindLogin, Issue, FindMe, Revoke, FindProfile, RereadProfile,
              data, Tables
<1>2. CASE ContentStep(r)
  BY <1>2 DEF ContentStep, Writes, FindParent, ReadBack, FindPost, MarkMedia, FindFollower,
              FindTarget, data, Tables
<1>3. CASE ReadStep(r)
  BY <1>3 DEF ReadStep, ReadReplies, ReadFollows, FindUser, ReadOwn, ReadReposts,
              PreloadPosts, ReadCache, ReadPage, Fill, data, Content, Files, Tables
<1>4. CASE StorageStep(r)
  BY <1>4 DEF StorageStep, RefuseFile, Put, Writes, data, Content, Tables
<1>5. CASE Elsewhere(r) \/ Invalid(r) \/ Fail(r) \/ Stop(r)
  BY <1>5 DEF Elsewhere, Invalid, Fail, Stop, data, Tables
<1> QED BY <1>1, <1>2, <1>3, <1>4, <1>5 DEF Step

(* Nobody is brought back to life.                                         *)
LEMMA NoneRevives == ASSUME [Next]_vars PROVE alive' \subseteq alive
<1>1. ASSUME NEW r \in Requests, Step(r) PROVE alive' \subseteq alive
  BY <1>1, OthersOnlyRead
     DEF Writes, Drop, WriteProfile, Insert, Attach, Erase, Toggle, InsertMedia, Commit,
         Content, Tables
<1>2. ASSUME NEW r \in Requests, TurnAway(r) \/ Call(r) \/ TimeOut(r) \/ Respond(r) \/ Forget(r)
      PROVE  alive' = alive
  BY <1>2 DEF TurnAway, Refuse, Call, TimeOut, Respond, Forget, data, Content
<1>3. ASSUME NEW u \in Users, Expire(u) PROVE alive' = alive
  BY <1>3 DEF Expire, data
<1>4. CASE AllDone \/ UNCHANGED vars
  BY <1>4 DEF AllDone, vars, data
<1> QED BY <1>1, <1>2, <1>3, <1>4 DEF Next

(* The steps of the services are those of requests that were let in.       *)
LEMMA LetIn == ASSUME NEW r \in Requests, Step(r) PROVE pc[r] # "new"
<1>1. CASE UserStep(r)
  BY <1>1 DEF UserStep, FindLogin, Issue, FindMe, Drop, Revoke, FindProfile, WriteProfile,
              RereadProfile, At
<1>2. CASE ContentStep(r)
  BY <1>2 DEF ContentStep, FindParent, Insert, Attach, ReadBack, FindPost, Erase, MarkMedia,
              FindFollower, FindTarget, Toggle, At
<1>3. CASE ReadStep(r)
  BY <1>3 DEF ReadStep, ReadReplies, ReadFollows, FindUser, ReadOwn, ReadReposts,
              PreloadPosts, ReadCache, ReadPage, Fill, At
<1>4. CASE StorageStep(r)
  BY <1>4 DEF StorageStep, RefuseFile, Put, InsertMedia, At
<1>5. CASE Elsewhere(r) \/ Fail(r) \/ Stop(r)
  BY <1>5 DEF Elsewhere, Fail, Stop, InService, At
<1>6. CASE Invalid(r)
  BY <1>6 DEF Invalid, Malformed, First, Toggles, Adding, Removing
<1> QED BY <1>1, <1>2, <1>3, <1>4, <1>5, <1>6 DEF Step

(* Without an account and a token only what needs neither is let in, and   *)
(* it goes no further.                                                     *)
LEMMA HarmlessStays ==
  ASSUME PInv, NEW r \in Requests, Harmless(r), User(r) \notin alive, User(r) \notin signed,
         TurnAway(r) \/ Call(r) \/ Step(r) \/ TimeOut(r) \/ Respond(r)
  PROVE  Harmless(r)' /\ did'[r] = did[r] /\ signed' = signed
<1>1. Legal(r) /\ call' = call /\ Op(r)' = Op(r)
  BY StepLegal, GatewayLegal DEF Legal, Marks, Op
<1>2. PICK x : OnPath(Op(r), x) /\ pc' = [pc EXCEPT ![r] = x]
  BY <1>1 DEF Legal
<1>3. pc'[r] = x
  BY <1>2, ExceptAt DEF PInv, Functional
<1>4. CASE TurnAway(r)
  <2>1. x = "end" \/ pc'[r] = "end"
    BY <1>4, ExceptAt DEF TurnAway, Refuse, Answer, PInv, Functional
  <2> QED BY <1>3, <1>4, <2>1 DEF TurnAway, Refuse, Harmless
<1>5. CASE Call(r)
  <2>1. Op(r) \in Open /\ pc'[r] = First(Op(r))
    BY <1>5, ExceptAt DEF Call, Admitted, Authorised, PInv, Functional
  <2>2. Op(r) \in {"login", "refresh"} => First(Op(r)) = "lookup"
    BY DEF First, Toggles, Adding, Removing
  <2>3. Harmless(r)'
    BY <1>1, <2>1, <2>2 DEF Harmless, Op, At, Open, HealthRPCs
  <2> QED BY <1>5, <2>3 DEF Call, NoEffect
<1>6. CASE TimeOut(r)
  BY <1>1, <1>6 DEF TimeOut, Harmless, At
<1>7. CASE Respond(r)
  <2>1. pc'[r] = "end"
    BY <1>7, ExceptAt DEF Respond, Answer, PInv, Functional
  <2>2. signed' = signed
    BY <1>7 DEF Respond, Harmless, At
  <2> QED BY <1>7, <2>1, <2>2 DEF Respond, Harmless
<1>8. CASE Step(r)
  <2>1. signed' = signed
    BY <1>8 DEF Step
  <2>2. CASE Op(r) \in Open \ {"login", "refresh"}
    <3>1. pc[r] \in {"new", "elsewhere", "out", "end"}
      BY <2>2 DEF PInv, OnPath
    <3>2. ~ Writes(r) /\ ~ Issue(r)
      BY <3>1 DEF Writes, Drop, WriteProfile, Insert, Attach, Erase, Toggle, InsertMedia, Issue, At
    <3>3. did' = did
      BY <1>8, <3>2, OthersOnlyRead DEF NoEffect
    <3> QED BY <1>1, <2>1, <2>2, <3>3 DEF Harmless
  <2>3. CASE Op(r) \in {"login", "refresh"}
    <3>1. pc[r] \in {"lookup", "out"} /\ (pc[r] = "out" => out[r] # "ok")
      <4>1. pc[r] \notin {"new", "end"}
        BY <1>1, <1>8, LetIn DEF Legal
      <4> QED BY <2>3, <4>1 DEF Harmless, Open, HealthRPCs, At
    <3>2. ~ Writes(r) /\ ~ Issue(r)
      BY <3>1 DEF Writes, Drop, WriteProfile, Insert, Attach, Erase, Toggle, InsertMedia, Issue, At
    <3>3. did' = did
      BY <1>8, <3>2, OthersOnlyRead DEF NoEffect
    <3>4. \/ FindLogin(r) \/ Invalid(r) \/ Fail(r) \/ Stop(r)
      BY <1>8, <3>1 DEF Step, UserStep, ContentStep, ReadStep, StorageStep,
             Issue, FindMe, Drop, Revoke, FindProfile, WriteProfile, RereadProfile, FindParent,
             Insert, Attach, ReadBack, FindPost, Erase, MarkMedia, FindFollower, FindTarget,
             Toggle, ReadReplies, ReadFollows, FindUser, ReadOwn, ReadReposts, PreloadPosts,
             ReadCache, ReadPage, Fill, RefuseFile, Put, InsertMedia, Elsewhere, At
    <3>5. \/ pc' = [pc EXCEPT ![r] = "end"]
          \/ Return(r, "denied") \/ Return(r, "missing") \/ Return(r, "invalid")
          \/ Return(r, "failed")
      BY <3>4 DEF FindLogin, Invalid, Fail, Stop
    <3>6. pc'[r] = "end" \/ (pc'[r] = "out" /\ out'[r] # "ok")
      BY <3>5, ExceptAt DEF Return, PInv, Functional
    <3>7. Harmless(r)'
      BY <1>1, <2>3, <3>6 DEF Harmless, Op, At, Open, HealthRPCs
    <3> QED BY <2>1, <3>3, <3>7
  <2>4. CASE Op(r) \notin Open
    <3>1. pc[r] \in {"new", "end", "lookup"}
      BY <2>4 DEF Harmless, Open
    <3>2. pc[r] # "lookup"
      BY <2>4 DEF PInv, OnPath, Open
    <3>3. pc[r] \notin {"new", "end"}
      BY <1>1, <1>8, LetIn DEF Legal
    <3> QED BY <3>1, <3>2, <3>3
  <2> QED BY <2>2, <2>3, <2>4 DEF Open
<1> QED BY <1>4, <1>5, <1>6, <1>7, <1>8

(* Another call brings no token for this user, and is not the user's.      *)
LEMMA OthersSign ==
  ASSUME NEW r \in Requests, TurnAway(r) \/ Call(r) \/ Step(r) \/ TimeOut(r) \/ Respond(r)
  PROVE  signed' \subseteq signed \cup {User(r)}
  BY DEF TurnAway, Refuse, Call, Step, TimeOut, Respond

(* A user who is gone and quiet stays so, and nothing more is done.        *)
LEMMA StepGone ==
  ASSUME PInv, [Next]_vars, NEW u \in Users, Quiet(u)
  PROVE  Quiet(u)' /\ \A r \in Requests : User(r) = u => did'[r] = did[r]
<1>1. u \notin alive'
  BY NoneRevives DEF Quiet
<1>2. ASSUME NEW s \in Requests,
             TurnAway(s) \/ Call(s) \/ Step(s) \/ TimeOut(s) \/ Respond(s)
      PROVE  /\ u \notin signed'
             /\ \A r \in Requests : User(r)' = u =>
                  Harmless(r)' /\ did'[r] = did[r] /\ User(r) = u
  <2>1. Legal(s) /\ call' = call
    BY <1>2, StepLegal, GatewayLegal DEF Legal, Marks
  <2>2. CASE User(s) # u
    <3>1. \A r \in Requests : r # s =>
            pc'[r] = pc[r] /\ out'[r] = out[r] /\ did'[r] = did[r]
      BY <2>1, OthersStay DEF Legal
    <3>2. \A r \in Requests : User(r) = u => Harmless(r)' /\ did'[r] = did[r]
      BY <2>1, <2>2, <3>1 DEF Quiet, Harmless, At, Op, User
    <3> QED BY <1>2, <2>1, <2>2, <3>2, OthersSign DEF Quiet, User
  <2>3. CASE User(s) = u
    <3>1. Harmless(s)' /\ did'[s] = did[s] /\ signed' = signed
      BY <1>2, <2>3, HarmlessStays DEF Quiet
    <3>2. \A r \in Requests : r # s =>
            pc'[r] = pc[r] /\ out'[r] = out[r] /\ did'[r] = did[r]
      BY <2>1, OthersStay DEF Legal
    <3>3. \A r \in Requests : User(r) = u => Harmless(r)' /\ did'[r] = did[r]
      BY <2>1, <3>1, <3>2 DEF Quiet, Harmless, At, Op, User
    <3> QED BY <2>1, <3>1, <3>3 DEF Quiet, User
  <2> QED BY <2>2, <2>3
<1>3. ASSUME UNCHANGED <<call, pc, out, did>>, signed' \subseteq signed
      PROVE  /\ u \notin signed'
             /\ \A r \in Requests : User(r)' = u =>
                  Harmless(r)' /\ did'[r] = did[r] /\ User(r) = u
  BY <1>3 DEF Quiet, Harmless, At, Op, User
<1>4. /\ u \notin signed'
      /\ \A r \in Requests : User(r)' = u =>
           Harmless(r)' /\ did'[r] = did[r] /\ User(r) = u
  <2>1. ASSUME NEW r \in Requests, Forget(r)
        PROVE  UNCHANGED <<call, pc, out, did>> /\ signed' \subseteq signed
    BY <2>1 DEF Forget
  <2>2. ASSUME NEW v \in Users, Expire(v)
        PROVE  UNCHANGED <<call, pc, out, did>> /\ signed' \subseteq signed
    BY <2>2 DEF Expire
  <2>3. CASE AllDone \/ UNCHANGED vars
    BY <1>3, <2>3 DEF AllDone, vars
  <2> QED BY <1>2, <1>3, <2>1, <2>2, <2>3 DEF Next
<1>5. call' = call
  <2>1. ASSUME NEW s \in Requests,
               TurnAway(s) \/ Call(s) \/ Step(s) \/ TimeOut(s) \/ Respond(s)
        PROVE  call' = call
    BY <2>1, StepLegal, GatewayLegal DEF Legal, Marks
  <2> QED BY <2>1 DEF Next, Forget, Expire, AllDone, vars
<1> QED BY <1>1, <1>4, <1>5 DEF Quiet, User

(* Every reachable state has its calls on their paths.                     *)
THEOREM CallsOnPath == Spec => []PInv
  BY InitPInv, StepPInv, PTL DEF Spec

(* Whoever has deleted the account, and whose access tokens are over and   *)
(* whose calls are through, never acts again, whatever else goes on: no    *)
(* request of that user has an effect and no login succeeds.               *)
THEOREM DeletedStayGone == Spec => GoneForGood
<1> DEFINE A == \A u \in Users : Quiet(u) =>
                  /\ Quiet(u)'
                  /\ \A r \in Requests : User(r) = u => did'[r] = did[r]
<1>1. PInv /\ [Next]_vars => [A]_vars
  BY StepGone
<1>2. QED  BY <1>1, CallsOnPath, PTL DEF Spec, GoneForGood
-----------------------------------------------------------------------------
(* The services a route can have, and the status of its success.           *)
Services == {"content", "user", "feed", "storage", "notification", "none"}
Known(h) == h.service \in Services /\ h.ok \in {200, 201, 204}
AllKnown(H) == \A op \in DOMAIN H : Known(H[op])

(* Tables of known handlers make up a table of known handlers.             *)
LEMMA KnownTogether ==
  ASSUME NEW T, \A t \in T : AllKnown(t) PROVE AllKnown(Together(T))
<1> DEFINE H == Together(T)
           Of(op) == CHOOSE t \in T : op \in DOMAIN t
<1>1. H = [op \in UNION {DOMAIN t : t \in T} |-> Of(op)[op]]
  BY DEF Together
<1>2. \A op \in DOMAIN H : H[op] = Of(op)[op] /\ \E t \in T : op \in DOMAIN t
  BY <1>1
<1>3. \A op \in DOMAIN H : Of(op) \in T /\ op \in DOMAIN Of(op)
  BY <1>2
<1> HIDE DEF H, Of
<1>4. AllKnown(H)
  BY <1>2, <1>3 DEF AllKnown
<1> QED BY <1>4 DEF H

(* The status of every route's success is a 20x.                           *)
LEMMA RoutesKnown == \A op \in Routes : Known(Handlers[op])
<1> USE DEF AllKnown, Known, Services, Handler
<1>1. AllKnown(PostHandlers)
  BY DEF PostHandlers
<1>2. AllKnown(ReplyHandlers)
  BY DEF ReplyHandlers
<1>3. AllKnown(LikeHandlers)
  BY DEF LikeHandlers
<1>4. AllKnown(BookmarkHandlers)
  BY DEF BookmarkHandlers
<1>5. AllKnown(RepostHandlers)
  BY DEF RepostHandlers
<1>6. AllKnown(FollowHandlers)
  BY DEF FollowHandlers
<1>7. AllKnown(ListHandlers)
  BY DEF ListHandlers
<1>8. AllKnown(SessionHandlers)
  BY DEF SessionHandlers
<1>9. AllKnown(AccountHandlers)
  BY DEF AccountHandlers
<1>10. AllKnown(FeedHandlers)
  BY DEF FeedHandlers
<1>11. AllKnown(NotificationHandlers)
  BY DEF NotificationHandlers
<1>12. AllKnown(StorageHandlers)
  BY DEF StorageHandlers
<1>13. AllKnown(HealthHandlers)
  BY DEF HealthHandlers
<1> HIDE DEF AllKnown, Known, Services, Handler
<1>14. AllKnown(Handlers)
  BY <1>1, <1>2, <1>3, <1>4, <1>5, <1>6, <1>7, <1>8, <1>9, <1>10, <1>11, <1>12, <1>13,
     KnownTogether DEF Handlers
<1> QED BY <1>14 DEF AllKnown, Routes

(* A failed statement is never the client's fault.                         *)
LEMMA FailuresAre5xx ==
  ASSUME NEW op \in Routes,
         Handlers[op].service # "none" \/ op \in HealthRPCs \cup RawRPCs
  PROVE  Status(op, "failed") \in {500, 503}
<1>1. CASE op \in RawRPCs
  <2>1. Errors(op)["failed"] = "Unknown"
    BY <1>1 DEF Errors, ContentErrors
  <2>2. HttpCode("Unknown") = 500
    BY DEF HttpCode
  <2> QED BY <2>1, <2>2 DEF Status, ErrorStatus
<1>2. CASE op \in HealthRPCs
  BY <1>2 DEF Status, ErrorStatus
<1>3. CASE op \notin RawRPCs \cup HealthRPCs
  <2> DEFINE k == Handlers[op].service
  <2>1. k \in {"content", "user", "feed", "storage", "notification"}
    BY <1>3, RoutesKnown DEF Known, Services
  <2> HIDE DEF k
  <2>2. Errors(op) = [content |-> ContentErrors, user |-> UserErrors, storage |-> StorageErrors,
                      feed |-> FeedErrors, notification |-> NotificationErrors,
                      none |-> << >>][k]
    BY <1>3 DEF Errors, k
  <2>3. Errors(op) \in {ContentErrors, UserErrors, StorageErrors, FeedErrors, NotificationErrors}
    BY <2>1, <2>2
  <2>4. Errors(op)["failed"] \in {"Internal", "Unknown"}
    BY <2>3 DEF ContentErrors, UserErrors, StorageErrors, FeedErrors, NotificationErrors
  <2>5. HttpCode(Errors(op)["failed"]) = 500
    BY <2>4 DEF HttpCode
  <2> QED BY <2>5 DEF Status, ErrorStatus
<1> QED BY <1>1, <1>2, <1>3

(* An error is never a 2xx, and a missed deadline neither that nor a 4xx.  *)
LEMMA ErrorStatuses ==
  ASSUME NEW op, NEW c
  PROVE  /\ ErrorStatus(op, c) \in {400, 401, 403, 404, 409, 500, 503}
         /\ TimeOutStatus(op) \in {Cut, 500, 503}
<1>1. HttpCode(c) \in {400, 401, 403, 404, 409, 500}
  BY DEF HttpCode
<1>2. HttpCode("DeadlineExceeded") = 500
  BY DEF HttpCode
<1> QED BY <1>1, <1>2 DEF ErrorStatus, TimeOutStatus
-----------------------------------------------------------------------------
(* What a request has achieved so far, and whether it was taken back.      *)
Undone(r) == \E s \in Requests : Undoes(s, r)
There(r) == r \in Live(rows, gone)
Attached(r) == \A m \in call[r].with : home[m] = r
Written(r) ==
  \A f \in call[r].with : profile[User(r)][f] = Column(r) \/ Overwritten(r, f)

(* An effect has its place in the order of the statements, and what the    *)
(* later ones rely on is still so, or was taken back.                      *)
Effects(r) ==
  /\ did[r] => pc[r] \in {"revoke", "reread", "attach", "read", "mark", "out", "end"}
  /\ pc[r] = "attach" => call[r].with # {}
  /\ pc[r] \in {"attach", "read"} => There(r) \/ Undone(r)
  /\ pc[r] = "read" => Attached(r)
  /\ pc[r] = "mark" => call[r].on \subseteq gone
  /\ pc[r] = "revoke" => User(r) \notin alive
  /\ pc[r] = "reread" => Written(r) \/ User(r) \notin alive

(* The outcome of the service is the truth.                                *)
Outcome(r) ==
  /\ out[r] # None => pc[r] \in {"out", "end"}
  /\ pc[r] = "out" => out[r] # None
  /\ out[r] = "ok" => Stands(r) \/ Undone(r)
  /\ out[r] \notin {None, "ok", "failed"} =>
       ~ did[r] \/ (out[r] = "forbidden" /\ call[r].with # {}) \/ Undone(r)
  /\ out[r] = "failed" => Status(Op(r), "failed") \in {500, 503}

(* The status tells a success or a refusal only by that outcome.           *)
Answered(r) ==
  /\ status[r] \in 200..499 => pc[r] = "end"
  /\ status[r] \in 200..299 => out[r] = "ok"
  /\ status[r] \in 400..499 => out[r] \notin {"ok", "failed"} /\ (out[r] = None => ~ did[r])

True(r) == Effects(r) /\ Outcome(r) /\ Answered(r)

(* Accounts go by deletion.                                                *)
Deleted == \A u \in Users \ alive :
  \E d \in Requests : did[d] /\ Op(d) = "deleteMe" /\ User(d) = u

(* And posts, except for those that were there at the beginning.           *)
Erased == \A p \in Requests \cap gone : Undone(p)

ProfileTyped == profile = [u \in Users |-> [f \in Fields |-> profile[u][f]]]

EInv == MInv /\ PInv /\ Deleted /\ Erased /\ ProfileTyped /\ \A r \in Requests : True(r)
-----------------------------------------------------------------------------
(* The invariant implies the property of the run.                          *)
LEMMA EInvTells == EInv => AnswersTellEffects
<1> SUFFICES ASSUME EInv, NEW r \in Requests, ~ Undone(r)
             PROVE  /\ status[r] \in 200..299 => Stands(r)
                    /\ status[r] \in 400..499 =>
                         ~ did[r] \/ (out[r] = "forbidden" /\ call[r].with # {})
  BY DEF AnswersTellEffects, Undone
<1>1. Outcome(r) /\ Answered(r)
  BY DEF EInv, True
<1> QED BY <1>1 DEF Outcome, Answered
-----------------------------------------------------------------------------
(* What a step of a call leaves of what another has achieved.              *)
Lasting(s) ==
  /\ Undone(s) => Undone(s)'
  /\ There(s) => There(s)' \/ Undone(s)'
  /\ Op(s) \in {"createPost", "createReply"} /\ Attached(s) => Attached(s)'
  /\ Op(s) = "updateProfile" /\ Written(s) => Written(s)'
  /\ gone \subseteq gone' /\ alive' \subseteq alive /\ media \subseteq media'
  /\ Op(s) \in DOMAIN Adding /\ Entry(s) \subseteq DOMAIN rows =>
       Entry(s) \subseteq DOMAIN rows' \/ Undone(s)'
  /\ Op(s) \in DOMAIN Removing /\ Entry(s) \cap DOMAIN rows = {} =>
       Entry(s) \cap DOMAIN rows' = {} \/ Undone(s)'

(* The operations that add a row and those that remove one.                *)
LEMMA ToggleOps ==
  /\ DOMAIN Adding = {"like", "bookmark", "repost", "follow"}
  /\ DOMAIN Removing = {"unlike", "unbookmark", "unrepost", "unfollow"}
  /\ Toggles = DOMAIN Adding \cup DOMAIN Removing
  BY DEF Adding, Removing, Toggles

(* What stands, stands until it is undone.                                 *)
LEMMA StandsLasts ==
  ASSUME NEW s \in Requests, Lasting(s), call' = call, Stands(s)
  PROVE  Stands(s)' \/ Undone(s)'
<1> USE DEF Op, User
<1>0. (DOMAIN Adding)' = DOMAIN Adding /\ (DOMAIN Removing)' = DOMAIN Removing
  BY DEF Adding, Removing
<1>9. Entry(s)' = Entry(s)
  BY DEF Entry, KindOf, Adding, Removing
<1>1. CASE Op(s) \in {"createPost", "createReply"}
  BY <1>1, ToggleOps DEF Stands, Lasting, There, Attached
<1>2. CASE Op(s) = "deletePost"
  BY <1>2, ToggleOps DEF Stands, Lasting
<1>3. CASE Op(s) \in DOMAIN Adding
  <2>1. Stands(s) = (Entry(s) \subseteq DOMAIN rows)
    BY <1>3, ToggleOps DEF Stands
  <2>2. Stands(s)' = (Entry(s) \subseteq DOMAIN rows)'
    BY <1>0, <1>3, ToggleOps DEF Stands
  <2> QED BY <1>3, <1>9, <2>1, <2>2 DEF Lasting
<1>4. CASE Op(s) \in DOMAIN Removing
  <2>1. Stands(s) = (Entry(s) \cap DOMAIN rows = {})
    BY <1>4, ToggleOps DEF Stands
  <2>2. Stands(s)' = (Entry(s) \cap DOMAIN rows = {})'
    BY <1>0, <1>4, ToggleOps DEF Stands
  <2> QED BY <1>4, <1>9, <2>1, <2>2 DEF Lasting
<1>5. CASE Op(s) = "deleteMe"
  BY <1>5, ToggleOps DEF Stands, Lasting
<1>6. CASE Op(s) = "upload"
  BY <1>6, ToggleOps DEF Stands, Lasting
<1>7. CASE Op(s) = "updateProfile"
  BY <1>7, ToggleOps DEF Stands, Lasting, Written
<1>8. CASE Op(s) \notin {"createPost", "createReply", "deletePost", "deleteMe", "upload",
                         "updateProfile"} \cup DOMAIN Adding \cup DOMAIN Removing
  BY <1>8, ToggleOps DEF Stands
<1> QED BY <1>1, <1>2, <1>3, <1>4, <1>5, <1>6, <1>7, <1>8

(* So the others' calls remain as true as they were.                       *)
LEMMA OthersTrue ==
  ASSUME NEW s \in Requests, Lasting(s), call' = call, True(s), OnPath(Op(s), pc[s]),
         pc'[s] = pc[s], out'[s] = out[s], did'[s] = did[s], status'[s] = status[s]
  PROVE  True(s)'
<1>1. Effects(s)'
  BY DEF True, Effects, Lasting, User, OnPath
<1>2. Outcome(s)'
  BY StandsLasts DEF True, Outcome, Lasting, Op
<1>3. Answered(s)'
  BY DEF True, Answered
<1> QED BY <1>1, <1>2, <1>3 DEF True
-----------------------------------------------------------------------------
(* What calls have done, and what they ask for.                            *)
DidGrows == call' = call /\ \A s \in Requests : did[s] => did'[s]

(* Effects are never forgotten.                                            *)
LEMMA MarksGrow == ASSUME PInv, NEW r \in Requests, Marks(r) PROVE DidGrows
  BY ExceptAt DEF Marks, PInv, Functional, DidGrows

(* What was taken back remains taken back.                                 *)
LEMMA UndoesLasts ==
  ASSUME DidGrows, NEW q \in Requests, NEW s, Undoes(q, s) PROVE Undoes(q, s)'
<1>1. call' = call /\ (did[q] => did'[q])
  BY DEF DidGrows
<1>2. Opposite(s, q)' = Opposite(s, q)
  BY <1>1 DEF Opposite, Entry, KindOf, Op, User, Adding, Removing, Toggles
<1> QED BY <1>1, <1>2 DEF Undoes, Op, User

(* By whomever it was.                                                     *)
LEMMA UndoneLasts == ASSUME DidGrows, NEW s, Undone(s) PROVE Undone(s)'
  BY UndoesLasts DEF Undone

(* And what was overwritten remains overwritten.                           *)
LEMMA OverwrittenLasts ==
  ASSUME DidGrows, NEW s, NEW f, Overwritten(s, f) PROVE Overwritten(s, f)'
  BY DEF Overwritten, DidGrows, Op, User

(* A call is about one row all the time.                                   *)
LEMMA EntryLasts == ASSUME call' = call, NEW s PROVE Entry(s)' = Entry(s)
  BY DEF Entry, KindOf, Op, User, Adding, Removing

(* As long as the tables do not change, what stands stands.                *)
LEMMA ReadsLast ==
  ASSUME DidGrows, UNCHANGED Tables, NEW s \in Requests PROVE Lasting(s)
<1>1. /\ call' = call /\ rows' = rows /\ gone' = gone /\ alive' = alive
      /\ profile' = profile /\ media' = media /\ home' = home
  BY DEF DidGrows, Tables
<1>2. Undone(s) => Undone(s)'
  BY UndoneLasts
<1>3. There(s) => There(s)'
  BY <1>1 DEF There, Live, PostIds
<1>4. Attached(s) => Attached(s)'
  BY <1>1 DEF Attached
<1>5. Written(s) => Written(s)'
  BY <1>1, OverwrittenLasts DEF Written, Column, User, None
<1> QED BY <1>1, <1>2, <1>3, <1>4, <1>5, EntryLasts DEF Lasting

(* The call of a request that is in is one the gateway lets through.       *)
LEMMA CallsProper ==
  ASSUME PInv, NEW s \in Requests, call[s] # Idle PROVE Proper(call[s])
  BY OfferedAssumption DEF PInv, Calls

(* A toggle is about one row, and not a post.                              *)
LEMMA TogglesProper ==
  ASSUME PInv, NEW s \in Requests, Op(s) \in Toggles
  PROVE  Proper(call[s]) /\ Entry(s) \subseteq Items
<1>1. Proper(call[s])
  <2>1. call[s] # Idle
    BY DEF Op, Idle, Toggles, Adding, Removing
  <2> QED BY <2>1, CallsProper
<1>2. KindOf(Op(s)) \in {"like", "bookmark", "repost", "follow"}
  <2>1. CASE Op(s) \in DOMAIN Adding
    BY <2>1 DEF KindOf, Adding
  <2>2. CASE Op(s) \in DOMAIN Removing
    BY <2>2 DEF KindOf, Adding, Removing
  <2> QED BY <2>1, <2>2 DEF Toggles
<1>3. Entry(s) \subseteq Items
  BY <1>1, <1>2 DEF Entry, Items, Proper, User
<1> QED BY <1>1, <1>3

(* Two requests about one row are about the same.                          *)
LEMMA SameEntry ==
  ASSUME NEW r, NEW s, Proper(call[r]), Proper(call[s]), NEW e \in Entry(r) \cap Entry(s)
  PROVE  Entry(r) = Entry(s)
<1>1. PICK x \in call[r].on : e = <<KindOf(Op(r)), User(r), x>>
  BY DEF Entry
<1>2. PICK y \in call[s].on : e = <<KindOf(Op(s)), User(s), y>>
  BY DEF Entry
<1>3. KindOf(Op(r)) = KindOf(Op(s)) /\ User(r) = User(s) /\ x = y
  BY <1>1, <1>2
<1>4. call[r].on = {x} /\ call[s].on = {y}
  BY <1>1, <1>2 DEF Proper
<1> QED BY <1>3, <1>4 DEF Entry

(* Who adds takes back what a removal achieved, and the other way round.   *)
LEMMA ToggledBack ==
  ASSUME PInv, NEW r \in Requests, NEW s \in Requests, did'[r], call' = call,
         \/ Op(r) \in DOMAIN Adding /\ Op(s) \in DOMAIN Removing
         \/ Op(s) \in DOMAIN Adding /\ Op(r) \in DOMAIN Removing,
         Entry(r) \cap Entry(s) # {}
  PROVE  Undone(s)'
<1>1. Op(r) \in Toggles /\ Op(s) \in Toggles
  BY ToggleOps
<1>2. Entry(r) = Entry(s)
  BY <1>1, TogglesProper, SameEntry
<1>3. (Op(r) \in DOMAIN Adding) # (Op(s) \in DOMAIN Adding)
  BY ToggleOps
<1>4. Opposite(s, r)
  BY <1>1, <1>2, <1>3 DEF Opposite
<1>5. Opposite(s, r)' = Opposite(s, r)
  BY DEF Opposite, Entry, KindOf, Op, User, Adding, Removing, Toggles
<1> QED BY <1>4, <1>5 DEF Undone, Undoes
-----------------------------------------------------------------------------
(* The deletion of an account takes nothing else away.                     *)
LEMMA DropLasts ==
  ASSUME DidGrows, NEW r \in Requests, Drop(r), NEW s \in Requests PROVE Lasting(s)
<1>1. /\ call' = call /\ rows' = rows /\ gone' = gone /\ alive' \subseteq alive
      /\ profile' = profile /\ media' = media /\ home' = home
  BY DEF DidGrows, Drop, Commit, Content, Files
<1>2. There(s) => There(s)'
  BY <1>1 DEF There, Live, PostIds
<1>3. Attached(s) => Attached(s)'
  BY <1>1 DEF Attached
<1>4. Written(s) => Written(s)'
  BY <1>1, OverwrittenLasts DEF Written, Column, User, None
<1> QED BY <1>1, <1>2, <1>3, <1>4, EntryLasts, UndoneLasts DEF Lasting

(* A change of the profile may overwrite another.                          *)
LEMMA WriteProfileLasts ==
  ASSUME PInv, DidGrows, ProfileTyped, NEW r \in Requests, WriteProfile(r),
         did'[r] \/ profile' = profile, NEW s \in Requests
  PROVE  Lasting(s)
<1>1. /\ call' = call /\ rows' = rows /\ gone' = gone /\ alive' = alive
      /\ media' = media /\ home' = home
  BY DEF DidGrows, WriteProfile, Content, Files
<1>2. There(s) => There(s)'
  BY <1>1 DEF There, Live, PostIds
<1>3. Attached(s) => Attached(s)'
  BY <1>1 DEF Attached
<1>4. ASSUME Op(s) = "updateProfile", Written(s) PROVE Written(s)'
  <2>1. User(s) \in Users /\ call[s].with \subseteq Fields
    <3>1. call[s] # Idle
      BY <1>4 DEF Op, Idle
    <3> QED BY <1>4, <3>1, CallsProper DEF Proper, Op, User
  <2> SUFFICES ASSUME NEW f \in call[s].with,
                      profile[User(s)][f] = Column(s) \/ Overwritten(s, f)
               PROVE  profile'[User(s)][f] = Column(s) \/ Overwritten(s, f)'
    BY <1>1, <1>4 DEF Written, Column, User, None
  <2>2. CASE Overwritten(s, f)
    BY <2>2, OverwrittenLasts
  <2>3. CASE profile'[User(s)][f] = profile[User(s)][f]
    BY <2>2, <2>3
  <2>4. CASE profile'[User(s)][f] # profile[User(s)][f]
    <3>1. /\ did'[r] /\ At(r, "write")
          /\ profile' = [profile EXCEPT ![User(r)] =
               [g \in Fields |-> IF g \in call[r].with THEN Column(r) ELSE profile[User(r)][g]]]
      BY <2>4 DEF WriteProfile
    <3>2. User(s) = User(r)
      BY <2>1, <2>4, <3>1 DEF ProfileTyped
    <3>3. profile'[User(s)] =
            [g \in Fields |-> IF g \in call[r].with THEN Column(r) ELSE profile[User(r)][g]]
      BY <2>1, <3>1, <3>2 DEF ProfileTyped
    <3>4. f \in call[r].with /\ profile'[User(s)][f] = Column(r)
      BY <2>1, <2>4, <3>2, <3>3
    <3>5. CASE s = r
      BY <3>4, <3>5
    <3>6. CASE s # r
      <4>1. Op(r) = "updateProfile"
        BY <3>1 DEF PInv, OnPath, At
      <4> QED BY <1>1, <3>1, <3>2, <3>4, <3>6, <4>1 DEF Overwritten, Op, User
    <3> QED BY <3>5, <3>6
  <2> QED BY <2>2, <2>3, <2>4
<1> QED BY <1>1, <1>2, <1>3, <1>4, EntryLasts, UndoneLasts DEF Lasting

(* A new row is in nobody's way.                                           *)
LEMMA InsertLasts ==
  ASSUME PInv, DidGrows, NEW r \in Requests, Insert(r), NEW s \in Requests PROVE Lasting(s)
<1>1. /\ call' = call /\ DOMAIN rows' = DOMAIN rows \cup {r} /\ gone' = gone
      /\ alive' = alive /\ profile' = profile /\ media' = media /\ home' = home
  BY DEF DidGrows, Insert, Commit, With, Files
<1>2. There(s) => There(s)'
  BY <1>1 DEF There, Live, PostIds
<1>3. Attached(s) => Attached(s)'
  BY <1>1 DEF Attached
<1>4. Written(s) => Written(s)'
  BY <1>1, OverwrittenLasts DEF Written, Column, User, None
<1>5. Op(s) \in DOMAIN Removing => r \notin Entry(s)
  <2>1. Op(s) \in DOMAIN Removing => Entry(s) \subseteq Items
    BY TogglesProper, ToggleOps
  <2> QED BY <2>1, BackendAssumption DEF PostIds
<1> QED BY <1>1, <1>2, <1>3, <1>4, <1>5, EntryLasts, UndoneLasts DEF Lasting

(* Media stay where they are.                                              *)
LEMMA AttachLasts ==
  ASSUME PInv, DidGrows, NEW r \in Requests, Attach(r), NEW s \in Requests PROVE Lasting(s)
<1>1. /\ call' = call /\ rows' = rows /\ gone' = gone /\ alive' = alive
      /\ profile' = profile /\ media' = media
      /\ home' = [m \in Requests |-> IF m \in Free(r) THEN r ELSE home[m]]
  BY DEF DidGrows, Attach, Content
<1>2. There(s) => There(s)'
  BY <1>1 DEF There, Live, PostIds
<1>3. s # None
  BY BackendAssumption DEF PostIds
<1>4. ASSUME Attached(s), Op(s) \in {"createPost", "createReply"}, NEW m \in call[s].with
      PROVE  home'[m] = s
  <2>1. call[s] # Idle
    BY <1>4 DEF Op, Idle
  <2>2. m \in Requests
    BY <1>4, <2>1, CallsProper DEF Proper, Op
  <2>3. home[m] = s /\ m \notin Free(r)
    BY <1>3, <1>4 DEF Attached, Free
  <2> QED BY <1>1, <2>2, <2>3
<1>5. Op(s) \in {"createPost", "createReply"} /\ Attached(s) => Attached(s)'
  BY <1>1, <1>4 DEF Attached
<1>6. Written(s) => Written(s)'
  BY <1>1, OverwrittenLasts DEF Written, Column, User, None
<1> QED BY <1>1, <1>2, <1>5, <1>6, EntryLasts, UndoneLasts DEF Lasting

(* A deleted post is deleted by its author's request.                      *)
LEMMA EraseLasts ==
  ASSUME PInv, DidGrows, NEW r \in Requests, Erase(r), did'[r] \/ UNCHANGED <<gone, rows, alive>>,
         NEW s \in Requests
  PROVE  Lasting(s)
<1>1. /\ call' = call /\ rows' = rows /\ alive' = alive
      /\ profile' = profile /\ media' = media /\ home' = home
  BY DEF DidGrows, Erase, Commit, Content, Files
<1>2. gone' = gone \/ (gone' = gone \cup Mine(r) /\ did'[r])
  BY DEF Erase, Commit, Content
<1>3. ASSUME There(s), ~ There(s)' PROVE Undone(s)'
  <2>1. s \in Mine(r) /\ did'[r]
    BY <1>1, <1>2, <1>3 DEF There, Live, PostIds
  <2>2. Op(r) = "deletePost" /\ call[r] # Idle
    BY DEF Erase, At, PInv, OnPath, Calls
  <2>3. call[r].on = {s}
    BY <2>1, <2>2, CallsProper DEF Proper, Mine
  <2> QED BY <1>1, <2>1, <2>2, <2>3 DEF Undone, Undoes, Op
<1>4. Attached(s) => Attached(s)'
  BY <1>1 DEF Attached
<1>5. Written(s) => Written(s)'
  BY <1>1, OverwrittenLasts DEF Written, Column, User, None
<1> QED BY <1>1, <1>2, <1>3, <1>4, <1>5, EntryLasts, UndoneLasts DEF Lasting

(* A toggle only undoes what a toggle has done.                            *)
LEMMA ToggleLasts ==
  ASSUME PInv, DidGrows, NEW r \in Requests, Toggle(r), did'[r] \/ UNCHANGED Content,
         NEW s \in Requests
  PROVE  Lasting(s)
<1>1. /\ call' = call /\ gone' = gone /\ alive' = alive
      /\ profile' = profile /\ media' = media /\ home' = home
  BY DEF DidGrows, Toggle, Commit, Content, Files
<1>2. Op(r) \in Toggles
  BY DEF Toggle, At, PInv, OnPath
<1>3. Proper(call[r]) /\ Entry(r) \subseteq Items
  BY <1>2, TogglesProper
<1>4. \/ rows' = rows
      \/ Op(r) \in DOMAIN Adding /\ did'[r] /\ DOMAIN rows' = DOMAIN rows \cup Entry(r)
      \/ Op(r) \in DOMAIN Removing /\ did'[r] /\ DOMAIN rows' = DOMAIN rows \ Entry(r)
  <2>1. CASE Op(r) \in DOMAIN Adding /\ ~ Entry(r) \subseteq DOMAIN rows
    BY <2>1 DEF Toggle, Commit, With, Content
  <2>2. CASE Op(r) \in DOMAIN Removing /\ Entry(r) \subseteq DOMAIN rows
    BY <2>2, ToggleOps DEF Toggle, Commit, Restrict, Content
  <2>3. CASE /\ ~ (Op(r) \in DOMAIN Adding /\ ~ Entry(r) \subseteq DOMAIN rows)
             /\ ~ (Op(r) \in DOMAIN Removing /\ Entry(r) \subseteq DOMAIN rows)
    BY <2>3 DEF Toggle, Content
  <2> QED BY <2>1, <2>2, <2>3
<1>5. There(s) => There(s)'
  <2>1. s \notin Entry(r)
    BY <1>3, BackendAssumption DEF PostIds
  <2> QED BY <1>1, <1>4, <2>1 DEF There, Live, PostIds
<1>6. ASSUME Op(s) \in DOMAIN Adding, Entry(s) \subseteq DOMAIN rows
      PROVE  Entry(s) \subseteq DOMAIN rows' \/ Undone(s)'
  BY <1>1, <1>4, <1>6, ToggledBack
<1>7. ASSUME Op(s) \in DOMAIN Removing, Entry(s) \cap DOMAIN rows = {}
      PROVE  Entry(s) \cap DOMAIN rows' = {} \/ Undone(s)'
  BY <1>1, <1>4, <1>7, ToggledBack
<1>8. Attached(s) => Attached(s)'
  BY <1>1 DEF Attached
<1>9. Written(s) => Written(s)'
  BY <1>1, OverwrittenLasts DEF Written, Column, User, None
<1> QED BY <1>1, <1>5, <1>6, <1>7, <1>8, <1>9, UndoneLasts DEF Lasting

(* A row of media does no harm.                                            *)
LEMMA InsertMediaLasts ==
  ASSUME DidGrows, NEW r \in Requests, InsertMedia(r), NEW s \in Requests PROVE Lasting(s)
<1>1. /\ call' = call /\ rows' = rows /\ gone' = gone /\ alive' = alive
      /\ profile' = profile /\ media \subseteq media' /\ home' = home
  BY DEF DidGrows, InsertMedia, Content
<1>2. There(s) => There(s)'
  BY <1>1 DEF There, Live, PostIds
<1>3. Attached(s) => Attached(s)'
  BY <1>1 DEF Attached
<1>4. Written(s) => Written(s)'
  BY <1>1, OverwrittenLasts DEF Written, Column, User, None
<1> QED BY <1>1, <1>2, <1>3, <1>4, EntryLasts, UndoneLasts DEF Lasting
-----------------------------------------------------------------------------
(* No step takes away what another call relies on.                         *)
LEMMA StepLasts ==
  ASSUME PInv, ProfileTyped, NEW r \in Requests, Step(r), NEW s \in Requests
  PROVE  Lasting(s) /\ DidGrows
<1>1. Marks(r) /\ DidGrows
  BY StepLegal, MarksGrow DEF Legal
<1>2. Functional(did)
  BY DEF PInv
<1>3. Effect(r) => did'[r]
  BY <1>2, ExceptAt DEF Effect, Functional
<1>4. CASE Drop(r)
  BY <1>1, <1>4, DropLasts
<1>5. CASE WriteProfile(r)
  BY <1>1, <1>3, <1>5, WriteProfileLasts DEF WriteProfile
<1>6. CASE Insert(r)
  BY <1>1, <1>6, InsertLasts
<1>7. CASE Attach(r)
  BY <1>1, <1>7, AttachLasts
<1>8. CASE Erase(r)
  BY <1>1, <1>3, <1>8, EraseLasts DEF Erase, Content
<1>9. CASE Toggle(r)
  BY <1>1, <1>3, <1>9, ToggleLasts DEF Toggle
<1>10. CASE InsertMedia(r)
  BY <1>1, <1>10, InsertMediaLasts
<1>11. CASE UNCHANGED Tables
  BY <1>1, <1>11, ReadsLast
<1> QED
  BY <1>1, <1>4, <1>5, <1>6, <1>7, <1>8, <1>9, <1>10, <1>11, OthersOnlyRead DEF Writes

(* Nor leaves an account or a profile in another shape.                    *)
LEMMA StepDeleted ==
  ASSUME PInv, Deleted, NEW r \in Requests, Step(r) PROVE Deleted'
<1>1. DidGrows /\ Functional(did)
  BY StepLegal, MarksGrow DEF Legal, PInv
<1>2. ASSUME NEW u \in Users \ alive
      PROVE  \E d \in Requests : did'[d] /\ Op(d)' = "deleteMe" /\ User(d)' = u
  BY <1>1 DEF Deleted, DidGrows, Op, User
<1>3. CASE alive' = alive
  BY <1>2, <1>3 DEF Deleted
<1>4. CASE alive' # alive
  <2>1. Drop(r)
    BY <1>4, OthersOnlyRead
       DEF Writes, WriteProfile, Insert, Attach, Erase, Toggle, InsertMedia, Commit, Content, Tables
  <2>2. alive' = alive \ {User(r)} /\ did' = [did EXCEPT ![r] = TRUE] /\ Op(r) = "deleteMe"
    BY <1>4, <2>1 DEF Drop, Commit, Content, Effect, PInv, OnPath, At
  <2>3. did'[r] /\ Op(r)' = "deleteMe" /\ User(r)' = User(r)
    BY <1>1, <2>2, ExceptAt DEF DidGrows, Op, User
  <2> QED BY <1>2, <2>2, <2>3 DEF Deleted
<1> QED BY <1>3, <1>4

(* Posts go only when a request takes them away.                           *)
LEMMA StepErased ==
  ASSUME PInv, ProfileTyped, Erased, NEW r \in Requests, Step(r) PROVE Erased'
<1>1. \A s \in Requests : Lasting(s)
  BY StepLasts
<1>2. CASE gone' = gone
  BY <1>1, <1>2 DEF Erased, Lasting
<1>3. CASE gone' # gone
  <2>1. Erase(r)
    BY <1>3, OthersOnlyRead
       DEF Writes, Drop, WriteProfile, Insert, Attach, Toggle, InsertMedia, Commit, Content, Tables
  <2>2. gone' = gone \cup Mine(r)
    BY <1>3, <2>1 DEF Erase, Commit, Content
  <2>3. \A s \in Requests \cap Mine(r) : There(s) /\ ~ There(s)'
    BY <2>2 DEF Mine, There, Live
  <2> QED BY <1>1, <2>2, <2>3 DEF Erased, Lasting
<1> QED BY <1>2, <1>3

(* A profile keeps its columns.                                            *)
LEMMA StepProfile ==
  ASSUME ProfileTyped, NEW r \in Requests, Step(r) PROVE ProfileTyped'
<1>1. CASE profile' = profile
  BY <1>1 DEF ProfileTyped
<1>2. CASE profile' # profile
  <2>1. WriteProfile(r)
    BY <1>2, OthersOnlyRead
       DEF Writes, Drop, Insert, Attach, Erase, Toggle, InsertMedia, Content, Tables, Files
  <2> DEFINE g == [f \in Fields |-> IF f \in call[r].with THEN Column(r) ELSE profile[User(r)][f]]
  <2>2. profile' = [profile EXCEPT ![User(r)] = g]
    BY <1>2, <2>1 DEF WriteProfile
  <2>3. profile' = [u \in Users |-> IF u = User(r) THEN g ELSE profile[u]]
    BY <2>2 DEF ProfileTyped
  <2>4. \A u \in Users : profile'[u] = [f \in Fields |-> profile'[u][f]]
    <3> TAKE u \in Users
    <3>1. profile'[u] = IF u = User(r) THEN g ELSE profile[u]
      BY <2>3
    <3>2. profile[u] = [f \in Fields |-> profile[u][f]]
      BY DEF ProfileTyped
    <3>3. g = [f \in Fields |-> g[f]]
      OBVIOUS
    <3> HIDE DEF g
    <3> QED BY <3>1, <3>2, <3>3
  <2>5. profile' = [u \in Users |-> profile'[u]]
    BY <2>3
  <2> QED BY <2>4, <2>5 DEF ProfileTyped
<1> QED BY <1>1, <1>2
-----------------------------------------------------------------------------
Late == {"revoke", "reread", "attach", "read", "mark", "out", "end"}

(* A call that goes on.                                                    *)
LEMMA GoesTruly ==
  ASSUME PInv, NEW r \in Requests, True(r), pc[r] \notin {"out", "end"},
         NEW x, x \notin {"out", "end"}, Goto(r, x), call' = call, status' = status, Effects(r)'
  PROVE  True(r)'
<1>1. pc'[r] = x /\ out' = out
  BY ExceptAt DEF PInv, Functional, Goto
<1>2. out[r] = None /\ status[r] \notin 200..499
  BY DEF True, Outcome, Answered
<1>3. Outcome(r)'
  BY <1>1, <1>2 DEF Outcome, None
<1>4. Answered(r)'
  BY <1>2 DEF Answered
<1> QED BY <1>3, <1>4 DEF True

(* A call that comes back.                                                 *)
LEMMA ReturnsTruly ==
  ASSUME PInv, NEW r \in Requests, True(r), pc[r] \notin {"out", "end"},
         NEW o, o # None, Return(r, o), call' = call, status' = status,
         o = "ok" => Stands(r)' \/ Undone(r)',
         o \notin {"ok", "failed"} =>
           ~ did'[r] \/ (o = "forbidden" /\ call[r].with # {}) \/ Undone(r)',
         o = "failed" => Status(Op(r), "failed") \in {500, 503}
  PROVE  True(r)'
<1>1. pc'[r] = "out" /\ out'[r] = o
  BY ExceptAt DEF PInv, Functional, Return
<1>2. status[r] \notin 200..499
  BY DEF True, Outcome, Answered
<1>3. Effects(r)'
  BY <1>1 DEF Effects
<1>4. Status(Op(r), "failed")' = Status(Op(r), "failed")
  BY DEF Op
<1>5. Outcome(r)'
  BY <1>1, <1>4 DEF Outcome, None
<1>6. Answered(r)'
  BY <1>2 DEF Answered
<1> QED BY <1>3, <1>5, <1>6 DEF True

(* Before the first effect there is little to tell.                        *)
LEMMA GoesEarly ==
  ASSUME PInv, NEW r \in Requests, True(r), pc[r] \notin Late,
         NEW x, x \notin Late, Goto(r, x), NoEffect, call' = call, status' = status
  PROVE  True(r)'
<1>1. pc'[r] = x /\ ~ did'[r]
  BY ExceptAt DEF PInv, Functional, Goto, NoEffect, True, Effects, Late
<1>2. Effects(r)'
  BY <1>1 DEF Effects, Late
<1> QED BY <1>2, GoesTruly DEF Late

(* And a refusal has left nothing.                                         *)
LEMMA RefusesTruly ==
  ASSUME PInv, NEW r \in Requests, True(r), pc[r] \notin Late,
         NEW o, o \notin {None, "ok", "failed"}, Return(r, o), NoEffect,
         call' = call, status' = status
  PROVE  True(r)'
<1>1. ~ did'[r]
  BY DEF NoEffect, True, Effects, Late
<1> QED BY <1>1, ReturnsTruly DEF Late

(* Who only asks is told so.                                               *)
LEMMA AnswersTruly ==
  ASSUME PInv, NEW r \in Requests, True(r), pc[r] \notin {"out", "end"},
         Return(r, "ok"), Op(r) \notin Achieving, call' = call, status' = status
  PROVE  True(r)'
<1>1. Op(r)' \notin {"createPost", "createReply", "deletePost", "deleteMe", "upload",
                     "updateProfile"} \cup DOMAIN Adding \cup DOMAIN Removing
  BY ToggleOps DEF Achieving, Op
<1>2. Stands(r)'
  <2>1. (DOMAIN Adding)' = DOMAIN Adding /\ (DOMAIN Removing)' = DOMAIN Removing
    BY DEF Adding, Removing
  <2> QED BY <1>1, <2>1, ToggleOps DEF Stands
<1>3. "ok" # None
  BY DEF None
<1> QED BY <1>2, <1>3, ReturnsTruly

(* user-service.                                                           *)
LEMMA UserTrue ==
  ASSUME PInv, Deleted, ProfileTyped, NEW r \in Requests, True(r), Lasting(r), UserStep(r),
         UNCHANGED <<call, status>>
  PROVE  True(r)'
<1> USE DEF At
<1>1. CASE FindLogin(r)
  BY <1>1, GoesEarly, RefusesTruly DEF FindLogin, Late, None
<1>2. CASE Issue(r)
  <2>1. Op(r) \notin Achieving
    BY <1>2, ToggleOps DEF Issue, PInv, OnPath, Achieving
  <2> QED BY <1>2, <2>1, AnswersTruly DEF Issue
<1>3. CASE FindMe(r)
  BY <1>3, GoesEarly, RefusesTruly DEF FindMe, Late, None
<1>4. CASE Drop(r)
  <2>1. CASE Goto(r, "revoke")
    <3>1. pc'[r] = "revoke"
      BY <2>1, ExceptAt DEF Goto, PInv, Functional
    <3>2. User(r)' \notin alive'
      BY <1>4, <2>1, <3>1 DEF Drop, Commit, User, Return, Content
    <3>3. Effects(r)'
      BY <3>1, <3>2 DEF Effects
    <3> QED BY <1>4, <2>1, <3>3, GoesTruly DEF Drop
  <2>2. CASE Return(r, "missing") /\ NoEffect
    BY <1>4, <2>2, RefusesTruly DEF Drop, Late, None
  <2> QED BY <1>4, <2>1, <2>2 DEF Drop
<1>5. CASE Revoke(r)
  <2>1. User(r) \notin alive' /\ Op(r) = "deleteMe"
    BY <1>5 DEF Revoke, True, Effects, data, PInv, OnPath
  <2>2. Stands(r)'
    BY <2>1, ToggleOps DEF Stands, Op, User
  <2> QED BY <1>5, <2>2, ReturnsTruly DEF Revoke, None
<1>6. CASE FindProfile(r)
  BY <1>6, GoesEarly, RefusesTruly DEF FindProfile, Late, None
<1>7. CASE WriteProfile(r)
  <2>1. pc'[r] = "reread" /\ alive' = alive
    BY <1>7, ExceptAt DEF WriteProfile, Goto, PInv, Functional, Content
  <2>2. User(r) \in Users /\ call[r].with \subseteq Fields
    <3>1. Op(r) = "updateProfile" /\ call[r] # Idle
      BY <1>7 DEF WriteProfile, PInv, OnPath, Calls
    <3> QED BY <3>1, CallsProper DEF Proper, Op, User
  <2>3. CASE User(r) \in alive /\ call[r].with # {}
    <3>1. profile' = [profile EXCEPT ![User(r)] =
            [f \in Fields |-> IF f \in call[r].with THEN Column(r) ELSE profile[User(r)][f]]]
      BY <1>7, <2>3 DEF WriteProfile
    <3>2. \A f \in call[r].with : profile'[User(r)][f] = Column(r)
      BY <2>2, <3>1 DEF ProfileTyped
    <3>3. Written(r)'
      BY <3>2 DEF Written, User, Column, None
    <3> QED BY <2>1, <3>3, <1>7, GoesTruly DEF WriteProfile, Effects
  <2>4. CASE User(r) \notin alive \/ call[r].with = {}
    <3>1. User(r)' \notin alive' \/ Written(r)'
      BY <2>1, <2>4 DEF Written, User
    <3>2. Effects(r)'
      BY <2>1, <3>1 DEF Effects
    <3> QED BY <1>7, <3>2, GoesTruly DEF WriteProfile
  <2> QED BY <2>3, <2>4
<1>8. CASE RereadProfile(r)
  <2>1. Op(r) = "updateProfile" /\ User(r) \in Users
    <3>1. Op(r) = "updateProfile" /\ call[r] # Idle
      BY <1>8 DEF RereadProfile, PInv, OnPath, Calls
    <3> QED BY <3>1, CallsProper DEF Proper, User
  <2>2. CASE User(r) \in alive
    <3>1. Written(r)'
      BY <1>8, <2>1, <2>2 DEF RereadProfile, True, Effects, Lasting
    <3>2. Stands(r)'
      BY <2>1, <3>1, ToggleOps DEF Stands, Written, Op
    <3> QED BY <1>8, <2>2, <3>2, ReturnsTruly DEF RereadProfile, None
  <2>3. CASE User(r) \notin alive
    <3>1. PICK d \in Requests : did[d] /\ Op(d) = "deleteMe" /\ User(d) = User(r)
      BY <2>1, <2>3 DEF Deleted
    <3>2. Undone(r)
      BY <2>1, <3>1 DEF Undone, Undoes
    <3> QED BY <1>8, <2>3, <3>2, ReturnsTruly DEF RereadProfile, None, Lasting
  <2> QED BY <2>2, <2>3
<1>9. QED
  BY <1>1, <1>2, <1>3, <1>4, <1>5, <1>6, <1>7, <1>8 DEF UserStep

(* content-service, posts.                                                 *)
LEMMA PostsTrue ==
  ASSUME PInv, Erased, NEW r \in Requests, True(r), Lasting(r), UNCHANGED <<call, status>>,
         \/ FindParent(r) \/ Insert(r) \/ Attach(r) \/ ReadBack(r)
         \/ FindPost(r) \/ Erase(r) \/ MarkMedia(r)
  PROVE  True(r)'
<1> USE DEF At
<1>0. pc[r] # "end" => Proper(call[r])
  BY CallsProper DEF PInv, Calls
<1>1. CASE FindParent(r)
  BY <1>1, GoesEarly, RefusesTruly DEF FindParent, Late, None
<1>2. CASE Insert(r)
  <2>1. PICK x \in {"read", "attach"} :
          Goto(r, x) /\ (x = "read" <=> call[r].with = {})
    BY <1>2 DEF Insert
  <2>2. pc'[r] = x
    BY <2>1, ExceptAt DEF Goto, PInv, Functional
  <2>3. r \in DOMAIN rows'
    BY <1>2 DEF Insert, Commit, With
  <2>4. There(r)' \/ Undone(r)'
    <3>1. r \in gone => Undone(r)'
      BY DEF Erased, Lasting
    <3>2. gone' = gone /\ r \in PostIds'
      BY <1>2 DEF Insert, Commit, PostIds
    <3> QED BY <2>3, <3>1, <3>2 DEF There, Live
  <2>5. Effects(r)'
    BY <2>1, <2>2, <2>4 DEF Effects, Attached
  <2> QED BY <1>2, <2>1, <2>5, GoesTruly DEF Insert
<1>3. CASE Attach(r)
  <2>1. Op(r) \in {"createPost", "createReply"} /\ (There(r) \/ Undone(r)) /\ call[r].with # {}
    BY <1>3 DEF Attach, True, Effects, PInv, OnPath
  <2>2. CASE Free(r) = call[r].with
    <3>1. pc'[r] = "read"
      BY <1>3, <2>2, ExceptAt DEF Attach, Goto, PInv, Functional
    <3>2. call[r].with \subseteq Requests
      BY <1>0, <1>3, <2>1 DEF Attach, Proper, Op
    <3>3. Attached(r)'
      BY <1>3, <2>2, <3>2 DEF Attach, Attached
    <3>4. Effects(r)'
      BY <2>1, <3>1, <3>3 DEF Effects, Lasting
    <3> QED BY <1>3, <2>2, <3>4, GoesTruly DEF Attach
  <2>3. CASE Free(r) # call[r].with
    BY <1>3, <2>1, <2>3, ReturnsTruly DEF Attach, None
  <2> QED BY <2>2, <2>3
<1>4. CASE ReadBack(r)
  <2>1. Op(r) \in {"createPost", "createReply"} /\ (There(r) \/ Undone(r)) /\ Attached(r)
    BY <1>4 DEF ReadBack, True, Effects, PInv, OnPath
  <2>2. CASE There(r)
    <3>1. Attached(r)' /\ (There(r)' \/ Undone(r)')
      BY <2>1, <2>2 DEF Lasting
    <3>2. There(r)' => Stands(r)'
      BY <2>1, <3>1, ToggleOps DEF Stands, There, Attached, Op
    <3> QED BY <1>4, <2>2, <3>1, <3>2, ReturnsTruly DEF ReadBack, None, There
  <2>3. CASE ~ There(r)
    <3>1. Undone(r)'
      BY <2>1, <2>3 DEF Lasting
    <3>2. Return(r, "missing")
      BY <1>4, <2>3 DEF ReadBack, There
    <3>3. pc[r] = "read"
      BY <1>4 DEF ReadBack
    <3> QED BY <3>1, <3>2, <3>3, ReturnsTruly DEF None
  <2> QED BY <2>2, <2>3
<1>5. CASE FindPost(r)
  <2>1. CASE ~ call[r].on \subseteq Live(rows, gone)
    BY <1>5, <2>1, RefusesTruly DEF FindPost, Late, None
  <2>2. CASE call[r].on \subseteq Live(rows, gone) /\ Op(r) = "getPost"
    BY <1>5, <2>2, AnswersTruly, ToggleOps DEF FindPost, Achieving
  <2>3. CASE call[r].on \subseteq Live(rows, gone) /\ Op(r) # "getPost"
    BY <1>5, <2>3, GoesEarly DEF FindPost, Late
  <2> QED BY <2>1, <2>2, <2>3
<1>6. CASE Erase(r)
  <2>1. CASE Mine(r) # {} /\ Goto(r, "mark")
    <3>1. pc'[r] = "mark"
      BY <2>1, ExceptAt DEF Goto, PInv, Functional
    <3>2. Mine(r) = call[r].on
      BY <1>0, <1>6, <2>1 DEF Erase, Proper, Mine
    <3>3. call[r].on \subseteq gone'
      BY <1>6, <2>1, <3>2 DEF Erase, Commit
    <3>4. Effects(r)'
      BY <3>1, <3>3 DEF Effects
    <3> QED BY <1>6, <2>1, <3>4, GoesTruly DEF Erase
  <2>2. CASE Return(r, "missing") /\ NoEffect
    BY <1>6, <2>2, RefusesTruly DEF Erase, Late, None
  <2> QED BY <1>6, <2>1, <2>2 DEF Erase
<1>7. CASE MarkMedia(r)
  <2>1. call[r].on \subseteq gone' /\ Op(r) = "deletePost"
    BY <1>7 DEF MarkMedia, True, Effects, data, PInv, OnPath
  <2>2. Stands(r)'
    BY <2>1, ToggleOps DEF Stands, Op
  <2> QED BY <1>7, <2>2, ReturnsTruly DEF MarkMedia, None
<1> QED BY <1>1, <1>2, <1>3, <1>4, <1>5, <1>6, <1>7

(* content-service, toggles and lists of follows.                          *)
LEMMA TogglesTrue ==
  ASSUME PInv, NEW r \in Requests, True(r), Lasting(r), UNCHANGED <<call, status>>,
         FindFollower(r) \/ FindTarget(r) \/ Toggle(r)
  PROVE  True(r)'
<1> USE DEF At
<1>1. CASE FindFollower(r)
  BY <1>1, GoesEarly, RefusesTruly DEF FindFollower, Late, None
<1>2. CASE FindTarget(r)
  BY <1>2, GoesEarly, RefusesTruly DEF FindTarget, Late, None
<1>3. CASE Toggle(r)
  <2>1. Op(r) \in Toggles /\ Entry(r)' = Entry(r)
    BY <1>3, EntryLasts DEF Toggle, PInv, OnPath
  <2>2. CASE Op(r) \in DOMAIN Adding
    <3>1. Entry(r) \subseteq DOMAIN rows'
      <4>1. CASE Entry(r) \subseteq DOMAIN rows
        BY <1>3, <2>2, <4>1, ToggleOps DEF Toggle, Content
      <4>2. CASE ~ Entry(r) \subseteq DOMAIN rows
        BY <1>3, <2>2, <4>2 DEF Toggle, Commit, With, Content
      <4> QED BY <4>1, <4>2
    <3>2. Stands(r)' = (Entry(r)' \subseteq DOMAIN rows')
      <4>1. (DOMAIN Adding)' = DOMAIN Adding /\ Op(r)' = Op(r)
        BY DEF Adding, Op
      <4> QED BY <2>2, <4>1, ToggleOps DEF Stands
    <3> QED BY <1>3, <2>1, <3>1, <3>2, ReturnsTruly DEF Toggle, None
  <2>3. CASE Op(r) \in DOMAIN Removing
    <3>1. Entry(r) \cap DOMAIN rows' = {}
      <4>0. Op(r) \notin DOMAIN Adding
        BY <2>3, ToggleOps
      <4>1. CASE Entry(r) \subseteq DOMAIN rows
        BY <1>3, <2>3, <4>0, <4>1 DEF Toggle, Commit, Restrict
      <4>2. CASE ~ Entry(r) \subseteq DOMAIN rows
        <5>1. \A x, y \in Entry(r) : x = y
          BY <2>1, TogglesProper DEF Proper, Entry
        <5>2. rows' = rows
          BY <1>3, <4>0, <4>2 DEF Toggle, Content
        <5> QED BY <4>2, <5>1, <5>2
      <4> QED BY <4>1, <4>2
    <3>2. Stands(r)' = (Entry(r)' \cap DOMAIN rows' = {})
      <4>1. (DOMAIN Adding)' = DOMAIN Adding /\ (DOMAIN Removing)' = DOMAIN Removing
            /\ Op(r)' = Op(r)
        BY DEF Adding, Removing, Op
      <4> QED BY <2>3, <4>1, ToggleOps DEF Stands
    <3> QED BY <1>3, <2>1, <3>1, <3>2, ReturnsTruly DEF Toggle, None
  <2> QED BY <2>1, <2>2, <2>3, ToggleOps
<1> QED BY <1>1, <1>2, <1>3

(* Reading.                                                                *)
LEMMA ReadsTrue ==
  ASSUME PInv, NEW r \in Requests, True(r), UNCHANGED <<call, status>>, ReadStep(r)
  PROVE  True(r)'
<1> USE DEF At, Late, Achieving, PInv, OnPath
<1> USE ToggleOps
<1>1. CASE ReadReplies(r)
  BY <1>1, AnswersTruly DEF ReadReplies
<1>2. CASE ReadFollows(r)
  BY <1>2, AnswersTruly DEF ReadFollows
<1>3. CASE FindUser(r, "me", "exists")
  BY <1>3, GoesEarly, RefusesTruly DEF FindUser, None
<1>4. CASE FindUser(r, "exists", "own")
  BY <1>4, GoesEarly, RefusesTruly DEF FindUser, None
<1>5. CASE ReadOwn(r)
  BY <1>5, GoesEarly DEF ReadOwn
<1>6. CASE ReadReposts(r)
  BY <1>6, GoesEarly DEF ReadReposts
<1>7. CASE PreloadPosts(r)
  BY <1>7, AnswersTruly DEF PreloadPosts
<1>8. CASE ReadCache(r)
  BY <1>8, GoesEarly, AnswersTruly DEF ReadCache
<1>9. CASE ReadPage(r)
  BY <1>9, GoesEarly DEF ReadPage
<1>10. CASE Fill(r)
  BY <1>10, AnswersTruly DEF Fill
<1> QED
  BY <1>1, <1>2, <1>3, <1>4, <1>5, <1>6, <1>7, <1>8, <1>9, <1>10 DEF ReadStep

(* storage-service.                                                        *)
LEMMA StorageTrue ==
  ASSUME PInv, NEW r \in Requests, True(r), UNCHANGED <<call, status>>, StorageStep(r)
  PROVE  True(r)'
<1> USE DEF At
<1>1. CASE RefuseFile(r)
  BY <1>1, RefusesTruly DEF RefuseFile, Late, None
<1>2. CASE Put(r)
  BY <1>2, GoesEarly DEF Put, Late
<1>3. CASE InsertMedia(r)
  <2>1. r \in media' /\ Op(r) = "upload"
    BY <1>3 DEF InsertMedia, PInv, OnPath
  <2>2. Stands(r)'
    BY <2>1, ToggleOps DEF Stands, Op
  <2> QED BY <1>3, <2>2, ReturnsTruly DEF InsertMedia, None
<1> QED BY <1>1, <1>2, <1>3 DEF StorageStep

(* No service calls an outcome "none".                                     *)
LEMMA ErrorNames ==
  ASSUME NEW op \in Routes
  PROVE  /\ None \notin DOMAIN Errors(op)
         /\ "failed" \in DOMAIN Errors(op) =>
            Handlers[op].service # "none" \/ op \in HealthRPCs \cup RawRPCs
<1>1. CASE op \in RawRPCs
  BY <1>1 DEF Errors, ContentErrors, None
<1>2. CASE op \in HealthRPCs
  BY <1>2 DEF Errors, HealthRPCs, RawRPCs, None
<1>3. CASE op \notin RawRPCs \cup HealthRPCs
  <2> DEFINE k == Handlers[op].service
  <2>1. k \in Services
    BY RoutesKnown DEF Known
  <2>2. Errors(op) = [content |-> ContentErrors, user |-> UserErrors, storage |-> StorageErrors,
                      feed |-> FeedErrors, notification |-> NotificationErrors,
                      none |-> << >>][k]
    BY <1>3 DEF Errors
  <2> HIDE DEF k
  <2>3. CASE k = "none"
    <3>1. Errors(op) = << >>
      BY <2>2, <2>3
    <3> QED BY <3>1
  <2>4. CASE k # "none"
    <3>1. Errors(op) \in {ContentErrors, UserErrors, StorageErrors, FeedErrors, NotificationErrors}
      BY <2>1, <2>2, <2>4 DEF Services
    <3>2. None \notin DOMAIN Errors(op)
      BY <3>1 DEF ContentErrors, UserErrors, StorageErrors, FeedErrors, NotificationErrors, None
    <3> QED BY <2>4, <3>2 DEF k
  <2> QED BY <2>3, <2>4
<1> QED BY <1>1, <1>2, <1>3

(* What can happen in any service.                                         *)
LEMMA AnywhereTrue ==
  ASSUME PInv, ProfileTyped, NEW r \in Requests, True(r), Lasting(r), Step(r),
         Elsewhere(r) \/ Invalid(r) \/ Fail(r) \/ Stop(r)
  PROVE  True(r)'
<1> UNCHANGED <<call, status>> /\ pc[r] # "end"
  BY StepLegal DEF Step, Legal
<1>0. Op(r) \in Routes
  BY CallsProper DEF PInv, Calls, Proper, Op
<1>1. CASE Elsewhere(r)
  <2>1. PICK o \in {"ok"} \cup DOMAIN Errors(Op(r)) : Return(r, o)
    BY <1>1 DEF Elsewhere
  <2>2. Op(r) \notin Achieving /\ pc[r] \notin Late /\ NoEffect
    BY <1>1 DEF Elsewhere, At, PInv, OnPath, Achieving, Late
  <2>3. CASE o = "ok"
    BY <2>1, <2>2, <2>3, AnswersTruly DEF Late
  <2>4. CASE o = "failed"
    <3>1. Status(Op(r), "failed") \in {500, 503}
      BY <1>0, <2>1, <2>4, ErrorNames, FailuresAre5xx
    <3> QED BY <2>1, <2>2, <2>4, <3>1, ReturnsTruly DEF Late, None
  <2>5. CASE o \notin {"ok", "failed"}
    BY <1>0, <2>1, <2>2, <2>5, ErrorNames, RefusesTruly
  <2> QED BY <2>3, <2>4, <2>5
<1>2. CASE Invalid(r)
  <2>1. pc[r] \notin Late
    BY <1>2 DEF Invalid, Malformed, First, Toggles, Adding, Removing, Late
  <2> QED BY <1>2, <2>1, RefusesTruly DEF Invalid, None
<1>3. CASE Fail(r)
  <2>1. Status(Op(r), "failed") \in {500, 503}
    BY <1>0, <1>3, FailuresAre5xx DEF Fail
  <2> QED BY <1>3, <2>1, ReturnsTruly DEF Fail, InService, None
<1>4. CASE Stop(r)
  <2>1. pc'[r] = "end" /\ out' = out /\ did' = did
    BY <1>4, ExceptAt DEF Stop, NoEffect, PInv, Functional
  <2>2. status[r] \notin 200..499
    BY DEF True, Answered
  <2>3. Effects(r)' /\ Answered(r)'
    BY <2>1, <2>2 DEF Effects, Answered
  <2>4. Status(Op(r), "failed")' = Status(Op(r), "failed")
    BY DEF Op
  <2>5. out[r] = "ok" => Stands(r)' \/ Undone(r)'
    BY StandsLasts DEF True, Outcome, Lasting
  <2>6. Outcome(r)'
    BY <2>1, <2>4, <2>5 DEF True, Outcome, Lasting
  <2> QED BY <2>3, <2>6 DEF True
<1> QED BY <1>1, <1>2, <1>3, <1>4

(* The gateway's own steps touch none of the tables.                       *)
LEMMA GatewayLasts ==
  ASSUME PInv, NEW r \in Requests, TurnAway(r) \/ Call(r) \/ TimeOut(r) \/ Respond(r)
  PROVE  /\ DidGrows /\ did' = did /\ UNCHANGED Tables /\ objects' = objects
         /\ \A s \in Requests : Lasting(s)
<1>1. Marks(r) /\ DidGrows
  BY GatewayLegal, MarksGrow DEF Legal
<1>2. did' = did /\ UNCHANGED Tables /\ objects' = objects
  BY DEF TurnAway, Refuse, Call, TimeOut, Respond, data, Content, Files, Tables
<1> QED BY <1>1, <1>2, ReadsLast

(* What the client is told is what the service knows.                      *)
LEMMA GatewayTrue ==
  ASSUME PInv, NEW r \in Requests, True(r), Lasting(r),
         TurnAway(r) \/ Call(r) \/ TimeOut(r) \/ Respond(r)
  PROVE  True(r)'
<1>0. call' = call /\ did' = did /\ pc[r] # "end"
  BY GatewayLegal, GatewayLasts DEF DidGrows, Legal
<1>9. Status(Op(r), "failed")' = Status(Op(r), "failed")
  BY <1>0 DEF Op
<1>10. out[r] = "ok" => Stands(r)' \/ Undone(r)'
  BY <1>0, StandsLasts DEF True, Outcome, Lasting
<1>1. CASE TurnAway(r)
  <2>1. pc[r] = "new" /\ out' = out /\ \E c : Answer(r, c)
    BY <1>1 DEF TurnAway, Admitted, Sent, At, Refuse
  <2>2. pc'[r] = "end"
    BY <2>1, ExceptAt DEF Answer, PInv, Functional
  <2>3. ~ did[r] /\ out[r] = None
    BY <2>1 DEF True, Effects, Outcome
  <2>4. status'[r] \in {400, 401, 429}
    BY <1>1, ExceptAt DEF TurnAway, Refuse, Answer, PInv, Functional
  <2>5. Effects(r)' /\ Outcome(r)'
    BY <1>0, <2>1, <2>2, <2>3 DEF Effects, Outcome, None
  <2>6. Answered(r)'
    BY <1>0, <2>1, <2>2, <2>3, <2>4 DEF Answered, None
  <2> QED BY <2>5, <2>6 DEF True
<1>2. CASE Call(r)
  <2>1. /\ pc[r] = "new" /\ Goto(r, First(Op(r))) /\ NoEffect /\ status' = status
    BY <1>2 DEF Call, Admitted, Sent, At, Goto, NoEffect
  <2>2. First(Op(r)) \notin Late
    BY DEF First, Toggles, Adding, Removing, Late
  <2> QED BY <1>0, <2>1, <2>2, GoesEarly DEF Late
<1>3. CASE TimeOut(r)
  <2>1. pc' = pc /\ out' = out
    BY <1>3 DEF TimeOut
  <2>2. status'[r] \notin 200..499
    <3>1. status'[r] = TimeOutStatus(Op(r))
      BY <1>3, ExceptAt DEF TimeOut, PInv, Functional
    <3> QED BY <3>1, ErrorStatuses DEF Cut
  <2>3. Effects(r)'
    BY <1>0, <2>1 DEF True, Effects, Lasting, User, PInv, OnPath
  <2>4. Outcome(r)'
    BY <1>0, <1>9, <1>10, <2>1 DEF True, Outcome, Lasting
  <2>5. Answered(r)'
    BY <2>2 DEF Answered
  <2> QED BY <2>3, <2>4, <2>5 DEF True
<1>4. CASE Respond(r)
  <2>1. pc[r] = "out" /\ out' = out /\ Answer(r, Status(Op(r), out[r]))
    BY <1>4 DEF Respond, At
  <2>2. pc'[r] = "end" /\ status'[r] = Status(Op(r), out[r])
    BY <2>1, ExceptAt DEF Answer, PInv, Functional
  <2>3. Effects(r)' /\ Outcome(r)'
    BY <1>0, <1>9, <1>10, <2>1, <2>2 DEF True, Effects, Outcome, Lasting
  <2>4. Op(r) \in Routes /\ out[r] # None
    BY <1>0, <2>1, CallsProper DEF PInv, Calls, Proper, Op, True, Outcome
  <2>5. CASE out[r] = "ok"
    <3>1. status'[r] \in {200, 201, 204}
      BY <2>2, <2>4, <2>5, RoutesKnown DEF Status, Known
    <3> QED BY <2>1, <2>2, <2>3, <2>5, <3>1 DEF Answered, True
  <2>6. CASE out[r] = "failed"
    <3>1. status'[r] \in {500, 503}
      BY <2>2, <2>6 DEF True, Outcome
    <3> QED BY <2>3, <3>1 DEF Answered, True
  <2>7. CASE out[r] \notin {"ok", "failed"}
    <3>1. status'[r] \in {400, 401, 403, 404, 409, 500, 503}
      BY <2>2, <2>7, ErrorStatuses DEF Status
    <3> QED BY <2>1, <2>2, <2>3, <2>4, <2>7, <3>1 DEF Answered, True
  <2> QED BY <2>5, <2>6, <2>7
<1> QED BY <1>1, <1>2, <1>3, <1>4
-----------------------------------------------------------------------------
(* Before the first request nothing has been done or said.                 *)
LEMMA InitEInv == Init => EInv
<1> SUFFICES ASSUME Init PROVE EInv
  OBVIOUS
<1>1. MInv /\ PInv
  BY InitMInv, InitPInv
<1>2. /\ alive = Users /\ gone = OldGone
      /\ profile = [u \in Users |-> [f \in Fields |-> None]]
      /\ \A r \in Requests : /\ pc[r] \in {"new", "end"} /\ out[r] = None /\ ~ did[r]
                             /\ status[r] = 0
  BY DEF Init
<1>3. Deleted /\ Erased
  BY <1>2, BackendAssumption DEF Deleted, Erased
<1>4. ProfileTyped
  BY <1>2 DEF ProfileTyped
<1>5. \A r \in Requests : True(r)
  BY <1>2 DEF True, Effects, Outcome, Answered, None
<1> QED BY <1>1, <1>3, <1>4, <1>5 DEF EInv

(* Every step keeps that so.                                               *)
LEMMA StepEInv == EInv /\ [Next]_vars => EInv'
<1> SUFFICES ASSUME EInv, [Next]_vars PROVE EInv'
  OBVIOUS
<1> USE DEF EInv
<1>1. MInv' /\ PInv'
  BY StepMInv, StepPInv
<1>2. ASSUME NEW r \in Requests, Marks(r), \E x : pc' = [pc EXCEPT ![r] = x],
             \A s \in Requests : Lasting(s), True(r)'
      PROVE  \A s \in Requests : True(s)'
  <2> TAKE s \in Requests
  <2>1. CASE s = r
    BY <1>2, <2>1
  <2>2. CASE s # r
    <3>1. /\ call' = call /\ pc'[s] = pc[s] /\ out'[s] = out[s] /\ did'[s] = did[s]
          /\ status'[s] = status[s]
      BY <1>2, <2>2, OthersStay DEF Marks
    <3> QED BY <1>2, <3>1, OthersTrue DEF PInv
  <2> QED BY <2>1, <2>2
<1>3. ASSUME NEW r \in Requests, Step(r) PROVE EInv'
  <2>1. Legal(r) /\ UNCHANGED <<call, status>>
    BY <1>3, StepLegal DEF Step
  <2>2. Deleted' /\ Erased' /\ ProfileTyped' /\ \A s \in Requests : Lasting(s)
    BY <1>3, StepDeleted, StepErased, StepProfile, StepLasts
  <2>3. True(r)'
    BY <1>3, <2>1, <2>2, UserTrue, PostsTrue, TogglesTrue, ReadsTrue, StorageTrue, AnywhereTrue
       DEF Step, ContentStep
  <2> QED BY <1>1, <1>2, <2>1, <2>2, <2>3 DEF Legal
<1>4. ASSUME NEW r \in Requests, TurnAway(r) \/ Call(r) \/ TimeOut(r) \/ Respond(r) PROVE EInv'
  <2>1. Legal(r)
    BY <1>4, GatewayLegal
  <2>2. /\ DidGrows /\ did' = did /\ UNCHANGED Tables
        /\ \A s \in Requests : Lasting(s)
    BY <1>4, GatewayLasts
  <2>3. Deleted' /\ Erased' /\ ProfileTyped'
    BY <2>2 DEF Deleted, Erased, ProfileTyped, Lasting, Tables, DidGrows, Op, User
  <2>4. True(r)'
    BY <1>4, <2>2, GatewayTrue
  <2> QED BY <1>1, <1>2, <2>1, <2>2, <2>3, <2>4 DEF Legal
<1>5. ASSUME UNCHANGED <<call, pc, out, did, status, Tables>> PROVE EInv'
  <2>1. DidGrows
    BY <1>5 DEF DidGrows
  <2>2. \A s \in Requests : Lasting(s)
    BY <1>5, <2>1, ReadsLast
  <2>3. \A s \in Requests : True(s)'
    BY <1>5, <2>2, OthersTrue DEF PInv
  <2>4. Deleted' /\ Erased' /\ ProfileTyped'
    BY <1>5, <2>2 DEF Deleted, Erased, ProfileTyped, Lasting, Tables, Op, User
  <2> QED BY <1>1, <2>3, <2>4
<1>6. ASSUME NEW r \in Requests, Forget(r) PROVE EInv'
  BY <1>5, <1>6 DEF Forget, Content, Files, Tables
<1>7. ASSUME NEW u \in Users, Expire(u) PROVE EInv'
  BY <1>5, <1>7 DEF Expire, data, Tables
<1>8. CASE AllDone \/ UNCHANGED vars
  BY <1>5, <1>8 DEF AllDone, vars, data, Tables
<1> QED BY <1>3, <1>4, <1>6, <1>7, <1>8 DEF Next

(* The inductive invariant of effects and answers.                         *)
THEOREM EffectsInvariant == Spec => []EInv
  BY InitEInv, StepEInv, PTL DEF Spec

(* For any requests that meet, and with every failure, deadline and cut    *)
(* connection: a success that the client is told stands until another      *)
(* request takes it back, and a refusal has left nothing behind.           *)
THEOREM AnswersAreTrue == Spec => []AnswersTellEffects
  BY EffectsInvariant, EInvTells, PTL
-----------------------------------------------------------------------------
(* A set of numbers that is not empty has a least one.                     *)
LEMMA LeastOf ==
  ASSUME NEW N, N \subseteq Nat, N # {}
  PROVE  Min(N) \in N /\ \A y \in N : Min(N) =< y
<1> DEFINE Up == {1..y : y \in N}
<1>1. Up # {} /\ Up \subseteq FiniteSubsetsOf(Nat)
  <2>1. \A y \in N : IsFiniteSet(1..y) /\ 1..y \subseteq Nat
    BY FS_Interval
  <2> QED BY <2>1 DEF FiniteSubsetsOf
<1>2. PICK X \in Up : \A Y \in Up : <<Y, X>> \notin StrictSubsetOrdering(Nat)
  BY <1>1, FS_StrictSubsetOrderingWellFounded, WFMin
<1>3. PICK x \in N : X = 1..x
  BY <1>2
<1>4. ASSUME NEW y \in N PROVE x =< y
  <2>1. <<1..y, 1..x>> \notin StrictSubsetOrdering(Nat)
    BY <1>2, <1>3
  <2>2. 1..y \subseteq Nat /\ 1..x \subseteq Nat
    OBVIOUS
  <2>3. ~ (1..y \subseteq 1..x) \/ 1..y = 1..x
    BY <2>1, <2>2 DEF StrictSubsetOrdering
  <2>4. CASE y < x
    <3>1. 1..y \subseteq 1..x /\ x \in 1..x /\ x \notin 1..y
      BY <2>4
    <3> QED BY <2>3, <3>1
  <2> QED BY <2>4
<1> QED BY <1>4 DEF Min

(* What ORDER BY and LIMIT return: all, or n of which none is older than   *)
(* one left out.                                                           *)
LEMMA NewestAre ==
  ASSUME NEW S, IsFiniteSet(S), NEW n \in Nat, NEW T \in Newest(S, n)
  PROVE  /\ T \subseteq S /\ IsFiniteSet(T) /\ Cardinality(T) \in Nat /\ Cardinality(T) =< n
         /\ T # S => Cardinality(T) = n /\ \A e \in T, f \in S \ T : Stamp(e) >= Stamp(f)
<1>1. Cardinality(S) \in Nat
  BY FS_CardinalityType
<1>2. CASE Cardinality(S) =< n
  <2>1. T = S
    BY <1>2 DEF Newest
  <2> QED BY <1>1, <1>2, <2>1
<1>3. CASE ~ Cardinality(S) =< n
  <2>1. /\ T \subseteq S /\ Cardinality(T) = n
        /\ \A e \in T, f \in S \ T : Stamp(e) >= Stamp(f)
    BY <1>3 DEF Newest, kSubset
  <2>2. IsFiniteSet(T)
    BY <2>1, FS_Subset
  <2> QED BY <2>1, <2>2
<1> QED BY <1>2, <1>3

(* The same the other way round, for replies.                              *)
LEMMA OldestAre ==
  ASSUME NEW S, IsFiniteSet(S), NEW n \in Nat, NEW T \in Oldest(S, n)
  PROVE  /\ T \subseteq S
         /\ T # S => Cardinality(T) = n /\ \A e \in T, f \in S \ T : Stamp(e) =< Stamp(f)
<1>1. CASE Cardinality(S) =< n
  BY <1>1 DEF Oldest
<1>2. CASE ~ Cardinality(S) =< n
  BY <1>2 DEF Oldest, kSubset
<1> QED BY <1>1, <1>2

(* Of two lists merged: who had to give way in one of them, has to in the  *)
(* timeline.                                                               *)
LEMMA MergedKeepsOrder ==
  ASSUME NEW A, NEW B, IsFiniteSet(A), IsFiniteSet(B), NEW n \in Nat,
         Cardinality(A) = n, NEW T \in Merged(A, B, n), NEW t \in Nat,
         \A e \in A \cup B : Stamp(e) \in Nat, \A e \in A : t =< Stamp(e)
  PROVE  Cardinality(T) = n /\ \A e \in T : t =< Stamp(e)
<1>1. IsFiniteSet(A \cup B)
  BY FS_Union
<1>2. /\ T \subseteq A \cup B /\ IsFiniteSet(T) /\ Cardinality(T) \in Nat /\ Cardinality(T) =< n
      /\ T # A \cup B => /\ Cardinality(T) = n
                         /\ \A e \in T, f \in (A \cup B) \ T : Stamp(e) >= Stamp(f)
  BY <1>1, NewestAre DEF Merged
<1>3. CASE A \subseteq T
  <2>1. Cardinality(A) =< Cardinality(T) /\ (Cardinality(T) = Cardinality(A) => T = A)
    BY <1>2, <1>3, FS_Subset
  <2>2. T = A
    BY <1>2, <2>1
  <2> QED BY <2>2
<1>4. CASE ~ A \subseteq T
  <2>1. PICK f \in A : f \notin T
    BY <1>4
  <2>2. Cardinality(T) = n /\ \A e \in T : Stamp(e) >= Stamp(f)
    BY <1>2, <2>1
  <2>3. \A e \in T : Stamp(e) \in Nat /\ Stamp(e) >= Stamp(f)
    BY <1>2, <2>2
  <2>4. t =< Stamp(f) /\ Stamp(f) \in Nat
    BY <2>1
  <2> HIDE DEF Stamp
  <2> QED BY <2>2, <2>3, <2>4
<1> QED BY <1>3, <1>4

(* A page of the feed is below its cursor and not below the next one, and  *)
(* what it leaves out is not above that.                                   *)
LEMMA PagesAre ==
  ASSUME NEW S, IsFiniteSet(S), \A e \in S : Stamp(e) \in Nat \ {0},
         NEW n \in Nat \ {0}, NEW c \in Nat, NEW page \in Pages(S, n, c)
  PROVE  /\ page.shown \subseteq S /\ page.next \in Nat
         /\ \A e \in page.shown : c = 0 \/ Stamp(e) < c
         /\ page.next # 0 => /\ \A e \in page.shown : Stamp(e) >= page.next
                             /\ c = 0 \/ page.next < c
         /\ \A f \in S : (c = 0 \/ Stamp(f) < c) =>
              f \in page.shown \/ (page.next # 0 /\ Stamp(f) =< page.next)
<1> DEFINE A == After(S, c)
<1>1. /\ A \subseteq S /\ \A e \in A : c = 0 \/ Stamp(e) < c
      /\ \A f \in S : (c = 0 \/ Stamp(f) < c) => f \in A
  BY DEF After
<1>2. PICK T \in Newest(A, n) :
        page = [shown |-> T, next |-> IF Cardinality(A) > n THEN Min({Stamp(e) : e \in T}) ELSE 0]
  BY DEF Pages
<1>3. IsFiniteSet(A) /\ Cardinality(A) \in Nat
  BY <1>1, FS_Subset, FS_CardinalityType
<1> HIDE DEF A
<1>4. CASE Cardinality(A) > n
  <2>1. ~ Cardinality(A) =< n
    BY <1>3, <1>4
  <2>2. T \subseteq A /\ Cardinality(T) = n /\ \A e \in T, f \in A \ T : Stamp(e) >= Stamp(f)
    BY <1>2, <2>1 DEF Newest, kSubset
  <2>3. T # {}
    BY <2>2, FS_EmptySet
  <2> DEFINE N == {Stamp(e) : e \in T}
  <2>4. N \subseteq Nat /\ N # {}
    BY <1>1, <2>2, <2>3
  <2>5. Min(N) \in N /\ \A y \in N : Min(N) =< y
    BY <2>4, LeastOf
  <2>6. PICK m \in T : Min(N) = Stamp(m)
    BY <2>5
  <2>7. page.shown = T /\ page.next = Stamp(m)
    BY <1>2, <1>4, <2>6
  <2>8. \A e \in T : Stamp(m) =< Stamp(e)
    BY <2>5, <2>6
  <2>9. Stamp(m) \in Nat \ {0} /\ (c = 0 \/ Stamp(m) < c)
    BY <1>1, <2>2
  <2>10. \A e \in S : Stamp(e) \in Nat
    OBVIOUS
  <2>11. \A f \in A \ T : Stamp(f) =< Stamp(m)
    BY <1>1, <2>2, <2>10, <2>9
  <2>12. \A e \in T : Stamp(e) >= Stamp(m)
    BY <1>1, <2>2, <2>8, <2>9, <2>10
  <2> HIDE DEF N, Stamp
  <2> QED BY <1>1, <2>2, <2>7, <2>9, <2>11, <2>12
<1>5. CASE ~ Cardinality(A) > n
  <2>1. Cardinality(A) =< n
    BY <1>3, <1>5
  <2>2. T = A
    BY <1>2, <2>1 DEF Newest
  <2>3. page.shown = A /\ page.next = 0
    BY <1>2, <1>5, <2>2
  <2> QED BY <1>1, <2>3
<1> QED BY <1>4, <1>5
-----------------------------------------------------------------------------
(* The rows are finitely many and have stamps, what a reading call has     *)
(* read is a record, and what stood all the while is still visible to it.  *)
Shaped(g) ==
  g = [cursor |-> g.cursor, by |-> g.by, own |-> g.own, reposts |-> g.reposts,
       shown |-> g.shown, next |-> g.next, blank |-> g.blank, before |-> g.before]
Stamped == IsFiniteSet(DOMAIN rows) /\ \A i \in DOMAIN rows : rows[i] \in Stamps
BInv ==
  /\ Stamped /\ Functional(got) /\ Functional(stood) /\ cached \subseteq Requests
  /\ \A r \in Requests : Shaped(got[r])
  /\ \A r \in Requests : stood[r] \subseteq Visible(r, rows, gone, alive)

(* The statements that read a list, and those that change what there is.   *)
Reads(r) == \/ ReadReplies(r) \/ ReadFollows(r) \/ ReadOwn(r) \/ ReadReposts(r)
            \/ PreloadPosts(r) \/ ReadCache(r) \/ ReadPage(r) \/ Call(r)
Commits(r) == Drop(r) \/ Insert(r) \/ Erase(r) \/ Toggle(r)

(* Whatever is done, the rows that remain keep their stamps, and one call  *)
(* does not touch what another has read.                                   *)
RowsKept == /\ Stamped' /\ gone \subseteq gone' /\ call' = call
            /\ \A i \in DOMAIN rows \cap DOMAIN rows' : rows'[i] = rows[i]
Untouched(s) == stood'[s] \subseteq stood[s] /\ got'[s] = got[s]
Moves(r) ==
  /\ RowsKept /\ BInv'
  /\ \A s \in Requests : s # r => Untouched(s)
  /\ Reads(r) \/ Untouched(r)

(* What a call can see depends on nothing but those tables.                *)
LEMMA VisibleAgain ==
  ASSUME call' = call, NEW s
  PROVE  Visible(s, rows, gone, alive)' = Visible(s, rows', gone', alive')
  BY DEF Visible, HomeItems, OwnItems, RepostItems, ReplyItems, FollowerItems, FollowingItems,
         Live, PostIds, AuthorOf, ParentOf, Op, User, None

(* All but those steps leave rows and lists alone.                         *)
LEMMA OthersUnread ==
  ASSUME NEW r \in Requests, Step(r)
  PROVE  Commits(r) \/ Reads(r) \/ UNCHANGED <<Content, got>>
<1>1. CASE UserStep(r)
  BY <1>1 DEF UserStep, Commits, FindLogin, Issue, FindMe, Revoke, FindProfile, WriteProfile,
              RereadProfile, data, Content, Reading
<1>2. CASE ContentStep(r)
  BY <1>2 DEF ContentStep, Commits, FindParent, Attach, ReadBack, FindPost, MarkMedia,
              FindFollower, FindTarget, data, Content, Reading
<1>3. CASE ReadStep(r)
  BY <1>3 DEF ReadStep, Reads, FindUser, Fill, data, Content
<1>4. CASE StorageStep(r)
  BY <1>4 DEF StorageStep, RefuseFile, Put, InsertMedia, data, Content, Reading
<1>5. CASE Elsewhere(r) \/ Invalid(r) \/ Fail(r) \/ Stop(r)
  BY <1>5 DEF Elsewhere, Invalid, Fail, Stop, data, Content
<1> QED BY <1>1, <1>2, <1>3, <1>4, <1>5 DEF Step

(* A commit.                                                               *)
LEMMA CommitsMove ==
  ASSUME PInv, BInv, NEW r \in Requests, Commits(r), call' = call PROVE Moves(r)
<1>1. PICK R, G, A : Commit(R, G, A) \/ UNCHANGED Content
  BY DEF Commits, Drop, Insert, Erase, Toggle
<1>2. UNCHANGED <<got, cached>>
  BY DEF Commits, Drop, Insert, Erase, Toggle, Reading
<1>3. gone \subseteq gone'
  BY DEF Commits, Drop, Insert, Erase, Toggle, Commit, Content
<1>4. Min(Stamps) \in Stamps
  BY BackendAssumption, LeastOf
<1>5. \/ rows' = rows
      \/ \E S, t : IsFiniteSet(S) /\ t \in Stamps /\ rows' = With(rows, S, t)
      \/ \E S : S \subseteq DOMAIN rows /\ rows' = Restrict(rows, S)
  <2>1. CASE Drop(r) \/ Erase(r)
    BY <2>1 DEF Drop, Erase, Commit, Content
  <2>2. CASE Insert(r)
    <3>1. IsFiniteSet({r})
      BY FS_Singleton
    <3> QED BY <2>2, <3>1 DEF Insert, Commit
  <2>3. CASE Toggle(r)
    <3>1. Op(r) \in Toggles
      BY <2>3 DEF Toggle, PInv, OnPath, At
    <3>2. Proper(call[r])
      BY <3>1, TogglesProper
    <3>3. IsFiniteSet(Entry(r))
      <4>1. CASE call[r].on = {}
        <5>1. Entry(r) = {}
          BY <4>1 DEF Entry
        <5> QED BY <5>1, FS_EmptySet
      <4>2. CASE call[r].on # {}
        <5>1. PICK x : call[r].on = {x}
          BY <3>2, <4>2 DEF Proper
        <5>2. Entry(r) = {<<KindOf(Op(r)), User(r), x>>}
          BY <5>1 DEF Entry
        <5> QED BY <5>2, FS_Singleton
      <4> QED BY <4>1, <4>2
    <3>4. CASE Op(r) \in DOMAIN Adding /\ ~ Entry(r) \subseteq DOMAIN rows
      BY <1>4, <2>3, <3>3, <3>4 DEF Toggle, Commit, StampsOf
    <3>5. CASE Op(r) \in DOMAIN Removing /\ Entry(r) \subseteq DOMAIN rows
      BY <2>3, <3>5, ToggleOps DEF Toggle, Commit
    <3>6. CASE /\ ~ (Op(r) \in DOMAIN Adding /\ ~ Entry(r) \subseteq DOMAIN rows)
               /\ ~ (Op(r) \in DOMAIN Removing /\ Entry(r) \subseteq DOMAIN rows)
      BY <2>3, <3>6 DEF Toggle, Content
    <3> QED BY <3>4, <3>5, <3>6
  <2> QED BY <2>1, <2>2, <2>3 DEF Commits
<1>6. /\ IsFiniteSet(DOMAIN rows') /\ \A i \in DOMAIN rows' : rows'[i] \in Stamps
      /\ \A i \in DOMAIN rows \cap DOMAIN rows' : rows'[i] = rows[i]
  <2>1. CASE rows' = rows
    BY <2>1 DEF BInv, Stamped
  <2>2. CASE \E S, t : IsFiniteSet(S) /\ t \in Stamps /\ rows' = With(rows, S, t)
    <3>1. PICK S, t : IsFiniteSet(S) /\ t \in Stamps /\ rows' = With(rows, S, t)
      BY <2>2
    <3>2. rows' = [i \in DOMAIN rows \cup S |-> IF i \in DOMAIN rows THEN rows[i] ELSE t]
      BY <3>1 DEF With
    <3>3. IsFiniteSet(DOMAIN rows \cup S)
      BY <3>1, FS_Union DEF BInv, Stamped
    <3> QED BY <3>1, <3>2, <3>3 DEF BInv, Stamped
  <2>3. CASE \E S : S \subseteq DOMAIN rows /\ rows' = Restrict(rows, S)
    <3>1. PICK S : S \subseteq DOMAIN rows /\ rows' = [i \in S |-> rows[i]]
      BY <2>3 DEF Restrict
    <3>2. IsFiniteSet(S)
      BY <3>1, FS_Subset DEF BInv, Stamped
    <3> QED BY <3>1, <3>2 DEF BInv, Stamped
  <2> QED BY <1>5, <2>1, <2>2, <2>3
<1>7. /\ Functional(stood')
      /\ \A s \in Requests : /\ stood'[s] \subseteq stood[s]
                             /\ stood'[s] \subseteq Visible(s, rows', gone', alive')
  <2>1. CASE Commit(R, G, A)
    BY <2>1 DEF Commit, Functional
  <2>2. CASE UNCHANGED Content
    BY <2>2 DEF Content, BInv, Functional
  <2> QED BY <1>1, <2>1, <2>2
<1>8. BInv'
  <2>1. Stamped'
    BY <1>6 DEF Stamped
  <2> QED BY <1>2, <1>7, <2>1, VisibleAgain DEF BInv, Functional, Shaped
<1> QED BY <1>2, <1>3, <1>6, <1>7, <1>8 DEF Moves, RowsKept, Untouched, Stamped
-----------------------------------------------------------------------------
(* An update of a field of what a call has read.                           *)
LEMMA ReadMoves ==
  ASSUME BInv, NEW r \in Requests, NEW g, Shaped(g), got' = [got EXCEPT ![r] = g],
         UNCHANGED <<rows, gone, alive, call, cached>>, Remember(r) \/ UNCHANGED stood
  PROVE  /\ RowsKept /\ BInv' /\ got'[r] = g
         /\ \A s \in Requests : s # r => Untouched(s)
         /\ Remember(r) => stood'[r] = Visible(r, rows, gone, alive)
<1>1. Functional(got') /\ got'[r] = g /\ \A s \in Requests : s # r => got'[s] = got[s]
  BY ExceptAt DEF BInv, Functional
<1>2. CASE UNCHANGED stood
  <2>1. ~ Remember(r) \/ stood'[r] = Visible(r, rows, gone, alive)
    BY <1>2, ExceptAt DEF Remember, BInv, Functional
  <2>2. BInv'
    BY <1>1, <1>2, VisibleAgain DEF BInv, Stamped, Functional
  <2> QED BY <1>1, <1>2, <2>1, <2>2 DEF RowsKept, Untouched, BInv, Stamped
<1>3. CASE Remember(r)
  <2>1. /\ Functional(stood') /\ stood'[r] = Visible(r, rows, gone, alive)
        /\ \A s \in Requests : s # r => stood'[s] = stood[s]
    BY <1>3, ExceptAt DEF Remember, BInv, Functional
  <2>2. \A s \in Requests : stood'[s] \subseteq Visible(s, rows, gone, alive)
    BY <2>1 DEF BInv
  <2>3. \A s \in Requests : Shaped(got'[s])
    BY <1>1 DEF BInv
  <2>4. BInv'
    BY <1>1, <2>1, <2>2, <2>3, VisibleAgain DEF BInv, Stamped, Functional, Shaped
  <2> QED BY <1>1, <2>1, <2>4 DEF RowsKept, Untouched, BInv, Stamped
<1> QED BY <1>2, <1>3

(* What the calls read is filled into the record.                          *)
LEMMA ShapeKept ==
  ASSUME NEW g, Shaped(g), NEW x
  PROVE  /\ Shaped([g EXCEPT !.shown = x]) /\ Shaped([g EXCEPT !.reposts = x])
         /\ Shaped([g EXCEPT !.cursor = x]) /\ Shaped([g EXCEPT !.own = x])
         /\ Shaped([g EXCEPT !.before = x]) /\ Shaped([g EXCEPT !.blank = x])
         /\ Shaped([g EXCEPT !.by = x]) /\ Shaped([g EXCEPT !.next = x])
  BY DEF Shaped

(* The statements of the calls that read.                                  *)
LEMMA ReadsMove ==
  ASSUME BInv, NEW r \in Requests, Reads(r), call' = call PROVE Moves(r)
<1>0. Shaped(got[r])
  BY DEF BInv
<1>1. ASSUME NEW g, Shaped(g), got' = [got EXCEPT ![r] = g],
             UNCHANGED <<rows, gone, alive, cached>>, Remember(r) \/ UNCHANGED stood
      PROVE  Moves(r)
  BY <1>1, ReadMoves DEF Moves
<1>2. CASE ReadReplies(r)
  <2>1. PICK T : got' = [got EXCEPT ![r].shown = T]
    BY <1>2 DEF ReadReplies
  <2>2. got' = [got EXCEPT ![r] = [got[r] EXCEPT !.shown = T]]
    BY <2>1
  <2> QED BY <1>0, <1>1, <1>2, <2>2, ShapeKept DEF ReadReplies
<1>3. CASE ReadFollows(r)
  <2>1. PICK T : got' = [got EXCEPT ![r].shown = T]
    BY <1>3 DEF ReadFollows
  <2>2. got' = [got EXCEPT ![r] = [got[r] EXCEPT !.shown = T]]
    BY <2>1
  <2> QED BY <1>0, <1>1, <1>3, <2>2, ShapeKept DEF ReadFollows
<1>4. CASE ReadOwn(r)
  <2>1. PICK T : got' = [got EXCEPT ![r].own = T, ![r].before = gone]
    BY <1>4 DEF ReadOwn
  <2>2. got' = [got EXCEPT ![r] = [[got[r] EXCEPT !.own = T] EXCEPT !.before = gone]]
    BY <2>1 DEF BInv, Functional
  <2> QED BY <1>0, <1>1, <1>4, <2>2, ShapeKept DEF ReadOwn
<1>5. CASE ReadReposts(r)
  <2>1. PICK T : got' = [got EXCEPT ![r].reposts = T]
    BY <1>5 DEF ReadReposts
  <2>2. got' = [got EXCEPT ![r] = [got[r] EXCEPT !.reposts = T]]
    BY <2>1
  <2> QED BY <1>0, <1>1, <1>5, <2>2, ShapeKept DEF ReadReposts, Content
<1>6. CASE PreloadPosts(r)
  <2>1. PICK T : got' = [got EXCEPT ![r].shown = T, ![r].blank = Blank(T \cap got[r].reposts)]
    BY <1>6 DEF PreloadPosts
  <2>2. got' = [got EXCEPT ![r] = [[got[r] EXCEPT !.shown = T]
                                       EXCEPT !.blank = Blank(T \cap got[r].reposts)]]
    BY <2>1 DEF BInv, Functional
  <2> QED BY <1>0, <1>1, <1>6, <2>2, ShapeKept DEF PreloadPosts, Content
<1>7. CASE ReadCache(r)
  <2>1. UNCHANGED got \/ \E s \in cached : got' = [got EXCEPT ![r] = got[s]]
    BY <1>7 DEF ReadCache
  <2>2. CASE UNCHANGED got
    <3>1. got' = [got EXCEPT ![r] = got[r]]
      BY <2>2 DEF BInv, Functional
    <3> QED BY <1>0, <1>1, <1>7, <3>1 DEF ReadCache, Content
  <2>3. CASE \E s \in cached : got' = [got EXCEPT ![r] = got[s]]
    <3>1. PICK s \in cached : got' = [got EXCEPT ![r] = got[s]]
      BY <2>3
    <3>2. Shaped(got[s])
      BY DEF BInv
    <3> QED BY <1>1, <1>7, <3>1, <3>2 DEF ReadCache, Content
  <2> QED BY <2>1, <2>2, <2>3
<1>8. CASE ReadPage(r)
  <2>1. PICK page : got' = [got EXCEPT ![r].by = r, ![r].shown = page.shown, ![r].next = page.next]
    BY <1>8 DEF ReadPage
  <2> DEFINE g == [[got[r] EXCEPT !.by = r] EXCEPT !.shown = page.shown]
             f == [got EXCEPT ![r].by = r, ![r].shown = page.shown]
  <2>2. got' = [f EXCEPT ![r].next = page.next]
    BY <2>1
  <2>3. f = [got EXCEPT ![r] = g]
    BY DEF BInv, Functional
  <2>4. Shaped(g)
    BY <1>0, ShapeKept
  <2> HIDE DEF g, f
  <2>5. f[r] = g
    BY <2>3 DEF BInv, Functional
  <2>6. got' = [f EXCEPT ![r] = [g EXCEPT !.next = page.next]]
    BY <2>2, <2>5
  <2>7. got' = [got EXCEPT ![r] = [g EXCEPT !.next = page.next]]
    BY <2>3, <2>6 DEF BInv, Functional
  <2> QED BY <1>1, <1>8, <2>4, <2>7, ShapeKept DEF ReadPage
<1>9. CASE Call(r)
  <2>1. got' = got \/ \E c : got' = [got EXCEPT ![r].cursor = c]
    BY <1>9 DEF Call
  <2>2. PICK g : Shaped(g) /\ got' = [got EXCEPT ![r] = g]
    <3>1. CASE got' = got
      <4>1. got' = [got EXCEPT ![r] = got[r]]
        BY <3>1 DEF BInv, Functional
      <4> QED BY <1>0, <4>1
    <3>2. ASSUME NEW c, got' = [got EXCEPT ![r].cursor = c]
          PROVE  \E g : Shaped(g) /\ got' = [got EXCEPT ![r] = g]
      <4>1. got' = [got EXCEPT ![r] = [got[r] EXCEPT !.cursor = c]]
        BY <3>2
      <4> QED BY <1>0, <4>1, ShapeKept
    <3> QED BY <2>1, <3>1, <3>2
  <2> QED BY <1>1, <1>9, <2>2 DEF Call, Content
<1> QED BY <1>2, <1>3, <1>4, <1>5, <1>6, <1>7, <1>8, <1>9 DEF Reads
-----------------------------------------------------------------------------
(* The statements of listing calls that tell how far they are.             *)
Telling == {"new", "reposts", "preload", "cache", "page", "fill"}
Silent(r) == /\ pc'[r] \in Telling => pc'[r] = pc[r]
             /\ out'[r] = "ok" => out[r] = "ok"

(* Going to any other statement is silent, and so is an error.             *)
LEMMA SilentMoves ==
  ASSUME PInv, NEW r \in Requests, NEW x, NEW o,
         \/ x \notin Telling /\ Goto(r, x)
         \/ o # "ok" /\ Return(r, o)
  PROVE  Silent(r)
<1>1. CASE x \notin Telling /\ Goto(r, x)
  <2>1. pc'[r] = x /\ out' = out
    BY <1>1, ExceptAt DEF Goto, PInv, Functional
  <2> QED BY <1>1, <2>1 DEF Silent
<1>2. CASE o # "ok" /\ Return(r, o)
  <2>1. pc'[r] = "out" /\ out'[r] = o
    BY <1>2, ExceptAt DEF Return, PInv, Functional
  <2> QED BY <1>2, <2>1 DEF Silent, Telling
<1> QED BY <1>1, <1>2

(* What else a listing call comes through is a look at users, or an end.   *)
LEMMA ListingSilent ==
  ASSUME PInv, NEW r \in Requests, Op(r) \in Listing, Step(r), ~ Reads(r), ~ Fill(r)
  PROVE  Silent(r)
<1> USE DEF At, OnPath, PInv, Listing, Telling
<1>1. CASE UserStep(r)
  BY <1>1 DEF UserStep, FindLogin, Issue, FindMe, Drop, Revoke, FindProfile, WriteProfile,
              RereadProfile
<1>2. CASE ContentStep(r)
  <2>1. CASE FindTarget(r)
    <3>1. Op(r) \notin Toggles
      BY DEF Toggles, Adding, Removing
    <3> QED BY <2>1, <3>1, SilentMoves DEF FindTarget
  <2>2. CASE ~ FindTarget(r)
    BY <1>2, <2>2 DEF ContentStep, FindParent, Insert, Attach, ReadBack, FindPost, Erase,
              MarkMedia, FindFollower, Toggle, Toggles, Adding, Removing
  <2> QED BY <2>1, <2>2
<1>3. CASE ReadStep(r)
  <2>1. CASE FindUser(r, "me", "exists") \/ FindUser(r, "exists", "own")
    BY <2>1, SilentMoves DEF FindUser
  <2> QED BY <1>3, <2>1 DEF ReadStep, Reads
<1>4. CASE StorageStep(r)
  BY <1>4 DEF StorageStep, RefuseFile, Put, InsertMedia
<1>5. CASE Elsewhere(r)
  BY <1>5 DEF Elsewhere
<1>6. CASE Invalid(r) \/ Fail(r)
  BY <1>6, SilentMoves DEF Invalid, Fail
<1>7. CASE Stop(r)
  <2>1. pc'[r] = "end" /\ out' = out
    BY <1>7, ExceptAt DEF Stop, Functional
  <2> QED BY <2>1 DEF Silent
<1> QED BY <1>1, <1>2, <1>3, <1>4, <1>5, <1>6, <1>7 DEF Step

(* And what the gateway does, but for the call itself.                     *)
LEMMA GatewaySilent ==
  ASSUME PInv, NEW r \in Requests, TurnAway(r) \/ TimeOut(r) \/ Respond(r)
  PROVE  Silent(r) /\ UNCHANGED <<Content, got, cached>> /\ call' = call
<1>1. \/ pc' = pc
      \/ pc' = [pc EXCEPT ![r] = "end"]
  BY DEF TurnAway, Refuse, Answer, TimeOut, Respond
<1>2. pc'[r] = pc[r] \/ pc'[r] = "end"
  BY <1>1, ExceptAt DEF PInv, Functional
<1>3. out' = out /\ UNCHANGED <<Content, got, cached>> /\ call' = call
  BY DEF TurnAway, Refuse, TimeOut, Respond, data, Content
<1> QED BY <1>2, <1>3 DEF Silent, Telling

(* Nothing that goes on spoils what is known of rows and lists.            *)
LEMMA StillMoves ==
  ASSUME BInv, call' = call, UNCHANGED <<Content, got>>, cached' \subseteq Requests
  PROVE  RowsKept /\ BInv' /\ \A s \in Requests : Untouched(s)
<1>1. BInv'
  BY VisibleAgain DEF BInv, Stamped, Functional, Shaped, Content
<1> QED BY <1>1 DEF RowsKept, Untouched, Content, BInv

(* Only the last statement of a query puts a page into Redis.              *)
LEMMA CacheGrows ==
  ASSUME NEW r \in Requests, Step(r) PROVE Fill(r) \/ cached' = cached
<1>1. CASE UserStep(r)
  BY <1>1 DEF UserStep, FindLogin, Issue, FindMe, Drop, Revoke, FindProfile, WriteProfile,
              RereadProfile, data, Reading
<1>2. CASE ContentStep(r)
  BY <1>2 DEF ContentStep, FindParent, Insert, Attach, ReadBack, FindPost, Erase, MarkMedia,
              FindFollower, FindTarget, Toggle, data, Reading
<1>3. CASE ReadStep(r)
  BY <1>3 DEF ReadStep, FindUser, ReadReplies, ReadFollows, ReadOwn, ReadReposts, PreloadPosts,
              ReadCache, ReadPage, data
<1>4. CASE StorageStep(r)
  BY <1>4 DEF StorageStep, RefuseFile, Put, InsertMedia, data, Reading
<1>5. CASE Elsewhere(r) \/ Invalid(r) \/ Fail(r) \/ Stop(r)
  BY <1>5 DEF Elsewhere, Invalid, Fail, Stop, data
<1> QED BY <1>1, <1>2, <1>3, <1>4, <1>5 DEF Step

(* Every step of a call.                                                   *)
LEMMA StepMoves ==
  ASSUME PInv, BInv, NEW r \in Requests,
         TurnAway(r) \/ Call(r) \/ Step(r) \/ TimeOut(r) \/ Respond(r)
  PROVE  Moves(r)
<1>1. call' = call
  BY StepLegal, GatewayLegal DEF Legal, Marks
<1>2. CASE Commits(r)
  BY <1>1, <1>2, CommitsMove
<1>3. CASE Reads(r)
  BY <1>1, <1>3, ReadsMove
<1>4. CASE Step(r) /\ UNCHANGED <<Content, got>>
  <2>1. cached' \subseteq Requests
    BY <1>4, CacheGrows DEF Fill, BInv
  <2> QED BY <1>1, <1>4, <2>1, StillMoves DEF Moves
<1>5. CASE TurnAway(r) \/ TimeOut(r) \/ Respond(r)
  BY <1>1, <1>5, GatewaySilent, StillMoves DEF Moves, BInv
<1> QED BY <1>2, <1>3, <1>4, <1>5, OthersUnread DEF Reads

(* The rows from before have stamps, and nothing has been read.            *)
LEMMA InitBInv == Init => BInv
<1> SUFFICES ASSUME Init PROVE BInv
  OBVIOUS
<1>1. /\ rows = OldRows /\ cached = {} /\ got = [r \in Requests |-> [cursor |-> 0, by |-> None,
           own |-> {}, reposts |-> {}, shown |-> {}, next |-> 0, blank |-> {}, before |-> {}]]
      /\ stood = [r \in Requests |-> {}]
  BY DEF Init, Unread
<1>2. \A r \in Requests : Shaped(got[r]) /\ stood[r] = {}
  BY <1>1 DEF Shaped
<1>3. Stamped
  BY <1>1, BackendAssumption DEF Stamped
<1> QED BY <1>1, <1>2, <1>3 DEF BInv, Functional

(* No step spoils what is known of rows and lists.                         *)
LEMMA NextBInv == PInv /\ BInv /\ [Next]_vars => BInv'
<1> SUFFICES ASSUME PInv, BInv, [Next]_vars PROVE BInv'
  OBVIOUS
<1>1. ASSUME NEW r \in Requests,
             TurnAway(r) \/ Call(r) \/ Step(r) \/ TimeOut(r) \/ Respond(r)
      PROVE  BInv'
  BY <1>1, StepMoves DEF Moves
<1>2. ASSUME NEW r \in Requests, Forget(r) PROVE BInv'
  BY <1>2, StillMoves DEF Forget, BInv
<1>3. ASSUME NEW u \in Users, Expire(u) PROVE BInv'
  BY <1>3, StillMoves DEF Expire, data, Content, BInv
<1>4. CASE AllDone \/ UNCHANGED vars
  BY <1>4, StillMoves DEF AllDone, vars, data, Content, BInv
<1> QED BY <1>1, <1>2, <1>3, <1>4 DEF Next
-----------------------------------------------------------------------------
(* A list leads an item that it holds or that has to give way to it.       *)
Leads(r, T, i) ==
  \/ <<i, rows[i]>> \in T
  \/ Cardinality(T) = PageSize /\ \A e \in T : ~ Outranks(r, rows[i], Stamp(e))
Dated(T) == IsFiniteSet(T) /\ \A e \in T : Stamp(e) \in Nat

(* What was there all the while is led by the list read so far: the posts  *)
(* by the first query of a timeline, the reposts by the second.            *)
Timely(r) ==
  /\ Op(r) \in Listing \ {"homeFeed", "getMe"} =>
       /\ got[r].blank = {}
       /\ out[r] = "ok" => \A i \in stood[r] : Leads(r, got[r].shown, i)
  /\ Op(r) = "getMe" =>
       /\ pc[r] \in {"reposts", "preload"} =>
            /\ Dated(got[r].own) /\ got[r].before \subseteq gone
            /\ \A i \in stood[r] \cap PostIds : Leads(r, got[r].own, i)
       /\ pc[r] = "preload" =>
            /\ Dated(got[r].reposts) /\ \A e \in got[r].reposts : e[1][3] \notin got[r].before
            /\ \A i \in stood[r] \ PostIds : Leads(r, got[r].reposts, i)
       /\ out[r] = "ok" =>
            /\ \A e \in got[r].blank : e[1][3] \notin got[r].before
            /\ \A i \in stood[r] : Leads(r, got[r].shown, i)

(* It is the property of the run that the answers are asked for.           *)
LEMMA TimelyTells == (\A r \in Requests : Timely(r)) => TimelinesAreNewest
  BY DEF Timely, Leads, TimelinesAreNewest, Listing

(* The rows a query is about are there.                                    *)
LEMMA VisibleRows ==
  ASSUME NEW r, NEW R, NEW G, NEW A PROVE Visible(r, R, G, A) \subseteq DOMAIN R
  BY DEF Visible, HomeItems, OwnItems, RepostItems, ReplyItems, FollowerItems,
         FollowingItems, Live

(* Finitely many, with stamps.                                             *)
LEMMA EntriesAre ==
  ASSUME BInv, NEW S, S \subseteq DOMAIN rows
  PROVE  IsFiniteSet(Entries(S)) /\ \A e \in Entries(S) : Stamp(e) \in Nat \ {0}
<1> DEFINE f == [i \in S |-> <<i, rows[i]>>]
<1>1. IsFiniteSet(S)
  BY FS_Subset DEF BInv, Stamped
<1>2. f \in Surjection(S, Entries(S))
  BY DEF Surjection, Entries
<1>3. IsFiniteSet(Entries(S))
  BY <1>1, <1>2, FS_Surjection
<1>4. \A i \in S : rows[i] \in Nat \ {0}
  BY BackendAssumption DEF BInv, Stamped
<1> QED BY <1>3, <1>4 DEF Entries, Stamp

(* A page has room for one row at least.                                   *)
LEMMA PageSizeIs == PageSize \in Nat \ {0}
  BY BackendAssumption DEF PageSize, NormalizeLimit

(* What stood and still stands has its stamp.                              *)
LEMMA StoodKeeps ==
  ASSUME BInv, BInv', RowsKept, NEW s \in Requests, Untouched(s)
  PROVE  \A p \in stood'[s] : p \in stood[s] /\ p \in DOMAIN rows /\ rows'[p] = rows[p]
<1>1. stood'[s] \subseteq DOMAIN rows
  BY VisibleRows DEF BInv, Untouched
<1>2. stood'[s] \subseteq DOMAIN rows'
  BY VisibleRows, VisibleAgain DEF BInv, RowsKept
<1> QED BY <1>1, <1>2 DEF RowsKept, Untouched

(* As long as the call reads nothing, that stays so.                       *)
LEMMA TimelyStays ==
  ASSUME BInv, BInv', RowsKept, NEW r \in Requests, Untouched(r), Silent(r), Timely(r)
  PROVE  Timely(r)'
<1>1. \A i \in stood'[r] : i \in stood[r] /\ rows'[i] = rows[i]
  BY StoodKeeps
<1>2. /\ call' = call /\ Op(r)' = Op(r) /\ got'[r] = got[r] /\ gone \subseteq gone'
  BY DEF RowsKept, Op, Untouched
<1>3. PageSize' = PageSize /\ PostIds' = PostIds
  BY DEF PageSize, NormalizeLimit, PostIds
<1>4. CASE Op(r) \in Listing \ {"homeFeed", "getMe"}
  BY <1>1, <1>2, <1>3, <1>4 DEF Timely, Leads, Outranks, Silent, Listing
<1>5. CASE Op(r) = "getMe"
  <2>1. ASSUME pc'[r] \in {"reposts", "preload"}
        PROVE  /\ Dated(got[r].own)' /\ got'[r].before \subseteq gone'
               /\ \A i \in stood'[r] \cap PostIds' : Leads(r, got[r].own, i)'
    <3>1. pc'[r] = pc[r]
      BY <2>1 DEF Silent, Telling
    <3> QED BY <1>1, <1>2, <1>3, <1>5, <2>1, <3>1 DEF Timely, Leads, Outranks, Dated
  <2>2. ASSUME pc'[r] = "preload"
        PROVE  /\ Dated(got[r].reposts)' /\ \A e \in got'[r].reposts : e[1][3] \notin got'[r].before
               /\ \A i \in stood'[r] \ PostIds' : Leads(r, got[r].reposts, i)'
    <3>1. pc'[r] = pc[r]
      BY <2>2 DEF Silent, Telling
    <3> QED BY <1>1, <1>2, <1>3, <1>5, <2>2, <3>1 DEF Timely, Leads, Outranks, Dated
  <2>3. ASSUME out'[r] = "ok"
        PROVE  /\ \A e \in got'[r].blank : e[1][3] \notin got'[r].before
               /\ \A i \in stood'[r] : Leads(r, got[r].shown, i)'
    BY <1>1, <1>2, <1>3, <1>5, <2>3 DEF Timely, Leads, Outranks, Silent
  <2> QED BY <1>2, <1>5, <2>1, <2>2, <2>3 DEF Timely, Listing
<1>6. CASE Op(r) \notin Listing \/ Op(r) = "homeFeed"
  BY <1>2, <1>6 DEF Timely, Listing
<1> QED BY <1>4, <1>5, <1>6 DEF Listing
-----------------------------------------------------------------------------
(* A list that is new leads what it was chosen from.                       *)
LEMMA NewestLead ==
  ASSUME BInv, NEW r, Op(r) # "getReplies", NEW S, S \subseteq DOMAIN rows,
         NEW T \in Newest(Entries(S), PageSize)
  PROVE  Dated(T) /\ T \subseteq Entries(S) /\ \A i \in S : Leads(r, T, i)
<1>1. IsFiniteSet(Entries(S)) /\ \A e \in Entries(S) : Stamp(e) \in Nat
  BY EntriesAre
<1>2. /\ T \subseteq Entries(S) /\ IsFiniteSet(T)
      /\ T # Entries(S) => /\ Cardinality(T) = PageSize
                           /\ \A e \in T, f \in Entries(S) \ T : Stamp(e) >= Stamp(f)
  BY <1>1, NewestAre, PageSizeIs
<1>3. ASSUME NEW i \in S PROVE Leads(r, T, i)
  <2>1. <<i, rows[i]>> \in Entries(S) /\ Stamp(<<i, rows[i]>>) = rows[i]
    BY DEF Entries, Stamp
  <2>2. CASE <<i, rows[i]>> \notin T
    <3>1. Cardinality(T) = PageSize /\ \A e \in T : Stamp(e) >= rows[i]
      BY <1>2, <2>1, <2>2
    <3>2. rows[i] \in Nat /\ \A e \in T : Stamp(e) \in Nat
      BY <1>1, <1>2, <2>1
    <3> QED BY <3>1, <3>2 DEF Leads, Outranks
  <2> QED BY <2>2 DEF Leads
<1> QED BY <1>1, <1>2, <1>3 DEF Dated

(* And so does one of the oldest, where those come first.                  *)
LEMMA OldestLead ==
  ASSUME BInv, NEW r, Op(r) = "getReplies", NEW S, S \subseteq DOMAIN rows,
         NEW T \in Oldest(Entries(S), PageSize)
  PROVE  \A i \in S : Leads(r, T, i)
<1>1. IsFiniteSet(Entries(S)) /\ \A e \in Entries(S) : Stamp(e) \in Nat
  BY EntriesAre
<1>2. /\ T \subseteq Entries(S)
      /\ T # Entries(S) => /\ Cardinality(T) = PageSize
                           /\ \A e \in T, f \in Entries(S) \ T : Stamp(e) =< Stamp(f)
  BY <1>1, OldestAre, PageSizeIs
<1> TAKE i \in S
<1>3. <<i, rows[i]>> \in Entries(S) /\ Stamp(<<i, rows[i]>>) = rows[i]
  BY DEF Entries, Stamp
<1>4. CASE <<i, rows[i]>> \notin T
  <2>1. Cardinality(T) = PageSize /\ \A e \in T : Stamp(e) =< rows[i]
    BY <1>2, <1>3, <1>4
  <2>2. rows[i] \in Nat /\ \A e \in T : Stamp(e) \in Nat
    BY <1>1, <1>2, <1>3
  <2> QED BY <2>1, <2>2 DEF Leads, Outranks
<1> QED BY <1>4 DEF Leads

(* The timeline leads what one of its two halves leads.                    *)
LEMMA MergedLead ==
  ASSUME BInv, NEW r, Op(r) # "getReplies", NEW A, NEW B, Dated(A), Dated(B),
         NEW T, T \in Merged(A, B, PageSize) \/ T \in Merged(B, A, PageSize),
         NEW i \in DOMAIN rows, Leads(r, A, i)
  PROVE  Leads(r, T, i)
<1>0. rows[i] \in Nat /\ PageSize \in Nat
  BY PageSizeIs, BackendAssumption DEF BInv, Stamped
<1>1. T \in Merged(A, B, PageSize)
  <2>1. A \cup B = B \cup A
    OBVIOUS
  <2> QED BY <2>1 DEF Merged
<1>2. \A e \in A \cup B : Stamp(e) \in Nat
  BY DEF Dated
<1>3. CASE <<i, rows[i]>> \in A /\ <<i, rows[i]>> \notin T
  <2>1. IsFiniteSet(A \cup B)
    BY FS_Union DEF Dated
  <2>2. /\ T \subseteq A \cup B /\ Cardinality(T) = PageSize
        /\ \A e \in T, f \in (A \cup B) \ T : Stamp(e) >= Stamp(f)
    BY <1>0, <1>1, <1>3, <2>1, NewestAre DEF Merged
  <2>3. \A e \in T : Stamp(e) >= rows[i] /\ Stamp(e) \in Nat
    <3>1. Stamp(<<i, rows[i]>>) = rows[i]
      BY DEF Stamp
    <3> QED BY <1>2, <1>3, <2>2, <3>1
  <2> QED BY <1>0, <2>2, <2>3 DEF Leads, Outranks
<1>4. CASE /\ Cardinality(A) = PageSize /\ \A e \in A : ~ Outranks(r, rows[i], Stamp(e))
  <2>1. \A e \in A : rows[i] =< Stamp(e)
    BY <1>0, <1>2, <1>4 DEF Outranks
  <2>2. Cardinality(T) = PageSize /\ \A e \in T : rows[i] =< Stamp(e)
    BY <1>0, <1>1, <1>2, <1>4, <2>1, MergedKeepsOrder DEF Dated
  <2>3. \A e \in T : Stamp(e) \in Nat
    <3>1. IsFiniteSet(A \cup B)
      BY FS_Union DEF Dated
    <3>2. T \subseteq A \cup B
      BY <1>0, <1>1, <3>1, NewestAre DEF Merged
    <3> QED BY <1>2, <3>2
  <2> QED BY <1>0, <2>2, <2>3 DEF Leads, Outranks
<1> QED BY <1>3, <1>4 DEF Leads
-----------------------------------------------------------------------------
(* An update of one field of what a call has read.                         *)
LEMMA FieldsRead ==
  ASSUME BInv, NEW r \in Requests, NEW x, NEW y
  PROVE  /\ got' = [got EXCEPT ![r].shown = x] =>
              got'[r].shown = x /\ got'[r].blank = got[r].blank
         /\ got' = [got EXCEPT ![r].own = x, ![r].before = y] =>
              got'[r].own = x /\ got'[r].before = y
         /\ got' = [got EXCEPT ![r].reposts = x] =>
              got'[r].reposts = x /\ got'[r].own = got[r].own /\ got'[r].before = got[r].before
         /\ got' = [got EXCEPT ![r].shown = x, ![r].blank = y] =>
              got'[r].shown = x /\ got'[r].blank = y /\ got'[r].before = got[r].before
<1>1. r \in DOMAIN got
  BY DEF BInv, Functional
<1>2. Shaped(got[r])
  BY DEF BInv
<1>3. /\ [got[r] EXCEPT !.shown = x].shown = x /\ [got[r] EXCEPT !.shown = x].blank = got[r].blank
      /\ [got[r] EXCEPT !.reposts = x].reposts = x
      /\ [got[r] EXCEPT !.reposts = x].own = got[r].own
      /\ [got[r] EXCEPT !.reposts = x].before = got[r].before
  BY <1>2 DEF Shaped
<1>4. /\ [got[r] EXCEPT !.own = x, !.before = y].own = x
      /\ [got[r] EXCEPT !.own = x, !.before = y].before = y
      /\ [got[r] EXCEPT !.shown = x, !.blank = y].shown = x
      /\ [got[r] EXCEPT !.shown = x, !.blank = y].blank = y
      /\ [got[r] EXCEPT !.shown = x, !.blank = y].before = got[r].before
  BY <1>2 DEF Shaped
<1>5. got' = [got EXCEPT ![r].shown = x] =>
        got'[r].shown = x /\ got'[r].blank = got[r].blank
  BY <1>1, <1>3
<1>6. got' = [got EXCEPT ![r].own = x, ![r].before = y] =>
        got'[r].own = x /\ got'[r].before = y
  BY <1>1, <1>4
<1>7. got' = [got EXCEPT ![r].reposts = x] =>
        got'[r].reposts = x /\ got'[r].own = got[r].own /\ got'[r].before = got[r].before
  BY <1>1, <1>3
<1>8. got' = [got EXCEPT ![r].shown = x, ![r].blank = y] =>
        got'[r].shown = x /\ got'[r].blank = y /\ got'[r].before = got[r].before
  BY <1>1, <1>4
<1> QED BY <1>5, <1>6, <1>7, <1>8

(* The first query of a list remembers what is visible then.               *)
LEMMA RemembersNow ==
  ASSUME BInv, NEW r \in Requests, Remember(r), UNCHANGED <<rows, gone, alive, call>>
  PROVE  stood'[r] = Visible(r, rows, gone, alive)
  BY ExceptAt DEF Remember, BInv, Functional

(* What leads does so in the next state, when the rows are the same.       *)
LEMMA LeadsOn ==
  ASSUME UNCHANGED <<rows, call>>, NEW r, NEW T, NEW U, NEW i, T' = U, Leads(r, U, i)
  PROVE  Leads(r, T, i)'
  BY DEF Leads, Outranks, PageSize, NormalizeLimit, Op, Stamp

(* GetReplies, GetFollowers and GetFollowing read their list at once.      *)
LEMMA ListRead ==
  ASSUME PInv, BInv, NEW r \in Requests, ReadReplies(r) \/ ReadFollows(r), call' = call, Timely(r)
  PROVE  Timely(r)'
<1>1. Op(r) \in {"getReplies", "getFollowers", "getFollowing"} /\ Op(r)' = Op(r)
  BY DEF ReadReplies, ReadFollows, At, PInv, OnPath, Op
<1>2. UNCHANGED <<rows, gone, alive, call>> /\ Remember(r)
  BY DEF ReadReplies, ReadFollows
<1>3. /\ stood'[r] = Visible(r, rows, gone, alive)
      /\ Visible(r, rows, gone, alive) \subseteq DOMAIN rows
  BY <1>2, RemembersNow, VisibleRows
<1>4. \E T : /\ got' = [got EXCEPT ![r].shown = T]
             /\ \A i \in Visible(r, rows, gone, alive) : Leads(r, T, i)
  <2>1. CASE ReadReplies(r)
    <3>1. Op(r) = "getReplies" /\ Visible(r, rows, gone, alive) = ReplyItems(call[r].on, rows, gone)
      BY <2>1 DEF ReadReplies, At, PInv, OnPath, Visible
    <3>2. PICK T \in Oldest(Entries(Visible(r, rows, gone, alive)), PageSize) :
            got' = [got EXCEPT ![r].shown = T]
      BY <2>1, <3>1 DEF ReadReplies
    <3> QED BY <1>3, <3>1, <3>2, OldestLead
  <2>2. CASE ReadFollows(r)
    <3>1. Op(r) # "getReplies"
      BY <2>2 DEF ReadFollows, At, PInv, OnPath
    <3>2. PICK T \in Newest(Entries(Visible(r, rows, gone, alive)), PageSize) :
            got' = [got EXCEPT ![r].shown = T]
      BY <2>2 DEF ReadFollows
    <3> QED BY <1>3, <3>1, <3>2, NewestLead
  <2> QED BY <2>1, <2>2
<1>5. PICK T : /\ got' = [got EXCEPT ![r].shown = T]
               /\ \A i \in Visible(r, rows, gone, alive) : Leads(r, T, i)
  BY <1>4
<1>6. got'[r].shown = T /\ got'[r].blank = got[r].blank
  BY <1>5, FieldsRead
<1>7. got[r].blank = {}
  BY <1>1 DEF Timely, Listing
<1>8. \A i \in stood'[r] : Leads(r, got[r].shown, i)'
  BY <1>2, <1>3, <1>5, <1>6, LeadsOn
<1> QED BY <1>1, <1>6, <1>7, <1>8 DEF Timely
-----------------------------------------------------------------------------
(* Posts and reposts do not mix.                                           *)
LEMMA HalvesAre ==
  ASSUME NEW r \in Requests, Op(r) = "getMe", PInv
  PROVE  /\ Visible(r, rows, gone, alive) \cap PostIds = OwnItems(User(r), rows, gone)
         /\ Visible(r, rows, gone, alive) \ PostIds = RepostItems(User(r), rows, gone)
         /\ \A i \in RepostItems(User(r), rows, gone) : i[3] \notin gone
<1>1. Proper(call[r])
  <2>1. call[r] # Idle
    BY DEF Op, Idle
  <2> QED BY <2>1, CallsProper
<1>2. RepostItems(User(r), rows, gone) \subseteq Items
  BY <1>1 DEF RepostItems, Items, Live, Proper, User
<1>3. RepostItems(User(r), rows, gone) \cap PostIds = {}
  BY <1>2, BackendAssumption
<1>4. OwnItems(User(r), rows, gone) \subseteq PostIds
  BY DEF OwnItems, Live
<1>5. Visible(r, rows, gone, alive)
        = OwnItems(User(r), rows, gone) \cup RepostItems(User(r), rows, gone)
  BY DEF Visible
<1>6. \A i \in RepostItems(User(r), rows, gone) : i[3] \notin gone
  BY DEF RepostItems, Live
<1> QED BY <1>3, <1>4, <1>5, <1>6

(* GetMe: the first query leads the posts that stand.                      *)
LEMMA OwnRead ==
  ASSUME EInv, BInv, NEW r \in Requests, ReadOwn(r), call' = call
  PROVE  Timely(r)'
<1>0. PInv /\ Outcome(r)
  BY DEF EInv, True
<1>1. Op(r) = "getMe" /\ Op(r)' = Op(r) /\ pc[r] = "own"
  BY <1>0 DEF ReadOwn, At, PInv, OnPath, Op
<1>2. UNCHANGED <<rows, gone, alive, call>> /\ Remember(r) /\ out' = out
  BY DEF ReadOwn, Goto
<1>3. pc'[r] = "reposts"
  BY <1>0, ExceptAt DEF ReadOwn, Goto, PInv, Functional
<1>4. out'[r] # "ok"
  BY <1>0, <1>1, <1>2 DEF Outcome, None
<1>5. stood'[r] \cap PostIds = OwnItems(User(r), rows, gone)
  BY <1>0, <1>1, <1>2, RemembersNow, HalvesAre
<1>6. PICK T \in Newest(Entries(OwnItems(User(r), rows, gone)), PageSize) :
        got' = [got EXCEPT ![r].own = T, ![r].before = gone]
  BY DEF ReadOwn
<1>7. got'[r].own = T /\ got'[r].before = gone
  BY <1>6, FieldsRead, ZenonT(30)
<1>8. OwnItems(User(r), rows, gone) \subseteq DOMAIN rows /\ Op(r) # "getReplies"
  BY <1>1 DEF OwnItems, Live
<1>9. Dated(T) /\ \A i \in OwnItems(User(r), rows, gone) : Leads(r, T, i)
  BY <1>6, <1>8, NewestLead
<1>10. Dated(got[r].own)' /\ got'[r].before \subseteq gone'
  BY <1>2, <1>7, <1>9 DEF Dated, Stamp
<1>11. (PostIds)' = PostIds
  BY DEF PostIds
<1>12. \A i \in stood'[r] \cap PostIds : Leads(r, got[r].own, i)'
  BY <1>2, <1>5, <1>7, <1>9, LeadsOn
<1> QED BY <1>1, <1>3, <1>4, <1>10, <1>11, <1>12 DEF Timely, Listing

(* The second one the reposts.                                             *)
LEMMA RepostsRead ==
  ASSUME EInv, BInv, NEW r \in Requests, ReadReposts(r), call' = call, Timely(r)
  PROVE  Timely(r)'
<1>0. PInv /\ Outcome(r)
  BY DEF EInv, True
<1>1. Op(r) = "getMe" /\ Op(r)' = Op(r) /\ pc[r] = "reposts"
  BY <1>0 DEF ReadReposts, At, PInv, OnPath, Op
<1>2. UNCHANGED <<rows, gone, alive, stood, call>> /\ out' = out
  BY DEF ReadReposts, Goto, Content
<1>3. out'[r] # "ok"
  BY <1>0, <1>1, <1>2 DEF Outcome, None
<1>4. /\ stood[r] \ PostIds \subseteq RepostItems(User(r), rows, gone)
      /\ \A i \in RepostItems(User(r), rows, gone) : i[3] \notin gone
  BY <1>0, <1>1, HalvesAre DEF BInv
<1>5. PICK T \in Newest(Entries(RepostItems(User(r), rows, gone)), PageSize) :
        got' = [got EXCEPT ![r].reposts = T]
  BY DEF ReadReposts
<1>6. got'[r].reposts = T /\ got'[r].own = got[r].own /\ got'[r].before = got[r].before
  BY <1>5, FieldsRead
<1>7. RepostItems(User(r), rows, gone) \subseteq DOMAIN rows /\ Op(r) # "getReplies"
  BY <1>1 DEF RepostItems
<1>8. /\ Dated(T) /\ T \subseteq Entries(RepostItems(User(r), rows, gone))
      /\ \A i \in RepostItems(User(r), rows, gone) : Leads(r, T, i)
  BY <1>5, <1>7, NewestLead
<1>9. /\ Dated(got[r].own) /\ got[r].before \subseteq gone
      /\ \A i \in stood[r] \cap PostIds : Leads(r, got[r].own, i)
  BY <1>1 DEF Timely
<1>10. \A e \in T : e[1][3] \notin got[r].before
  BY <1>4, <1>8, <1>9 DEF Entries
<1>11. /\ Dated(got[r].own)' /\ Dated(got[r].reposts)' /\ got'[r].before \subseteq gone'
       /\ \A e \in got'[r].reposts : e[1][3] \notin got'[r].before
  BY <1>2, <1>6, <1>8, <1>9, <1>10 DEF Dated, Stamp
<1>12. (PostIds)' = PostIds
  BY DEF PostIds
<1>13. \A i \in stood'[r] \cap PostIds : Leads(r, got[r].own, i)'
  BY <1>2, <1>6, <1>9, LeadsOn
<1>14. \A i \in stood'[r] \ PostIds : Leads(r, got[r].reposts, i)'
  BY <1>2, <1>4, <1>6, <1>8, LeadsOn
<1> QED BY <1>1, <1>3, <1>11, <1>12, <1>13, <1>14 DEF Timely, Listing

(* And the two lists merged all that stands.                               *)
LEMMA PostsPreloaded ==
  ASSUME EInv, BInv, NEW r \in Requests, PreloadPosts(r), call' = call, Timely(r)
  PROVE  Timely(r)'
<1>0. PInv
  BY DEF EInv
<1>1. Op(r) = "getMe" /\ Op(r)' = Op(r) /\ pc[r] = "preload"
  BY <1>0 DEF PreloadPosts, At, PInv, OnPath, Op
<1>2. UNCHANGED <<rows, gone, alive, stood, call>>
  BY DEF PreloadPosts, Content
<1>3. pc'[r] = "out"
  BY <1>0, ExceptAt DEF PreloadPosts, Return, PInv, Functional
<1>4. PICK T \in Merged(got[r].own, got[r].reposts, PageSize) :
        got' = [got EXCEPT ![r].shown = T, ![r].blank = Blank(T \cap got[r].reposts)]
  BY DEF PreloadPosts
<1>5. /\ got'[r].shown = T /\ got'[r].blank = Blank(T \cap got[r].reposts)
      /\ got'[r].before = got[r].before
  BY <1>4, FieldsRead
<1>6. /\ Dated(got[r].own) /\ Dated(got[r].reposts)
      /\ \A e \in got[r].reposts : e[1][3] \notin got[r].before
      /\ \A i \in stood[r] \cap PostIds : Leads(r, got[r].own, i)
      /\ \A i \in stood[r] \ PostIds : Leads(r, got[r].reposts, i)
  BY <1>1 DEF Timely
<1>7. stood[r] \subseteq DOMAIN rows
  BY VisibleRows DEF BInv
<1>8. \A i \in stood[r] : Leads(r, T, i)
  BY <1>1, <1>4, <1>6, <1>7, MergedLead
<1>9. \A i \in stood'[r] : Leads(r, got[r].shown, i)'
  BY <1>2, <1>5, <1>8, LeadsOn
<1>10. \A e \in got'[r].blank : e[1][3] \notin got'[r].before
  BY <1>5, <1>6 DEF Blank
<1> QED BY <1>1, <1>3, <1>9, <1>10 DEF Timely, Listing
-----------------------------------------------------------------------------
(* A call of the home feed, or of no list, has nothing to lead.            *)
LEMMA NothingToLead ==
  ASSUME NEW r, Op(r) \notin Listing \/ Op(r) = "homeFeed", call' = call PROVE Timely(r)'
  BY DEF Timely, Listing, Op

(* The step of a call itself.                                              *)
LEMMA OwnTimely ==
  ASSUME EInv, BInv, BInv', NEW r \in Requests, Timely(r), Moves(r),
         TurnAway(r) \/ Call(r) \/ Step(r) \/ TimeOut(r) \/ Respond(r)
  PROVE  Timely(r)'
<1>0. PInv
  BY DEF EInv
<1>1. call' = call /\ RowsKept
  BY DEF Moves, RowsKept
<1>2. CASE Op(r) \notin Listing \/ Op(r) = "homeFeed"
  BY <1>1, <1>2, NothingToLead
<1>3. ASSUME Op(r) \in Listing, Op(r) # "homeFeed" PROVE Timely(r)'
  <2>1. CASE ReadReplies(r) \/ ReadFollows(r)
    BY <1>0, <1>1, <2>1, ListRead
  <2>2. CASE ReadOwn(r) \/ ReadReposts(r) \/ PreloadPosts(r)
    BY <1>1, <2>2, OwnRead, RepostsRead, PostsPreloaded
  <2>3. ~ (ReadCache(r) \/ ReadPage(r) \/ Fill(r))
    BY <1>0, <1>3 DEF ReadCache, ReadPage, Fill, At, PInv, OnPath
  <2>4. CASE Call(r)
    <3>1. got' = got /\ stood' = stood /\ out' = out
      BY <1>3, <2>4 DEF Call, Content
    <3>2. pc'[r] = First(Op(r))
      BY <1>0, <2>4, ExceptAt DEF Call, PInv, Functional
    <3>3. First(Op(r)) \notin Telling
      BY <1>3 DEF First, Telling, Listing, Toggles, Adding, Removing
    <3>4. Untouched(r) /\ Silent(r)
      BY <3>1, <3>2, <3>3 DEF Untouched, Silent
    <3> QED BY <1>1, <3>4, TimelyStays
  <2>5. CASE ~ Reads(r)
    <3>1. Untouched(r)
      BY <2>5 DEF Moves
    <3>2. Silent(r)
      BY <1>0, <1>3, <2>3, <2>5, ListingSilent, GatewaySilent DEF Reads
    <3> QED BY <1>1, <3>1, <3>2, TimelyStays
  <2> QED BY <2>1, <2>2, <2>3, <2>4, <2>5 DEF Reads
<1> QED BY <1>2, <1>3

(* No step makes a list miss what stood.                                   *)
LEMMA StepTimely ==
  EInv /\ BInv /\ (\A r \in Requests : Timely(r)) /\ [Next]_vars =>
    (\A r \in Requests : Timely(r))'
<1> SUFFICES ASSUME EInv, BInv, [Next]_vars, NEW s \in Requests, \A r \in Requests : Timely(r)
             PROVE  Timely(s)'
  OBVIOUS
<1>0. PInv /\ BInv'
  BY NextBInv DEF EInv
<1>1. ASSUME NEW r \in Requests,
             TurnAway(r) \/ Call(r) \/ Step(r) \/ TimeOut(r) \/ Respond(r)
      PROVE  Timely(s)'
  <2>1. Moves(r) /\ Legal(r)
    BY <1>0, <1>1, StepMoves, StepLegal, GatewayLegal
  <2>2. CASE s = r
    BY <1>0, <1>1, <2>1, <2>2, OwnTimely
  <2>3. CASE s # r
    <3>1. pc'[s] = pc[s] /\ out'[s] = out[s]
      BY <1>0, <2>1, <2>3, OthersStay DEF Legal
    <3>2. Untouched(s) /\ RowsKept
      BY <2>1, <2>3 DEF Moves
    <3> QED BY <1>0, <3>1, <3>2, TimelyStays DEF Silent
  <2> QED BY <2>2, <2>3
<1>2. ASSUME call' = call, UNCHANGED <<Content, got, pc, out>>, cached' \subseteq Requests
      PROVE  Timely(s)'
  <2>1. RowsKept /\ Untouched(s)
    BY <1>2, StillMoves
  <2> QED BY <1>0, <1>2, <2>1, TimelyStays DEF Silent
<1>3. ASSUME NEW r \in Requests, Forget(r) PROVE Timely(s)'
  BY <1>2, <1>3 DEF Forget, BInv
<1>4. ASSUME NEW u \in Users, Expire(u) PROVE Timely(s)'
  BY <1>2, <1>4 DEF Expire, data, Content, BInv
<1>5. CASE AllDone \/ UNCHANGED vars
  BY <1>2, <1>5 DEF AllDone, vars, data, Content, BInv
<1> QED BY <1>1, <1>2, <1>3, <1>4, <1>5 DEF Next

(* Nothing is read before the first request.                               *)
LEMMA InitTimely == Init => \A r \in Requests : Timely(r)
<1> SUFFICES ASSUME Init, NEW r \in Requests PROVE Timely(r)
  OBVIOUS
<1>1. pc[r] \in {"new", "end"} /\ out[r] # "ok"
  BY DEF Init, None
<1>2. got[r].blank = {}
  BY DEF Init, Unread
<1> QED BY <1>1, <1>2 DEF Timely

TInv == EInv /\ BInv /\ \A r \in Requests : Timely(r)

(* The inductive invariant of the lists.                                   *)
THEOREM ListsInvariant == Spec => []TInv
<1>1. Init => TInv
  BY InitEInv, InitBInv, InitTimely DEF TInv
<1>2. TInv /\ [Next]_vars => TInv'
  <2>1. TInv /\ [Next]_vars => EInv' /\ BInv' /\ (\A r \in Requests : Timely(r))'
    BY StepEInv, NextBInv, StepTimely DEF TInv, EInv
  <2> QED BY <2>1 DEF TInv
<1> QED BY <1>1, <1>2, PTL DEF Spec

(* However posts, reposts, replies, follows and deletions interleave with  *)
(* the queries of a list, its answer misses nothing that outranks what it  *)
(* shows, and a blank repost is one deleted meanwhile.                     *)
THEOREM TimelinesNewest == Spec => []TimelinesAreNewest
<1>1. TInv => TimelinesAreNewest
  BY TimelyTells DEF TInv
<1> QED BY <1>1, ListsInvariant, PTL
-----------------------------------------------------------------------------
(* A page is below its cursor and not below the next one, and what it      *)
(* leaves out of what stands is not above that.                            *)
Below(t, c) == c = 0 \/ t < c
PageHolds(s) ==
  /\ got[s].next \in Nat
  /\ \A e \in got[s].shown : Stamp(e) \in Nat \ {0} /\ Below(Stamp(e), got[s].cursor)
  /\ got[s].next # 0 =>
       /\ \A e \in got[s].shown : Stamp(e) >= got[s].next
       /\ Below(got[s].next, got[s].cursor)
  /\ \A p \in stood[s] : Below(rows[p], got[s].cursor) =>
       \/ <<p, rows[p]>> \in got[s].shown
       \/ got[s].next # 0 /\ rows[p] =< got[s].next

(* The page a call has is that of the request that queried it.             *)
Fetched(r) ==
  /\ got[r].cursor \in Nat /\ got[r].by \in Requests \cup {None}
  /\ (Op(r) # "homeFeed" \/ pc[r] \in {"new", "cache", "page"}) => got[r].by = None
  /\ pc[r] = "fill" => got[r].by = r
  /\ Op(r) = "homeFeed" /\ out[r] = "ok" => got[r].by # None
  /\ got[r].by # None => got[got[r].by] = got[r]
  /\ got[r].by = r => PageHolds(r)
CachedOwn == \A s \in cached : got[s].by = s

(* One page at a time: who goes on has the answers it waits for.           *)
Turns ==
  \A r \in Requests : Op(r) = "homeFeed" =>
    /\ pc[r] = "new" => status[r] = 0
    /\ pc[r] # "new" => \A s \in call[r].after \cap Requests : status[s] # 0
Scrolling(r) == Op(r) = "homeFeed" /\ pc[r] \notin {"new", "end"} /\ status[r] = 0
Held == /\ scroll.cursor \in Nat
        /\ \A r \in Requests : Scrolling(r) => got[r].cursor = scroll.cursor /\ ~ scroll.end

(* The pages on the screen: each above the cursor, none twice, and what    *)
(* stood for all of them is on one or still below the cursor - but for a   *)
(* stamp at which a page ended.                                            *)
OnPages(p) ==
  \E i \in DOMAIN scroll.pages : \/ <<p, rows[p]>> \in got[scroll.pages[i]].shown
                                 \/ got[scroll.pages[i]].next = rows[p]
Scrolled ==
  /\ scroll.pages \in Seq(Requests)
  /\ scroll.pages = << >> => scroll.cursor = 0 /\ ~ scroll.end
  /\ scroll.pages # << >> => (scroll.end <=> scroll.cursor = 0)
  /\ \A i \in DOMAIN scroll.pages : got[scroll.pages[i]].by = scroll.pages[i]
  /\ \A i \in DOMAIN scroll.pages : ~ scroll.end =>
       \A e \in got[scroll.pages[i]].shown : Stamp(e) >= scroll.cursor
  /\ \A i, j \in DOMAIN scroll.pages : i # j =>
       got[scroll.pages[i]].shown \cap got[scroll.pages[j]].shown = {}
  /\ scroll.pages # << >> =>
       \A p \in DOMAIN rows : (\A i \in DOMAIN scroll.pages : p \in stood[scroll.pages[i]]) =>
         OnPages(p) \/ (scroll.cursor # 0 /\ rows[p] < scroll.cursor)

SInv ==
  /\ EInv /\ BInv /\ Turns /\ (\A r \in Requests : Fetched(r)) /\ CachedOwn
  /\ Held /\ Scrolled
-----------------------------------------------------------------------------
(* The invariant implies the property of the run.                          *)
LEMMA ScrollsTell == SInv => ScrollsAreExact
<1> SUFFICES ASSUME SInv PROVE ScrollsAreExact
  OBVIOUS
<1>1. Scrolled
  BY DEF SInv
<1>2. ASSUME scroll.end, NEW p \in Live(rows, gone),
             \A i \in DOMAIN scroll.pages : p \in stood[scroll.pages[i]]
      PROVE  \E page \in PagesShown : <<p, rows[p]>> \in page.shown \/ page.next = rows[p]
  <2>1. scroll.pages # << >> /\ scroll.cursor = 0 /\ p \in DOMAIN rows
    BY <1>1, <1>2 DEF Scrolled, Live
  <2>2. OnPages(p)
    BY <1>1, <1>2, <2>1 DEF Scrolled
  <2> QED BY <2>2 DEF OnPages, PagesShown
<1> QED BY <1>1, <1>2 DEF Scrolled, ScrollsAreExact

(* The client waits for one page at most.                                  *)
LEMMA OneAtATime ==
  ASSUME PInv, Turns, NEW r \in Requests, NEW s \in Requests, Scrolling(r), Scrolling(s)
  PROVE  r = s
<1> SUFFICES ASSUME r # s PROVE FALSE
  OBVIOUS
<1>1. call[r].op = "homeFeed" /\ call[s].op = "homeFeed" /\ call \in Offered
  BY DEF Scrolling, Op, PInv, Calls
<1>2. r \in call[s].after \/ s \in call[r].after
  BY <1>1, ScrollAssumption
<1> QED BY <1>2 DEF Turns, Scrolling

(* Whose list is a page has left its queries behind.                       *)
LEMMA Settled ==
  ASSUME PInv, NEW r \in Requests, Moves(r), \A s \in Requests : Fetched(s),
         NEW s \in Requests, got[s].by # None
  PROVE  Untouched(s)
<1>1. CASE s # r
  BY <1>1 DEF Moves
<1>2. CASE s = r
  <2>1. Op(r) = "homeFeed" /\ pc[r] \notin {"new", "cache", "page"}
    BY <1>2 DEF Fetched
  <2>2. ~ Reads(r)
    BY <2>1 DEF Reads, ReadReplies, ReadFollows, ReadOwn, ReadReposts, PreloadPosts, ReadCache,
                ReadPage, Call, Admitted, Sent, At, PInv, OnPath
  <2> QED BY <1>2, <2>2 DEF Moves
<1> QED BY <1>1, <1>2

(* So a page holds for good.                                               *)
LEMMA HoldsOn ==
  ASSUME BInv, BInv', RowsKept, NEW s \in Requests, Untouched(s), PageHolds(s)
  PROVE  PageHolds(s)'
<1>1. \A p \in stood'[s] : p \in stood[s] /\ rows'[p] = rows[p]
  BY StoodKeeps
<1>2. got'[s] = got[s]
  BY DEF Untouched
<1>3. /\ got'[s].next \in Nat
      /\ \A e \in got'[s].shown : Stamp(e) \in Nat \ {0} /\ Below(Stamp(e), got'[s].cursor)
      /\ got'[s].next # 0 =>
           /\ \A e \in got'[s].shown : Stamp(e) >= got'[s].next
           /\ Below(got'[s].next, got'[s].cursor)
  BY <1>2 DEF PageHolds
<1>4. \A p \in stood'[s] : Below(rows'[p], got'[s].cursor) =>
        \/ <<p, rows'[p]>> \in got'[s].shown
        \/ got'[s].next # 0 /\ rows'[p] =< got'[s].next
  BY <1>1, <1>2 DEF PageHolds
<1> QED BY <1>3, <1>4 DEF PageHolds, Below, Stamp

(* And what a call has fetched stays so as long as it reads nothing.       *)
LEMMA FetchedStays ==
  ASSUME BInv, BInv', RowsKept, NEW s \in Requests, Untouched(s), Silent(s), Fetched(s),
         \A q \in Requests : got[q].by # None => got'[q] = got[q]
  PROVE  Fetched(s)'
<1>1. got'[s] = got[s] /\ Op(s)' = Op(s)
  BY DEF Untouched, RowsKept, Op
<1>2. (got[s].by = s => PageHolds(s))'
  BY <1>1, HoldsOn DEF Fetched
<1>3. /\ got'[s].cursor \in Nat /\ got'[s].by \in Requests \cup {None}
      /\ (Op(s)' # "homeFeed" \/ pc'[s] \in {"new", "cache", "page"}) => got'[s].by = None
      /\ pc'[s] = "fill" => got'[s].by = s
      /\ Op(s)' = "homeFeed" /\ out'[s] = "ok" => got'[s].by # None
  BY <1>1 DEF Fetched, Silent, Telling
<1>4. got'[s].by # None => got'[got'[s].by] = got'[s]
  BY <1>1 DEF Fetched
<1>5. (None)' = None
  BY DEF None
<1> QED BY <1>2, <1>3, <1>4, <1>5 DEF Fetched
-----------------------------------------------------------------------------
Queried(r, x, y) == got' = [got EXCEPT ![r].by = r, ![r].shown = x, ![r].next = y]

(* A cursor is set by the call and a page by its query only.               *)
LEMMA PagesRead ==
  ASSUME BInv, NEW r \in Requests, NEW x, NEW y
  PROVE  /\ got' = [got EXCEPT ![r].shown = x] =>
              got'[r].cursor = got[r].cursor /\ got'[r].by = got[r].by
         /\ got' = [got EXCEPT ![r].own = x, ![r].before = y] =>
              got'[r].cursor = got[r].cursor /\ got'[r].by = got[r].by
         /\ got' = [got EXCEPT ![r].reposts = x] =>
              got'[r].cursor = got[r].cursor /\ got'[r].by = got[r].by
         /\ got' = [got EXCEPT ![r].shown = x, ![r].blank = y] =>
              got'[r].cursor = got[r].cursor /\ got'[r].by = got[r].by
         /\ got' = [got EXCEPT ![r].cursor = x] =>
              got'[r].cursor = x /\ got'[r].by = got[r].by
<1>1. r \in DOMAIN got
  BY DEF BInv, Functional
<1>2. Shaped(got[r])
  BY DEF BInv
<1>3. /\ [got[r] EXCEPT !.shown = x].cursor = got[r].cursor
      /\ [got[r] EXCEPT !.shown = x].by = got[r].by
      /\ [got[r] EXCEPT !.reposts = x].cursor = got[r].cursor
      /\ [got[r] EXCEPT !.reposts = x].by = got[r].by
      /\ [got[r] EXCEPT !.cursor = x].cursor = x
      /\ [got[r] EXCEPT !.cursor = x].by = got[r].by
  BY <1>2 DEF Shaped
<1>4. /\ [got[r] EXCEPT !.own = x, !.before = y].cursor = got[r].cursor
      /\ [got[r] EXCEPT !.own = x, !.before = y].by = got[r].by
      /\ [got[r] EXCEPT !.shown = x, !.blank = y].cursor = got[r].cursor
      /\ [got[r] EXCEPT !.shown = x, !.blank = y].by = got[r].by
  BY <1>2 DEF Shaped
<1>6. got' = [got EXCEPT ![r].shown = x] =>
        got'[r].cursor = got[r].cursor /\ got'[r].by = got[r].by
  BY <1>1, <1>3
<1>7. got' = [got EXCEPT ![r].own = x, ![r].before = y] =>
        got'[r].cursor = got[r].cursor /\ got'[r].by = got[r].by
  BY <1>1, <1>4
<1>8. got' = [got EXCEPT ![r].reposts = x] =>
        got'[r].cursor = got[r].cursor /\ got'[r].by = got[r].by
  BY <1>1, <1>3
<1>9. got' = [got EXCEPT ![r].shown = x, ![r].blank = y] =>
        got'[r].cursor = got[r].cursor /\ got'[r].by = got[r].by
  BY <1>1, <1>4
<1>10. got' = [got EXCEPT ![r].cursor = x] =>
        got'[r].cursor = x /\ got'[r].by = got[r].by
  BY <1>1, <1>3
<1> QED BY <1>6, <1>7, <1>8, <1>9, <1>10

(* And the query of a page fills in three fields.                          *)
LEMMA PageFilled ==
  ASSUME BInv, NEW r \in Requests, NEW x, NEW y, Queried(r, x, y)
  PROVE  /\ got'[r].cursor = got[r].cursor /\ got'[r].by = r
         /\ got'[r].shown = x /\ got'[r].next = y
<1>1. r \in DOMAIN got
  BY DEF BInv, Functional
<1>2. Shaped(got[r])
  BY DEF BInv
<1>3. /\ [got[r] EXCEPT !.by = r, !.shown = x, !.next = y].cursor = got[r].cursor
      /\ [got[r] EXCEPT !.by = r, !.shown = x, !.next = y].by = r
      /\ [got[r] EXCEPT !.by = r, !.shown = x, !.next = y].shown = x
      /\ [got[r] EXCEPT !.by = r, !.shown = x, !.next = y].next = y
  BY <1>2 DEF Shaped
<1> QED BY <1>1, <1>3 DEF Queried

(* Calls of other lists fetch no page.                                     *)
LEMMA OthersFetched ==
  ASSUME PInv, PInv', BInv, NEW r \in Requests, Op(r) # "homeFeed", Fetched(r), Moves(r)
  PROVE  Fetched(r)'
<1>1. Op(r)' # "homeFeed" /\ pc'[r] # "fill"
  <2>1. Op(r)' = Op(r)
    BY DEF Moves, RowsKept, Op
  <2> QED BY <2>1 DEF PInv, OnPath
<1>2. got'[r].cursor = got[r].cursor /\ got'[r].by = got[r].by
  <2>1. CASE Untouched(r)
    BY <2>1 DEF Untouched
  <2>2. CASE ReadReplies(r)
    BY <2>2, PagesRead DEF ReadReplies
  <2>3. CASE ReadFollows(r)
    BY <2>3, PagesRead DEF ReadFollows
  <2>4. CASE ReadOwn(r)
    <3>1. PICK T : got' = [got EXCEPT ![r].own = T, ![r].before = gone]
      BY <2>4 DEF ReadOwn
    <3> QED BY <3>1, PagesRead, ZenonT(30)
  <2>5. CASE ReadReposts(r)
    BY <2>5, PagesRead DEF ReadReposts
  <2>6. CASE PreloadPosts(r)
    <3>1. PICK T, B : got' = [got EXCEPT ![r].shown = T, ![r].blank = B]
      BY <2>6 DEF PreloadPosts
    <3> QED BY <3>1, PagesRead
  <2>7. CASE ReadCache(r) \/ ReadPage(r)
    BY <2>7 DEF ReadCache, ReadPage, At, PInv, OnPath
  <2>8. CASE Call(r)
    BY <2>8 DEF Call
  <2> QED BY <2>1, <2>2, <2>3, <2>4, <2>5, <2>6, <2>7, <2>8 DEF Moves, Reads
<1>3. (None)' = None /\ None \notin Requests
  BY BackendAssumption DEF None, PostIds
<1>4. got[r].by = None /\ got[r].cursor \in Nat
  BY DEF Fetched
<1> QED BY <1>1, <1>2, <1>3, <1>4 DEF Fetched

(* The query of a page: what it returns, and what was visible then.        *)
LEMMA PageQueried ==
  ASSUME PInv, BInv, NEW r \in Requests, Fetched(r), ReadPage(r), call' = call
  PROVE  PageHolds(r)' /\ got'[r].by = r /\ got'[r].cursor = got[r].cursor
<1>1. Op(r) = "homeFeed"
  BY DEF ReadPage, At, PInv, OnPath
<1>2. UNCHANGED <<rows, gone, alive, call>> /\ Remember(r)
  BY DEF ReadPage
<1> DEFINE S == HomeItems(User(r), rows, gone)
<1>3. stood'[r] = S /\ S \subseteq DOMAIN rows
  <2>1. Visible(r, rows, gone, alive) = S
    BY <1>1 DEF Visible
  <2> QED BY <1>2, <2>1, RemembersNow, VisibleRows
<1>4. PICK page \in Pages(Entries(S), PageSize, got[r].cursor) :
        got' = [got EXCEPT ![r].by = r, ![r].shown = page.shown, ![r].next = page.next]
  BY DEF ReadPage
<1>5. /\ got'[r].cursor = got[r].cursor /\ got'[r].by = r
      /\ got'[r].shown = page.shown /\ got'[r].next = page.next
  <2>1. Queried(r, page.shown, page.next)
    BY <1>4 DEF Queried
  <2> QED BY <2>1, PageFilled
<1> HIDE DEF S
<1>6. IsFiniteSet(Entries(S)) /\ \A e \in Entries(S) : Stamp(e) \in Nat \ {0}
  BY <1>3, EntriesAre
<1>7. got[r].cursor \in Nat
  BY DEF Fetched
<1>8. /\ page.shown \subseteq Entries(S) /\ page.next \in Nat
      /\ \A e \in page.shown : Below(Stamp(e), got[r].cursor)
      /\ page.next # 0 => /\ \A e \in page.shown : Stamp(e) >= page.next
                          /\ Below(page.next, got[r].cursor)
      /\ \A f \in Entries(S) : Below(Stamp(f), got[r].cursor) =>
           f \in page.shown \/ (page.next # 0 /\ Stamp(f) =< page.next)
  BY <1>4, <1>6, <1>7, PageSizeIs, PagesAre DEF Below
<1>9. \A p \in stood'[r] : <<p, rows'[p]>> \in Entries(S) /\ Stamp(<<p, rows'[p]>>) = rows'[p]
  BY <1>2, <1>3 DEF Entries, Stamp
<1>10. \A p \in stood'[r] : Below(rows'[p], got'[r].cursor) =>
        \/ <<p, rows'[p]>> \in got'[r].shown
        \/ got'[r].next # 0 /\ rows'[p] =< got'[r].next
  <2> TAKE p \in stood'[r]
  <2>1. Below(rows'[p], got[r].cursor) =>
          <<p, rows'[p]>> \in page.shown \/ (page.next # 0 /\ rows'[p] =< page.next)
    BY <1>8, <1>9
  <2> QED BY <1>5, <2>1
<1>11. /\ got'[r].next \in Nat
       /\ \A e \in got'[r].shown : Stamp(e) \in Nat \ {0} /\ Below(Stamp(e), got'[r].cursor)
       /\ got'[r].next # 0 => /\ \A e \in got'[r].shown : Stamp(e) >= got'[r].next
                              /\ Below(got'[r].next, got'[r].cursor)
  BY <1>5, <1>6, <1>8
<1> QED BY <1>5, <1>10, <1>11 DEF PageHolds, Below, Stamp

(* The step of a call itself.                                              *)
LEMMA OwnFetched ==
  ASSUME EInv, PInv', BInv, BInv', NEW r \in Requests, Moves(r), CachedOwn,
         scroll.cursor \in Nat,
         \A s \in Requests : Fetched(s),
         TurnAway(r) \/ Call(r) \/ Step(r) \/ TimeOut(r) \/ Respond(r)
  PROVE  Fetched(r)'
<1>0. PInv /\ Outcome(r) /\ Fetched(r)
  BY DEF EInv, True
<1>1. call' = call /\ RowsKept /\ Op(r)' = Op(r)
  BY DEF Moves, RowsKept, Op
<1>2. \A q \in Requests : got[q].by # None => got'[q] = got[q]
  BY <1>0, Settled DEF Untouched
<1>3. None \notin Requests /\ (None)' = None
  BY BackendAssumption DEF None, PostIds
<1>4. CASE Op(r) # "homeFeed"
  BY <1>0, <1>4, OthersFetched
<1>5. CASE ReadPage(r)
  <2>1. PageHolds(r)' /\ got'[r].by = r /\ got'[r].cursor = got[r].cursor
    BY <1>0, <1>1, <1>5, PageQueried
  <2>2. Op(r) = "homeFeed" /\ pc'[r] = "fill"
    BY <1>0, <1>5, ExceptAt DEF ReadPage, At, Goto, PInv, OnPath, Functional
  <2> QED BY <1>0, <1>1, <1>3, <2>1, <2>2 DEF Fetched
<1>6. CASE ReadCache(r)
  <2>1. Op(r) = "homeFeed" /\ got[r].by = None
    BY <1>0, <1>6 DEF ReadCache, At, PInv, OnPath, Fetched
  <2>2. CASE \E s \in cached : got' = [got EXCEPT ![r] = got[s]] /\ Return(r, "ok")
    <3>1. PICK s \in cached : got' = [got EXCEPT ![r] = got[s]] /\ Return(r, "ok")
      BY <2>2
    <3>2. s \in Requests /\ got[s].by = s /\ s # r
      BY <1>3, <2>1 DEF BInv, CachedOwn
    <3>3. got'[r] = got[s] /\ got'[s] = got[s] /\ pc'[r] = "out"
      BY <1>0, <3>1, <3>2, ExceptAt DEF Return, PInv, BInv, Functional
    <3>4. got[s].cursor \in Nat
      BY <3>2 DEF Fetched
    <3> QED BY <1>1, <1>3, <2>1, <3>2, <3>3, <3>4 DEF Fetched
  <2>3. CASE Goto(r, "page") /\ UNCHANGED got
    <3>1. pc'[r] = "page" /\ out' = out /\ out[r] # "ok"
      BY <1>0, <1>6, <2>3, ExceptAt DEF Goto, PInv, Functional, Outcome, ReadCache, At, None
    <3> QED BY <1>0, <1>1, <1>3, <2>1, <2>3, <3>1 DEF Fetched
  <2> QED BY <1>6, <2>2, <2>3 DEF ReadCache
<1>7. CASE Op(r) = "homeFeed" /\ Call(r)
  <2>1. got[r].by = None /\ pc'[r] = "cache" /\ out'[r] # "ok"
    <3>1. pc[r] = "new" /\ out' = out /\ pc' = [pc EXCEPT ![r] = First(Op(r))]
      BY <1>7 DEF Call, Admitted, Sent, At
    <3>2. First(Op(r)) = "cache"
      BY <1>7 DEF First, Toggles, Adding, Removing
    <3> QED BY <1>0, <1>7, <3>1, <3>2, ExceptAt DEF Fetched, Outcome, None, PInv, Functional
  <2>2. PICK c \in Nat : got' = [got EXCEPT ![r].cursor = c]
    BY <1>7 DEF Call, NewScroll
  <2>3. got'[r].cursor = c /\ got'[r].by = got[r].by
    BY <2>2, PagesRead
  <2> QED BY <1>1, <1>3, <1>7, <2>1, <2>3 DEF Fetched
<1>8. CASE Fill(r)
  <2>1. Op(r) = "homeFeed" /\ got[r].by = r /\ Untouched(r) /\ pc'[r] = "out"
    BY <1>0, <1>8, ExceptAt DEF Fill, At, PInv, OnPath, Fetched, Untouched, Content, Return,
                                Functional
  <2>2. PageHolds(r)'
    BY <1>0, <1>1, <2>1, HoldsOn DEF Fetched
  <2> QED BY <1>0, <1>1, <1>3, <2>1, <2>2 DEF Fetched, Untouched
<1>9. ASSUME Op(r) = "homeFeed", ~ (ReadPage(r) \/ ReadCache(r) \/ Call(r) \/ Fill(r))
      PROVE  Fetched(r)'
  <2>1. ~ Reads(r)
    BY <1>0, <1>9 DEF Reads, ReadReplies, ReadFollows, ReadOwn, ReadReposts, PreloadPosts, At,
                      PInv, OnPath
  <2>2. Untouched(r)
    BY <2>1 DEF Moves
  <2>3. Silent(r)
    BY <1>0, <1>9, <2>1, ListingSilent, GatewaySilent DEF Listing
  <2> QED BY <1>0, <1>1, <1>2, <2>2, <2>3, FetchedStays
<1> QED BY <1>4, <1>5, <1>6, <1>7, <1>8, <1>9
-----------------------------------------------------------------------------
(* An answer is not taken back.                                            *)
LEMMA AnsweredOnce ==
  ASSUME PInv, NEW r \in Requests,
         TurnAway(r) \/ Call(r) \/ Step(r) \/ TimeOut(r) \/ Respond(r),
         NEW q \in Requests, status[q] # 0
  PROVE  status'[q] # 0
<1>1. CASE Call(r) \/ Step(r)
  BY <1>1 DEF Call, Step
<1>2. CASE TurnAway(r)
  <2>1. \E c \in {400, 401, 429} : status' = [status EXCEPT ![r] = c]
    BY <1>2 DEF TurnAway, Refuse, Answer
  <2>2. PICK c \in {400, 401, 429} : status' = [status EXCEPT ![r] = c]
    BY <2>1
  <2> QED BY <2>2, ExceptAt DEF PInv, Functional
<1>3. CASE TimeOut(r) \/ Respond(r)
  <2>1. status[r] = 0 /\ \E c : status' = [status EXCEPT ![r] = c]
    BY <1>3 DEF TimeOut, Respond, Answer
  <2> QED BY <2>1, ExceptAt DEF PInv, Functional
<1> QED BY <1>1, <1>2, <1>3

(* A call of the feed is sent once, and then the answers are there.        *)
LEMMA SentOnce ==
  ASSUME PInv, NEW r \in Requests, Op(r) = "homeFeed",
         TurnAway(r) \/ Call(r) \/ Step(r) \/ TimeOut(r) \/ Respond(r)
  PROVE  /\ pc'[r] # "new"
         /\ pc[r] = "new" => \A s \in call[r].after : status[s] # 0
<1>1. CASE TurnAway(r)
  <2>1. Sent(r) /\ pc' = [pc EXCEPT ![r] = "end"]
    BY <1>1 DEF TurnAway, Admitted, Refuse, Answer
  <2>2. pc'[r] = "end"
    BY <2>1, ExceptAt DEF PInv, Functional
  <2> QED BY <2>1, <2>2 DEF Sent
<1>2. CASE Call(r)
  <2>1. Sent(r) /\ pc' = [pc EXCEPT ![r] = First(Op(r))]
    BY <1>2 DEF Call, Admitted
  <2>2. First(Op(r)) = "cache"
    BY DEF First, Toggles, Adding, Removing
  <2>3. pc'[r] = "cache"
    BY <2>1, <2>2, ExceptAt DEF PInv, Functional
  <2> QED BY <2>1, <2>3 DEF Sent
<1>3. CASE Step(r) /\ ~ Reads(r) /\ ~ Fill(r)
  BY <1>3, LetIn, ListingSilent DEF Silent, Telling, Listing
<1>4. CASE Step(r) /\ (Reads(r) \/ Fill(r)) /\ ~ Call(r)
  <2>1. ReadCache(r) \/ ReadPage(r) \/ Fill(r)
    BY <1>4 DEF Reads, ReadReplies, ReadFollows, ReadOwn, ReadReposts, PreloadPosts, At,
                PInv, OnPath
  <2>2. \E x \in {"out", "page", "fill"} : pc' = [pc EXCEPT ![r] = x]
    BY <2>1 DEF ReadCache, ReadPage, Fill, Goto, Return
  <2>3. PICK x \in {"out", "page", "fill"} : pc' = [pc EXCEPT ![r] = x]
    BY <2>2
  <2>4. pc'[r] = x
    BY <2>3, ExceptAt DEF PInv, Functional
  <2> QED BY <1>4, <2>4, LetIn
<1>5. CASE TimeOut(r) \/ Respond(r)
  <2>1. pc[r] # "new"
    BY <1>5 DEF TimeOut, Respond, InService, At
  <2> QED BY <1>5, <2>1, GatewaySilent DEF Silent, Telling
<1> QED BY <1>1, <1>2, <1>3, <1>4, <1>5

(* So the turns are kept.                                                  *)
LEMMA TurnsStay ==
  ASSUME PInv, Turns, NEW r \in Requests, Legal(r),
         TurnAway(r) \/ Call(r) \/ Step(r) \/ TimeOut(r) \/ Respond(r)
  PROVE  Turns'
<1>1. call' = call
  BY DEF Legal, Marks
<1>2. \A s \in Requests : s # r => pc'[s] = pc[s] /\ status'[s] = status[s]
  BY OthersStay DEF Legal
<1>3. \A q \in Requests : status[q] # 0 => status'[q] # 0
  BY AnsweredOnce
<1>4. Op(r) = "homeFeed" => /\ pc'[r] # "new"
                            /\ pc[r] = "new" => \A s \in call[r].after : status[s] # 0
  BY SentOnce
<1>5. ASSUME NEW s \in Requests, Op(s) = "homeFeed"
      PROVE  /\ pc'[s] = "new" => status'[s] = 0
             /\ pc'[s] # "new" => \A q \in call[s].after \cap Requests : status'[q] # 0
  <2>1. CASE s = r
    <3>1. \A q \in call[r].after \cap Requests : status[q] # 0
      BY <1>4, <1>5, <2>1 DEF Turns
    <3> QED BY <1>3, <1>4, <1>5, <2>1, <3>1
  <2>2. CASE s # r
    BY <1>2, <1>3, <1>5, <2>2 DEF Turns
  <2> QED BY <2>1, <2>2
<1> QED BY <1>1, <1>5 DEF Turns, Op
-----------------------------------------------------------------------------
CursorSet(r, c) == got' = [got EXCEPT ![r].cursor = c]

(* The call sets the cursor.                                               *)
LEMMA CursorIsSet ==
  ASSUME BInv, NEW r \in Requests, NEW c, CursorSet(r, c) PROVE got'[r].cursor = c
<1>1. r \in DOMAIN got /\ Shaped(got[r])
  BY DEF BInv, Functional
<1>2. [got[r] EXCEPT !.cursor = c].cursor = c
  BY <1>1 DEF Shaped
<1> QED BY <1>1, <1>2 DEF CursorSet

(* A call keeps its cursor.                                                *)
LEMMA CursorKept ==
  ASSUME PInv, BInv, NEW r \in Requests, Op(r) = "homeFeed", Moves(r), ~ Call(r)
  PROVE  got'[r].cursor = got[r].cursor
<1>1. CASE Untouched(r)
  BY <1>1 DEF Untouched
<1>2. CASE ReadCache(r)
  <2>1. CASE UNCHANGED got
    BY <2>1
  <2>2. CASE \E s \in cached : SamePage(r, s) /\ got' = [got EXCEPT ![r] = got[s]]
    <3>1. PICK s \in cached : SamePage(r, s) /\ got' = [got EXCEPT ![r] = got[s]]
      BY <2>2
    <3>2. got'[r] = got[s]
      BY <3>1, ExceptAt DEF BInv, Functional
    <3> QED BY <3>1, <3>2 DEF SamePage
  <2> QED BY <1>2, <2>1, <2>2 DEF ReadCache
<1>3. CASE ReadPage(r)
  <2>1. PICK page : got' = [got EXCEPT ![r].by = r, ![r].shown = page.shown, ![r].next = page.next]
    BY <1>3 DEF ReadPage
  <2>2. Queried(r, page.shown, page.next)
    BY <2>1 DEF Queried
  <2> QED BY <2>2, PageFilled
<1>4. Untouched(r) \/ ReadCache(r) \/ ReadPage(r)
  BY DEF Moves, Reads, ReadReplies, ReadFollows, ReadOwn, ReadReposts, PreloadPosts, At,
         PInv, OnPath
<1> QED BY <1>1, <1>2, <1>3, <1>4

(* The page the client gets is one somebody queried under its cursor.      *)
LEMMA AnswerHolds ==
  ASSUME \A s \in Requests : Fetched(s), NEW r \in Requests, Op(r) = "homeFeed", out[r] = "ok"
  PROVE  /\ got[r].by \in Requests /\ got[got[r].by] = got[r]
         /\ PageHolds(got[r].by)
<1>1. got[r].by \in Requests /\ got[r].by # None /\ got[got[r].by] = got[r]
  BY DEF Fetched
<1> QED BY <1>1 DEF Fetched

(* The cursor of the screen is that of the call under way.                 *)
LEMMA HeldStays ==
  ASSUME PInv, BInv, Turns, Held, \A s \in Requests : Fetched(s),
         NEW r \in Requests, Moves(r), Legal(r),
         TurnAway(r) \/ Call(r) \/ Step(r) \/ TimeOut(r) \/ Respond(r)
  PROVE  Held'
<1>1. call' = call /\ \A s \in Requests : Op(s)' = Op(s)
  BY DEF Legal, Marks, Op
<1>2. \A s \in Requests : s # r =>
        pc'[s] = pc[s] /\ status'[s] = status[s] /\ got'[s] = got[s]
  <2>1. \A s \in Requests : s # r => pc'[s] = pc[s] /\ status'[s] = status[s]
    BY OthersStay DEF Legal
  <2>2. \A s \in Requests : s # r => got'[s] = got[s]
    BY DEF Moves, Untouched
  <2> QED BY <2>1, <2>2
<1>3. CASE Op(r) = "homeFeed" /\ Call(r)
  <2> DEFINE now == IF scroll.end THEN NewScroll ELSE scroll
  <2>1. scroll' = now /\ got' = [got EXCEPT ![r].cursor = now.cursor]
    BY <1>3 DEF Call
  <2>2. now.cursor \in Nat /\ ~ now.end
    <3>1. CASE scroll.end
      BY <3>1 DEF NewScroll
    <3>2. CASE ~ scroll.end
      BY <3>2 DEF Held
    <3> QED BY <3>1, <3>2
  <2>3. got'[r].cursor = now.cursor
    <3>1. CursorSet(r, now.cursor)
      BY <2>1 DEF CursorSet
    <3> QED BY <3>1, CursorIsSet
  <2>4. ASSUME NEW s \in Requests, s # r, Scrolling(s) PROVE FALSE
    <3>1. pc[r] = "new" /\ \A q \in call[r].after : status[q] # 0
      BY <1>3 DEF Call, Admitted, Sent, At
    <3>2. call[r].op = "homeFeed" /\ call[s].op = "homeFeed" /\ call \in Offered
      BY <1>3, <2>4 DEF Scrolling, Op, PInv, Calls
    <3>3. r \in call[s].after \/ s \in call[r].after
      BY <2>4, <3>2, ScrollAssumption
    <3>4. status[r] = 0 /\ (r \in call[s].after => status[r] # 0)
      BY <1>3, <2>4, <3>1 DEF Turns, Scrolling
    <3>5. status[s] = 0
      BY <2>4 DEF Scrolling
    <3> QED BY <3>1, <3>3, <3>4, <3>5
  <2>5. ASSUME NEW s \in Requests, Scrolling(s)' PROVE s = r
    BY <1>1, <1>2, <2>4, <2>5 DEF Scrolling
  <2> QED BY <2>1, <2>2, <2>3, <2>5 DEF Held
<1>4. CASE Op(r) = "homeFeed" /\ Respond(r) /\ out[r] = "ok"
  <2>1. scroll'.cursor = got[r].next
    BY <1>4 DEF Respond
  <2>2. got[r].next \in Nat
    BY <1>4, AnswerHolds DEF PageHolds
  <2>3. Scrolling(r)
    BY <1>4 DEF Respond, Scrolling, At
  <2>4. pc'[r] = "end"
    BY <1>4, ExceptAt DEF Respond, Answer, PInv, Functional
  <2>5. ASSUME NEW s \in Requests, Scrolling(s)' PROVE FALSE
    <3>1. s # r
      BY <2>4, <2>5 DEF Scrolling
    <3>2. Scrolling(s)
      BY <1>1, <1>2, <2>5, <3>1 DEF Scrolling
    <3> QED BY <2>3, <3>1, <3>2, OneAtATime
  <2> QED BY <2>1, <2>2, <2>5 DEF Held
<1>5. ASSUME ~ (Op(r) = "homeFeed" /\ Call(r)),
             ~ (Op(r) = "homeFeed" /\ Respond(r) /\ out[r] = "ok")
      PROVE  Held'
  <2>1. scroll' = scroll
    BY <1>5 DEF TurnAway, Refuse, Call, Step, TimeOut, Respond
  <2>2. ASSUME NEW s \in Requests, Scrolling(s)'
        PROVE  got'[s].cursor = scroll.cursor /\ ~ scroll.end
    <3>1. CASE s # r
      <4>1. Scrolling(s)
        BY <1>1, <1>2, <2>2, <3>1 DEF Scrolling
      <4> QED BY <1>2, <3>1, <4>1 DEF Held
    <3>2. CASE s = r
      <4>1. Op(r) = "homeFeed" /\ pc'[r] \notin {"new", "end"} /\ status'[r] = 0
        BY <1>1, <2>2, <3>2 DEF Scrolling
      <4>2. Step(r) \/ TimeOut(r)
        <5>1. CASE TurnAway(r) \/ Respond(r)
          <6>1. pc' = [pc EXCEPT ![r] = "end"]
            BY <5>1 DEF TurnAway, Refuse, Respond, Answer
          <6>2. pc'[r] = "end"
            BY <6>1, ExceptAt DEF PInv, Functional
          <6> QED BY <4>1, <6>2
        <5> QED BY <1>5, <4>1, <5>1
      <4>3. pc[r] # "new" /\ status[r] = 0
        BY <4>1, <4>2, LetIn DEF Step, TimeOut, InService, At
      <4>4. Scrolling(r)
        BY <4>1, <4>3 DEF Scrolling, Legal
      <4>5. got'[r].cursor = got[r].cursor
        BY <1>5, <4>1, CursorKept
      <4> QED BY <3>2, <4>4, <4>5 DEF Held
    <3> QED BY <3>1, <3>2
  <2> QED BY <2>1, <2>2 DEF Held
<1> QED BY <1>3, <1>4, <1>5
-----------------------------------------------------------------------------
(* What is on the screen stays as good as it is.                           *)
LEMMA ScrolledStays ==
  ASSUME Scrolled, BInv, BInv', RowsKept, scroll' = scroll, \A s \in Requests : Fetched(s),
         \A s \in Requests : got[s].by # None => Untouched(s)
  PROVE  Scrolled'
<1> DEFINE P == scroll.pages
<1>1. None \notin Requests
  BY BackendAssumption DEF PostIds
<1>2. \A i \in DOMAIN P : P[i] \in Requests /\ got[P[i]].by = P[i]
  BY DEF Scrolled
<1>3. \A i \in DOMAIN P : Untouched(P[i]) /\ got'[P[i]] = got[P[i]]
  BY <1>1, <1>2 DEF Untouched
<1>4. \A i \in DOMAIN P : \A p \in stood'[P[i]] :
        p \in stood[P[i]] /\ p \in DOMAIN rows /\ rows'[p] = rows[p]
  BY <1>2, <1>3, StoodKeeps
<1>5. ASSUME P # << >>, NEW p \in DOMAIN rows', \A i \in DOMAIN P : p \in stood'[P[i]]
      PROVE  OnPages(p)' \/ (scroll.cursor # 0 /\ rows'[p] < scroll.cursor)
  <2>1. P \in Seq(Requests)
    BY DEF Scrolled
  <2>2. PICK i \in DOMAIN P : TRUE
    BY <1>5, <2>1
  <2>3. p \in DOMAIN rows /\ rows'[p] = rows[p] /\ \A j \in DOMAIN P : p \in stood[P[j]]
    BY <1>4, <1>5, <2>2
  <2>4. OnPages(p) \/ (scroll.cursor # 0 /\ rows[p] < scroll.cursor)
    BY <1>5, <2>3 DEF Scrolled
  <2>5. OnPages(p) => OnPages(p)'
    BY <1>3, <2>3 DEF OnPages
  <2> QED BY <2>3, <2>4, <2>5
<1>6. /\ P \in Seq(Requests)
      /\ P = << >> => scroll.cursor = 0 /\ ~ scroll.end
      /\ P # << >> => (scroll.end <=> scroll.cursor = 0)
  BY DEF Scrolled
<1>7. /\ \A i \in DOMAIN P : got'[P[i]].by = P[i]
      /\ \A i \in DOMAIN P : ~ scroll.end => \A e \in got'[P[i]].shown : Stamp(e) >= scroll.cursor
      /\ \A i, j \in DOMAIN P : i # j => got'[P[i]].shown \cap got'[P[j]].shown = {}
  BY <1>3 DEF Scrolled
<1> QED BY <1>5, <1>6, <1>7 DEF Scrolled, Stamp

(* The page that comes next is below those that are there, and takes in    *)
(* what has stood so far.                                                  *)
LEMMA PageComes ==
  ASSUME Scrolled, Held, BInv, \A s \in Requests : Fetched(s),
         NEW q \in Requests, PageHolds(q), got[q].by = q,
         got[q].cursor = scroll.cursor, ~ scroll.end, UNCHANGED <<rows, stood, got>>,
         scroll' = [pages |-> Append(scroll.pages, q), cursor |-> got[q].next,
                    end |-> got[q].next = 0]
  PROVE  Scrolled'
<1> DEFINE P == scroll.pages
           Q == Append(P, q)
           n == Len(P)
<1>0. P \in Seq(Requests)
  BY DEF Scrolled
<1> HIDE DEF P
<1>01. n \in Nat /\ DOMAIN P = 1 .. n
  BY <1>0
<1>02. /\ Q \in Seq(Requests) /\ Len(Q) = n + 1 /\ Q[n + 1] = q
       /\ \A i \in 1 .. n : Q[i] = P[i]
  BY <1>0
<1>03. Q # << >> /\ DOMAIN Q = 1 .. n + 1
  BY <1>01, <1>02
<1>04. P = << >> <=> n = 0
  BY <1>0
<1>1. /\ n \in Nat /\ Q \in Seq(Requests) /\ Q # << >> /\ (P = << >> <=> n = 0)
      /\ DOMAIN P = 1 .. n /\ DOMAIN Q = 1 .. n + 1 /\ Q[n + 1] = q
      /\ \A i \in 1 .. n : Q[i] = P[i]
  BY <1>01, <1>02, <1>03, <1>04
<1> USE DEF P
<1>2. /\ scroll'.pages = Q /\ scroll'.cursor = got[q].next
      /\ scroll'.end <=> got[q].next = 0
  OBVIOUS
<1>3. \A i \in 1 .. n + 1 : i \in 1 .. n \/ i = n + 1
  BY <1>1
<1>4. n # 0 => scroll.cursor # 0
  <2>1. P # << >> => (scroll.end <=> scroll.cursor = 0)
    BY DEF Scrolled
  <2> QED BY <1>04, <2>1
<1>5. /\ \A i \in 1 .. n : P[i] \in Requests /\ got[P[i]].by = P[i]
      /\ \A i \in 1 .. n : \A e \in got[P[i]].shown : Stamp(e) >= scroll.cursor
      /\ \A i, j \in 1 .. n : i # j => got[P[i]].shown \cap got[P[j]].shown = {}
  <2>1. \A i \in 1 .. n : P[i] \in Requests
    BY <1>0, <1>01
  <2>2. /\ \A i \in DOMAIN P : got[P[i]].by = P[i]
        /\ \A i \in DOMAIN P : \A e \in got[P[i]].shown : Stamp(e) >= scroll.cursor
        /\ \A i, j \in DOMAIN P : i # j => got[P[i]].shown \cap got[P[j]].shown = {}
    BY DEF Scrolled
  <2> HIDE DEF P, n
  <2> QED BY <1>01, <2>1, <2>2
<1>6. /\ got[q].next \in Nat /\ scroll.cursor \in Nat
      /\ \A e \in got[q].shown : Stamp(e) \in Nat \ {0} /\ Below(Stamp(e), scroll.cursor)
      /\ got[q].next # 0 => /\ \A e \in got[q].shown : Stamp(e) >= got[q].next
                            /\ Below(got[q].next, scroll.cursor)
      /\ \A p \in stood[q] : Below(rows[p], scroll.cursor) =>
           \/ <<p, rows[p]>> \in got[q].shown
           \/ got[q].next # 0 /\ rows[p] =< got[q].next
  BY DEF PageHolds, Held
<1>7. \A i \in 1 .. n : \A e \in got[P[i]].shown : Stamp(e) \in Nat
  <2>1. \A i \in 1 .. n : PageHolds(P[i])
    BY <1>5 DEF Fetched
  <2> QED BY <2>1 DEF PageHolds
<1> HIDE DEF P, Q, n
<1>8. ASSUME NEW i \in 1 .. n, NEW e \in got[P[i]].shown
      PROVE  /\ e \notin got[q].shown
             /\ got[q].next # 0 => Stamp(e) >= got[q].next
  <2>1. scroll.cursor # 0 /\ Stamp(e) >= scroll.cursor /\ Stamp(e) \in Nat
    BY <1>1, <1>4, <1>5, <1>7, <1>8
  <2>2. CASE e \in got[q].shown
    BY <1>6, <2>1, <2>2 DEF Below
  <2>3. CASE got[q].next # 0
    BY <1>6, <2>1, <2>3 DEF Below
  <2> QED BY <2>2, <2>3
<1>9. \A i, j \in DOMAIN Q : i # j => got[Q[i]].shown \cap got[Q[j]].shown = {}
  <2> TAKE i, j \in DOMAIN Q
  <2> HAVE i # j
  <2>1. CASE i \in 1 .. n /\ j \in 1 .. n
    BY <1>1, <1>5, <2>1
  <2>2. CASE i = n + 1 /\ j \in 1 .. n
    BY <1>1, <1>8, <2>2
  <2>3. CASE j = n + 1 /\ i \in 1 .. n
    BY <1>1, <1>8, <2>3
  <2> QED BY <1>1, <1>3, <2>1, <2>2, <2>3
<1>10. /\ \A i \in DOMAIN Q : got[Q[i]].by = Q[i]
       /\ \A i \in DOMAIN Q : got[q].next # 0 =>
            \A e \in got[Q[i]].shown : Stamp(e) >= got[q].next
  BY <1>1, <1>3, <1>5, <1>6, <1>8
<1>11. ASSUME NEW p \in DOMAIN rows, \A i \in DOMAIN Q : p \in stood[Q[i]]
       PROVE  \/ \E i \in DOMAIN Q : \/ <<p, rows[p]>> \in got[Q[i]].shown
                                     \/ got[Q[i]].next = rows[p]
              \/ got[q].next # 0 /\ rows[p] < got[q].next
  <2>1. rows[p] \in Nat
    BY BackendAssumption DEF BInv, Stamped
  <2>2. p \in stood[q] /\ n + 1 \in DOMAIN Q
    BY <1>1, <1>11
  <2>3. CASE Below(rows[p], scroll.cursor)
    <3>1. <<p, rows[p]>> \in got[q].shown \/ (got[q].next # 0 /\ rows[p] =< got[q].next)
      BY <1>6, <2>2, <2>3
    <3> QED BY <1>1, <1>6, <2>1, <2>2, <3>1
  <2>4. CASE ~ Below(rows[p], scroll.cursor)
    <3>1. P # << >> /\ \A i \in 1 .. n : p \in stood[P[i]]
      <4>1. scroll.cursor # 0
        BY <2>4 DEF Below
      <4>2. P # << >>
        BY <4>1 DEF Scrolled, P
      <4> QED BY <1>1, <1>11, <4>2
    <3>2. OnPages(p)
      BY <1>1, <2>4, <3>1 DEF Scrolled, Below, P
    <3>3. PICK i \in 1 .. n : <<p, rows[p]>> \in got[P[i]].shown \/ got[P[i]].next = rows[p]
      BY <1>1, <3>2 DEF OnPages, P
    <3>4. i \in DOMAIN Q /\ Q[i] = P[i]
      BY <1>1
    <3> QED BY <3>3, <3>4
  <2> QED BY <2>3, <2>4
<1>12. /\ Q \in Seq(Requests) /\ Q # << >>
       /\ \A i \in DOMAIN Q : got'[Q[i]].by = Q[i]
       /\ \A i \in DOMAIN Q : ~ scroll'.end =>
            \A e \in got'[Q[i]].shown : Stamp(e) >= scroll'.cursor
       /\ \A i, j \in DOMAIN Q : i # j => got'[Q[i]].shown \cap got'[Q[j]].shown = {}
  BY <1>1, <1>2, <1>9, <1>10
<1>13. ASSUME NEW p \in DOMAIN rows', \A i \in DOMAIN Q : p \in stood'[Q[i]]
       PROVE  OnPages(p)' \/ (scroll'.cursor # 0 /\ rows'[p] < scroll'.cursor)
  <2>1. rows' = rows /\ stood' = stood /\ got' = got
    OBVIOUS
  <2>2. \/ \E i \in DOMAIN Q : <<p, rows'[p]>> \in got'[Q[i]].shown \/ got'[Q[i]].next = rows'[p]
        \/ scroll'.cursor # 0 /\ rows'[p] < scroll'.cursor
    BY <1>2, <1>11, <1>13, <2>1
  <2>3. (\E i \in DOMAIN Q : <<p, rows'[p]>> \in got'[Q[i]].shown \/ got'[Q[i]].next = rows'[p])
          => OnPages(p)'
    BY <1>2 DEF OnPages
  <2> QED BY <2>2, <2>3
<1>14. Q # << >> => (scroll'.end <=> scroll'.cursor = 0)
  BY <1>2
<1>15. /\ scroll'.pages \in Seq(Requests)
       /\ scroll'.pages = << >> => scroll'.cursor = 0 /\ ~ scroll'.end
       /\ scroll'.pages # << >> => (scroll'.end <=> scroll'.cursor = 0)
  BY <1>2, <1>12, <1>14
<1>16. /\ \A i \in DOMAIN scroll'.pages : got'[scroll'.pages[i]].by = scroll'.pages[i]
       /\ \A i \in DOMAIN scroll'.pages : ~ scroll'.end =>
            \A e \in got'[scroll'.pages[i]].shown : Stamp(e) >= scroll'.cursor
       /\ \A i, j \in DOMAIN scroll'.pages : i # j =>
            got'[scroll'.pages[i]].shown \cap got'[scroll'.pages[j]].shown = {}
  BY <1>2, <1>12
<1>17. scroll'.pages # << >> =>
         \A p \in DOMAIN rows' : (\A i \in DOMAIN scroll'.pages : p \in stood'[scroll'.pages[i]]) =>
           OnPages(p)' \/ (scroll'.cursor # 0 /\ rows'[p] < scroll'.cursor)
  BY <1>2, <1>13
<1> QED BY <1>15, <1>16, <1>17 DEF Scrolled, Stamp
-----------------------------------------------------------------------------
(* The step of a call, its answer included.                                *)
LEMMA StepScrolls ==
  ASSUME SInv, EInv', BInv', NEW r \in Requests,
         TurnAway(r) \/ Call(r) \/ Step(r) \/ TimeOut(r) \/ Respond(r)
  PROVE  SInv'
<1>0. /\ PInv /\ PInv' /\ EInv /\ BInv /\ Turns /\ CachedOwn /\ Held /\ Scrolled
      /\ \A s \in Requests : Fetched(s)
  BY DEF SInv, EInv
<1>1. Moves(r) /\ Legal(r)
  BY <1>0, StepMoves, StepLegal, GatewayLegal
<1>2. call' = call /\ RowsKept
  BY <1>1 DEF Moves, RowsKept
<1>3. \A s \in Requests : got[s].by # None => Untouched(s)
  BY <1>0, <1>1, Settled
<1>4. Turns' /\ Held'
  BY <1>0, <1>1, TurnsStay, HeldStays
<1>5. ASSUME NEW s \in Requests PROVE Fetched(s)'
  <2>1. CASE s = r
    BY <1>0, <1>1, <2>1, OwnFetched DEF Held
  <2>2. CASE s # r
    <3>1. pc'[s] = pc[s] /\ out'[s] = out[s]
      BY <1>0, <1>1, <2>2, OthersStay DEF Legal
    <3>2. Untouched(s)
      BY <1>1, <2>2 DEF Moves
    <3> QED BY <1>0, <1>2, <1>3, <3>1, <3>2, FetchedStays DEF Silent, Untouched
  <2> QED BY <2>1, <2>2
<1>6. CachedOwn'
  <2>1. None \notin Requests
    BY BackendAssumption DEF PostIds
  <2>2. ASSUME NEW s \in cached PROVE got'[s].by = s
    <3>1. s \in Requests /\ got[s].by = s
      BY <1>0 DEF CachedOwn, BInv
    <3> QED BY <1>3, <2>1, <3>1 DEF Untouched
  <2>3. CASE Fill(r)
    <3>1. cached' \subseteq cached \cup {r}
      BY <2>3 DEF Fill
    <3>2. got[r].by = r
      BY <1>0, <2>3 DEF Fill, At, Fetched
    <3>3. got'[r].by = r
      BY <1>3, <2>1, <3>2 DEF Untouched
    <3> QED BY <2>2, <3>1, <3>3 DEF CachedOwn
  <2>4. CASE cached' = cached
    BY <2>2, <2>4 DEF CachedOwn
  <2>5. CASE ~ Step(r)
    <3>1. cached' = cached
      BY <2>5, GatewaySilent, <1>0 DEF Call
    <3> QED BY <2>4, <3>1
  <2> QED BY <2>3, <2>4, <2>5, CacheGrows
<1>7. Scrolled'
  <2>1. CASE scroll' = scroll
    BY <1>0, <1>2, <1>3, <2>1, ScrolledStays
  <2>2. CASE scroll' = NewScroll
    <3>1. scroll'.pages = << >> /\ scroll'.cursor = 0 /\ ~ scroll'.end
      BY <2>2 DEF NewScroll
    <3> QED BY <3>1 DEF Scrolled
  <2>3. CASE Op(r) = "homeFeed" /\ Respond(r) /\ out[r] = "ok"
    <3> DEFINE q == got[r].by
    <3>1. q \in Requests /\ got[q] = got[r] /\ PageHolds(q)
      BY <1>0, <2>3, AnswerHolds
    <3>2. Scrolling(r)
      BY <2>3 DEF Respond, Scrolling, At
    <3>3. got[r].cursor = scroll.cursor /\ ~ scroll.end
      BY <1>0, <3>2 DEF Held
    <3>4. scroll' = [pages |-> Append(scroll.pages, q), cursor |-> got[q].next,
                     end |-> got[q].next = 0]
      BY <2>3, <3>1 DEF Respond
    <3>5. UNCHANGED <<rows, stood, got>>
      BY <2>3 DEF Respond, data
    <3> HIDE DEF q
    <3>6. got[q].by = q /\ got[q].cursor = scroll.cursor
      BY <3>1, <3>3 DEF q
    <3> QED BY <1>0, <3>1, <3>3, <3>4, <3>5, <3>6, PageComes
  <2>4. \/ scroll' = scroll \/ scroll' = NewScroll
        \/ Op(r) = "homeFeed" /\ Respond(r) /\ out[r] = "ok"
    BY DEF TurnAway, Refuse, Call, Step, TimeOut, Respond
  <2> QED BY <2>1, <2>2, <2>3, <2>4
<1> QED BY <1>4, <1>5, <1>6, <1>7 DEF SInv

(* A page may leave Redis, a token expire.                                 *)
LEMMA RestScrolls ==
  ASSUME SInv, EInv', BInv', call' = call, UNCHANGED <<Content, got, pc, out, status, scroll>>,
         cached' \subseteq cached
  PROVE  SInv'
<1>0. /\ EInv /\ BInv /\ Turns /\ CachedOwn /\ Held /\ Scrolled
      /\ \A s \in Requests : Fetched(s)
  BY DEF SInv
<1>1. RowsKept /\ \A s \in Requests : Untouched(s)
  BY <1>0, StillMoves DEF BInv
<1>2. \A s \in Requests : Fetched(s)'
  BY <1>0, <1>1, FetchedStays DEF Silent, Untouched
<1>3. Scrolled'
  BY <1>0, <1>1, ScrolledStays
<1>4. Turns' /\ CachedOwn'
  BY <1>0 DEF Turns, CachedOwn, Op
<1>5. Held'
  BY <1>0 DEF Held, Scrolling, Op
<1> QED BY <1>2, <1>3, <1>4, <1>5 DEF SInv

(* Every step keeps what is known of the pages.                            *)
LEMMA NextScrolls == SInv /\ [Next]_vars => SInv'
<1> SUFFICES ASSUME SInv, [Next]_vars PROVE SInv'
  OBVIOUS
<1>0. EInv' /\ BInv'
  BY StepEInv, NextBInv DEF SInv, EInv
<1>1. ASSUME NEW r \in Requests,
             TurnAway(r) \/ Call(r) \/ Step(r) \/ TimeOut(r) \/ Respond(r)
      PROVE  SInv'
  BY <1>0, <1>1, StepScrolls
<1>2. ASSUME NEW r \in Requests, Forget(r) PROVE SInv'
  BY <1>0, <1>2, RestScrolls DEF Forget
<1>3. ASSUME NEW u \in Users, Expire(u) PROVE SInv'
  BY <1>0, <1>3, RestScrolls DEF Expire, data, Content
<1>4. CASE AllDone \/ UNCHANGED vars
  BY <1>0, <1>4, RestScrolls DEF AllDone, vars, data, Content
<1> QED BY <1>1, <1>2, <1>3, <1>4 DEF Next

(* At the beginning nothing is on the screen.                              *)
LEMMA InitScrolls == Init => SInv
<1> SUFFICES ASSUME Init PROVE SInv
  OBVIOUS
<1>1. /\ scroll.pages = << >> /\ scroll.cursor = 0 /\ ~ scroll.end /\ cached = {}
      /\ \A r \in Requests : /\ got[r].by = None /\ got[r].cursor = 0 /\ out[r] # "ok"
                             /\ pc[r] = (IF call[r] = Idle THEN "end" ELSE "new")
                             /\ status[r] = 0
  BY DEF Init, NewScroll, Unread, None
<1>2. None \notin Requests
  BY BackendAssumption DEF PostIds
<1>3. \A r \in Requests : Fetched(r) /\ ~ Scrolling(r)
  <2> TAKE r \in Requests
  <2>1. pc[r] \in {"new", "end"}
    BY <1>1
  <2> QED BY <1>1, <1>2, <2>1 DEF Fetched, Scrolling
<1>4. Turns
  BY <1>1 DEF Turns, Op, Idle
<1>5. Scrolled
  BY <1>1 DEF Scrolled
<1>6. CachedOwn /\ Held
  BY <1>1, <1>3 DEF CachedOwn, Held
<1> QED BY <1>3, <1>4, <1>5, <1>6, InitEInv, InitBInv DEF SInv

(* The inductive invariant of scrolling.                                   *)
THEOREM ScrollInvariant == Spec => []SInv
  BY InitScrolls, NextScrolls, PTL DEF Spec

(* Whatever is posted, deleted, followed or cached while a client scrolls, *)
(* no post is on two of its pages, and at the end every post that was in   *)
(* the feed all the while is on one - but for one that shares its stamp    *)
(* with the last of a page.                                                *)
THEOREM ScrollsExact == Spec => []ScrollsAreExact
  BY ScrollInvariant, ScrollsTell, PTL
-----------------------------------------------------------------------------
(* Which service a route calls, where its handler is modelled.             *)
AccountRoutes == {"login", "refresh", "deleteMe", "updateProfile", "getMe"}
ContentRoutes ==
  {"createPost", "createReply", "getPost", "deletePost", "getFollowers", "getFollowing"}
    \cup Toggles
Owned(op, h) ==
  /\ op \in AccountRoutes => h.service = "user"
  /\ op \in ContentRoutes => h.service = "content"
  /\ op = "upload" => h.service = "storage"
AllOwned(H) == \A op \in DOMAIN H : Owned(op, H[op])

(* Tables that say so make up a table that does.                           *)
LEMMA OwnedTogether ==
  ASSUME NEW T, \A t \in T : AllOwned(t) PROVE AllOwned(Together(T))
<1> DEFINE H == Together(T)
           Of(op) == CHOOSE t \in T : op \in DOMAIN t
<1>1. H = [op \in UNION {DOMAIN t : t \in T} |-> Of(op)[op]]
  BY DEF Together
<1>2. \A op \in DOMAIN H : H[op] = Of(op)[op] /\ \E t \in T : op \in DOMAIN t
  BY <1>1
<1>3. \A op \in DOMAIN H : Of(op) \in T /\ op \in DOMAIN Of(op)
  BY <1>2
<1> HIDE DEF H, Of
<1>4. AllOwned(H)
  BY <1>2, <1>3 DEF AllOwned
<1> QED  BY <1>4 DEF H

(* Each table of the gateway does.                                         *)
LEMMA RoutesOwned == \A op \in Routes : Owned(op, Handlers[op])
<1> USE DEF AllOwned, Owned, Handler, AccountRoutes, ContentRoutes, Toggles, Adding, Removing
<1>1. AllOwned(PostHandlers)
  BY DEF PostHandlers
<1>2. AllOwned(ReplyHandlers)
  BY DEF ReplyHandlers
<1>3. AllOwned(LikeHandlers)
  BY DEF LikeHandlers
<1>4. AllOwned(BookmarkHandlers)
  BY DEF BookmarkHandlers
<1>5. AllOwned(RepostHandlers)
  BY DEF RepostHandlers
<1>6. AllOwned(FollowHandlers)
  BY DEF FollowHandlers
<1>7. AllOwned(ListHandlers)
  BY DEF ListHandlers
<1>8. AllOwned(SessionHandlers)
  BY DEF SessionHandlers
<1>9. AllOwned(AccountHandlers)
  BY DEF AccountHandlers
<1>10. AllOwned(FeedHandlers)
  BY DEF FeedHandlers
<1>11. AllOwned(NotificationHandlers)
  BY DEF NotificationHandlers
<1>12. AllOwned(StorageHandlers)
  BY DEF StorageHandlers
<1>13. AllOwned(HealthHandlers)
  BY DEF HealthHandlers
<1> HIDE DEF AllOwned, Owned, Handler, AccountRoutes, ContentRoutes, Toggles, Adding, Removing
<1>14. AllOwned(Handlers)
  BY <1>1, <1>2, <1>3, <1>4, <1>5, <1>6, <1>7, <1>8, <1>9, <1>10, <1>11, <1>12, <1>13,
     OwnedTogether DEF Handlers
<1> QED  BY <1>14 DEF AllOwned, Routes

(* The errors a route's RPC maps.                                          *)
LEMMA ErrorsMapped ==
  ASSUME NEW op \in Routes
  PROVE  /\ op \in AccountRoutes => {"denied", "missing", "invalid"} \subseteq DOMAIN Errors(op)
         /\ op \in ContentRoutes => {"missing", "forbidden"} \subseteq DOMAIN Errors(op)
         /\ op = "upload" => "invalid" \in DOMAIN Errors(op)
         /\ Handlers[op].service = "content" /\ op \notin HealthRPCs =>
              "invalid" \in DOMAIN Errors(op)
         /\ Handlers[op].service # "none" => "failed" \in DOMAIN Errors(op)
<1>1. CASE op \in RawRPCs
  BY <1>1 DEF Errors, ContentErrors, RawRPCs, AccountRoutes, ContentRoutes, Toggles, Adding,
              Removing
<1>2. CASE op \in HealthRPCs
  BY <1>2 DEF Errors, RawRPCs, HealthRPCs, AccountRoutes, ContentRoutes, Toggles, Adding,
              Removing
<1>3. CASE op \notin RawRPCs \cup HealthRPCs
  <2> DEFINE k == Handlers[op].service
  <2>1. k \in Services /\ Owned(op, Handlers[op])
    BY RoutesKnown, RoutesOwned DEF Known
  <2>2. Errors(op) = [content |-> ContentErrors, user |-> UserErrors, storage |-> StorageErrors,
                      feed |-> FeedErrors, notification |-> NotificationErrors,
                      none |-> << >>][k]
    BY <1>3 DEF Errors
  <2>3. /\ op \in AccountRoutes => k = "user"
        /\ op \in ContentRoutes => k = "content"
        /\ op = "upload" => k = "storage"
    BY <2>1 DEF Owned
  <2> HIDE DEF k
  <2>4. /\ k = "content" => Errors(op) = ContentErrors
        /\ k = "user" => Errors(op) = UserErrors
        /\ k = "storage" => Errors(op) = StorageErrors
        /\ k = "feed" => Errors(op) = FeedErrors
        /\ k = "notification" => Errors(op) = NotificationErrors
    BY <2>2
  <2>5. /\ {"missing", "forbidden", "invalid", "failed"} \subseteq DOMAIN ContentErrors
        /\ {"denied", "missing", "invalid", "failed"} \subseteq DOMAIN UserErrors
        /\ {"invalid", "failed"} \subseteq DOMAIN StorageErrors
        /\ "failed" \in DOMAIN FeedErrors /\ "failed" \in DOMAIN NotificationErrors
    BY DEF ContentErrors, UserErrors, StorageErrors, FeedErrors, NotificationErrors
  <2>6. k # "none" => "failed" \in DOMAIN Errors(op)
    BY <2>1, <2>4, <2>5 DEF Services
  <2> QED  BY <2>3, <2>4, <2>5, <2>6 DEF k
<1> QED  BY <1>1, <1>2, <1>3

(* A handler returns with success or with one of them.                     *)
Mapped(r) == out[r] \in {None, "ok"} \/ out[r] \in DOMAIN Errors(Op(r))
Ends(r) == \/ out' = out
           \/ \E o : Return(r, o) /\ (o = "ok" \/ o \in DOMAIN Errors(Op(r)))

(* In user-service.                                                        *)
LEMMA UserEnds == ASSUME PInv, NEW r \in Requests, Op(r) \in Routes, UserStep(r) PROVE Ends(r)
<1>1. Op(r) \in AccountRoutes => {"denied", "missing", "invalid"} \subseteq DOMAIN Errors(Op(r))
  BY ErrorsMapped
<1>2. pc[r] \in {"lookup", "issue", "find", "drop", "revoke", "profile", "write", "reread"} =>
        Op(r) \in AccountRoutes
  BY DEF PInv, OnPath, AccountRoutes
<1> USE <1>1, <1>2 DEF At, Ends, Goto
<1>3. CASE FindLogin(r) \/ Issue(r)
  BY <1>3 DEF FindLogin, Issue
<1>4. CASE FindMe(r) \/ Drop(r) \/ Revoke(r)
  BY <1>4 DEF FindMe, Drop, Revoke
<1>5. CASE FindProfile(r) \/ WriteProfile(r) \/ RereadProfile(r)
  BY <1>5 DEF FindProfile, WriteProfile, RereadProfile
<1> QED  BY <1>3, <1>4, <1>5 DEF UserStep

(* In content-service.                                                     *)
LEMMA ContentEnds ==
  ASSUME PInv, NEW r \in Requests, Op(r) \in Routes, ContentStep(r) PROVE Ends(r)
<1>1. Op(r) \in ContentRoutes => {"missing", "forbidden"} \subseteq DOMAIN Errors(Op(r))
  BY ErrorsMapped
<1>2. pc[r] \in {"parent", "insert", "attach", "read", "post", "erase", "mark", "follower",
                 "target", "toggle"} => Op(r) \in ContentRoutes
  BY DEF PInv, OnPath, ContentRoutes, Toggles, Adding, Removing
<1> USE <1>1, <1>2 DEF At, Ends, Goto
<1>3. CASE FindParent(r) \/ Insert(r) \/ Attach(r) \/ ReadBack(r)
  BY <1>3 DEF FindParent, Insert, Attach, ReadBack
<1>4. CASE FindPost(r) \/ Erase(r) \/ MarkMedia(r)
  BY <1>4 DEF FindPost, Erase, MarkMedia
<1>5. CASE FindFollower(r) \/ FindTarget(r) \/ Toggle(r)
  BY <1>5 DEF FindFollower, FindTarget, Toggle
<1> QED  BY <1>3, <1>4, <1>5 DEF ContentStep

(* In every service.                                                       *)
LEMMA StepEnds == ASSUME PInv, NEW r \in Requests, Step(r) PROVE Ends(r)
<1>0. Op(r) \in Routes
  <2>1. pc[r] # "end"
    BY StepLegal DEF Legal
  <2> QED  BY <2>1, CallsProper DEF PInv, Calls, Proper, Op
<1>1. CASE UserStep(r)
  BY <1>0, <1>1, UserEnds
<1>2. CASE ContentStep(r)
  BY <1>0, <1>2, ContentEnds
<1>3. CASE ReadStep(r)
  <2>1. CASE FindUser(r, "me", "exists") \/ FindUser(r, "exists", "own")
    <3>1. Op(r) \in AccountRoutes
      BY <2>1 DEF FindUser, At, PInv, OnPath, AccountRoutes
    <3> QED  BY <1>0, <2>1, <3>1, ErrorsMapped DEF FindUser, Ends, Goto
  <2>2. CASE ReadReplies(r) \/ ReadFollows(r) \/ ReadOwn(r) \/ ReadReposts(r) \/ PreloadPosts(r)
    BY <2>2 DEF ReadReplies, ReadFollows, ReadOwn, ReadReposts, PreloadPosts, Ends, Goto
  <2>3. CASE ReadCache(r) \/ ReadPage(r) \/ Fill(r)
    BY <2>3 DEF ReadCache, ReadPage, Fill, Ends, Goto
  <2> QED  BY <1>3, <2>1, <2>2, <2>3 DEF ReadStep
<1>4. CASE StorageStep(r)
  <2>1. pc[r] = "put" => Op(r) = "upload"
    BY DEF PInv, OnPath
  <2> QED
    BY <1>0, <1>4, <2>1, ErrorsMapped
    DEF StorageStep, RefuseFile, Put, InsertMedia, At, Ends, Goto
<1>5. CASE Elsewhere(r)
  BY <1>5 DEF Elsewhere, Ends
<1>6. CASE Invalid(r) \/ Fail(r)
  BY <1>0, <1>6, ErrorsMapped DEF Invalid, Malformed, Fail, Ends
<1>7. CASE Stop(r)
  BY <1>7 DEF Stop, Ends
<1> QED  BY <1>1, <1>2, <1>3, <1>4, <1>5, <1>6, <1>7 DEF Step
-----------------------------------------------------------------------------
(* What TypeOK says beyond the earlier invariants.                         *)
Told == {0, Cut, 429, 503} \cup 200..204 \cup 400..409 \cup {500}
KindOfCall(r) == Mapped(r) /\ did[r] \in BOOLEAN /\ status[r] \in Told
KindOfTables ==
  /\ alive \subseteq Users /\ signed \subseteq Users
  /\ \A u \in Users, f \in Fields : profile[u][f] \in Requests \cup {None}
  /\ gone \subseteq DOMAIN rows \cap PostIds
  /\ \A r \in Requests : home[r] \in Requests \cup {None}
KInv == SInv /\ KindOfTables /\ \A r \in Requests : KindOfCall(r)

(* The invariant implies the types.                                        *)
LEMMA KindsTell == KInv => TypeOK
<1> SUFFICES ASSUME KInv PROVE TypeOK
  OBVIOUS
<1> USE DEF KInv, SInv, EInv
<1>1. /\ out = [r \in Requests |-> out[r]] /\ did = [r \in Requests |-> did[r]]
      /\ status = [r \in Requests |-> status[r]] /\ home = [r \in Requests |-> home[r]]
  BY DEF PInv, MInv, Functional
<1>2. call \in Offered /\ objects \cup media \subseteq Requests
  BY DEF PInv, Calls, MInv, FileFirst, OfUploads
<1>3. profile \in [Users -> [Fields -> Requests \cup {None}]]
  BY DEF ProfileTyped, KindOfTables
<1>4. did \in [Requests -> BOOLEAN] /\ status \in [Requests -> Told]
  BY <1>1 DEF KindOfCall
<1>5. home \in [Requests -> PostIds \cup {None}]
  BY <1>1 DEF KindOfTables, PostIds
<1>6. cached \subseteq Requests /\ \A r \in cached : got[r].by = r
  BY DEF BInv, CachedOwn
<1>7. DOMAIN out = Requests
  BY <1>1
<1> QED
  BY <1>2, <1>3, <1>4, <1>5, <1>6, <1>7
  DEF TypeOK, BInv, Stamped, KindOfTables, KindOfCall, Mapped, Told

(* The tables.                                                             *)
LEMMA TablesKeepKinds ==
  ASSUME PInv, ProfileTyped, KindOfTables, NEW r \in Requests, Step(r) PROVE KindOfTables'
<1>1. alive' \subseteq alive /\ signed' = signed
  BY NoneRevives DEF Next, Step
<1>2. gone' \subseteq DOMAIN rows' \cap PostIds
  <2>1. CASE Drop(r) \/ WriteProfile(r) \/ Attach(r) \/ InsertMedia(r) \/ UNCHANGED Tables
    BY <2>1 DEF Drop, WriteProfile, Attach, InsertMedia, Commit, Content, Tables, KindOfTables
  <2>2. CASE Insert(r)
    BY <2>2 DEF Insert, Commit, With, KindOfTables
  <2>3. CASE Erase(r)
    BY <2>3 DEF Erase, Mine, Live, Commit, Content, KindOfTables
  <2>4. CASE Toggle(r)
    <3>1. Entry(r) \cap PostIds = {}
      <4>1. Op(r) \in Toggles
        BY <2>4 DEF Toggle, At, PInv, OnPath
      <4> QED  BY <4>1, TogglesProper, BackendAssumption
    <3>2. /\ gone' = gone
          /\ DOMAIN rows' \in {DOMAIN rows, DOMAIN rows \cup Entry(r), DOMAIN rows \ Entry(r)}
      <4>1. CASE Op(r) \in DOMAIN Adding /\ ~ Entry(r) \subseteq DOMAIN rows
        BY <2>4, <4>1 DEF Toggle, Commit, With
      <4>2. CASE Op(r) \in DOMAIN Removing /\ Entry(r) \subseteq DOMAIN rows
        BY <2>4, <4>2, ToggleOps DEF Toggle, Commit, Restrict
      <4>3. CASE /\ ~ (Op(r) \in DOMAIN Adding /\ ~ Entry(r) \subseteq DOMAIN rows)
                 /\ ~ (Op(r) \in DOMAIN Removing /\ Entry(r) \subseteq DOMAIN rows)
        BY <2>4, <4>3 DEF Toggle, Content
      <4> QED  BY <4>1, <4>2, <4>3
    <3> QED  BY <3>1, <3>2 DEF KindOfTables
  <2> QED  BY <2>1, <2>2, <2>3, <2>4, OthersOnlyRead DEF Writes
<1>3. \A u \in Users, f \in Fields : profile'[u][f] \in Requests \cup {None}
  <2>1. CASE WriteProfile(r) /\ profile' # profile
    <3> DEFINE g == [f \in Fields |->
                       IF f \in call[r].with THEN Column(r) ELSE profile[User(r)][f]]
    <3>1. profile' = [profile EXCEPT ![User(r)] = g]
      BY <2>1 DEF WriteProfile
    <3>2. \A u \in Users : profile'[u] = IF u = User(r) THEN g ELSE profile[u]
      BY <3>1 DEF ProfileTyped
    <3>3. Column(r) \in Requests \cup {None}
      BY DEF Column
    <3>4. \A f \in Fields :
            g[f] = IF f \in call[r].with THEN Column(r) ELSE profile[User(r)][f]
      OBVIOUS
    <3>5. \A f \in Fields : User(r) \in Users => g[f] \in Requests \cup {None}
      BY <3>3, <3>4 DEF KindOfTables
    <3> HIDE DEF g
    <3> QED  BY <3>2, <3>5 DEF KindOfTables
  <2>2. CASE profile' = profile
    BY <2>2 DEF KindOfTables
  <2> QED
    BY <2>1, <2>2, OthersOnlyRead
    DEF Writes, Drop, Insert, Attach, Erase, Toggle, InsertMedia, Tables
<1>4. \A s \in Requests : home'[s] \in Requests \cup {None}
  <2>1. CASE Attach(r)
    BY <2>1 DEF Attach, KindOfTables
  <2>2. CASE home' = home
    BY <2>2 DEF KindOfTables
  <2> QED
    BY <2>1, <2>2, OthersOnlyRead
    DEF Writes, Drop, WriteProfile, Insert, Erase, Toggle, InsertMedia, Tables, Files
<1> QED  BY <1>1, <1>2, <1>3, <1>4 DEF KindOfTables, PostIds

(* The calls.                                                              *)
LEMMA CallsKeepKinds ==
  ASSUME PInv, NEW r \in Requests, NEW s \in Requests, KindOfCall(s),
         TurnAway(r) \/ Call(r) \/ Step(r) \/ TimeOut(r) \/ Respond(r)
  PROVE  KindOfCall(s)'
<1>0. /\ out = [t \in Requests |-> out[t]] /\ did = [t \in Requests |-> did[t]]
      /\ status = [t \in Requests |-> status[t]]
  BY DEF PInv, Functional
<1>1. Legal(r)
  BY StepLegal, GatewayLegal
<1>2. PICK x : pc' = [pc EXCEPT ![r] = x]
  BY <1>1 DEF Legal
<1>3. call' = call /\ (did' = did \/ did' = [did EXCEPT ![r] = TRUE]) /\ Marks(r)
  BY <1>1 DEF Legal, Marks
<1>4. DOMAIN Errors(Op(s))' = DOMAIN Errors(Op(s))
  BY <1>3 DEF Op
<1>5. CASE s # r
  BY <1>2, <1>3, <1>4, <1>5, OthersStay DEF KindOfCall, Mapped
<1>6. CASE s = r
  <2>1. did'[r] \in BOOLEAN
    <3>1. did' = [did EXCEPT ![r] = TRUE] => did'[r] = TRUE
      BY <1>0
    <3> QED  BY <1>3, <1>6, <3>1 DEF KindOfCall
  <2>2. CASE Step(r)
    <3>1. status' = status
      BY <2>2 DEF Step
    <3>2. CASE out' = out
      BY <1>4, <1>6, <2>1, <3>1, <3>2 DEF KindOfCall, Mapped
    <3>3. ASSUME NEW o, Return(r, o), o = "ok" \/ o \in DOMAIN Errors(Op(r)) PROVE Mapped(r)'
      <4>1. out'[r] = o
        BY <1>0, <3>3 DEF Return
      <4> QED  BY <1>4, <1>6, <3>3, <4>1 DEF Mapped
    <3> QED  BY <1>6, <2>1, <2>2, <3>1, <3>2, <3>3, StepEnds DEF Ends, KindOfCall
  <2>3. CASE TurnAway(r) \/ Call(r) \/ TimeOut(r) \/ Respond(r)
    <3>1. out' = out
      BY <2>3 DEF TurnAway, Refuse, Call, TimeOut, Respond
    <3>2. \A c : status' = [status EXCEPT ![r] = c] => status'[r] = c
      BY <1>0
    <3>3. status'[r] \in Told
      <4>1. CASE TurnAway(r)
        BY <3>2, <4>1 DEF TurnAway, Refuse, Answer, Told
      <4>2. CASE Call(r)
        BY <1>6, <4>2 DEF Call, KindOfCall
      <4>3. CASE TimeOut(r)
        BY <3>2, <4>3, ErrorStatuses DEF TimeOut, Told
      <4>4. CASE Respond(r)
        <5>1. Op(r) \in Routes
          BY <1>1, CallsProper DEF Legal, PInv, Calls, Proper, Op
        <5>2. Status(Op(r), out[r]) \in {200, 201, 204, 400, 401, 403, 404, 409, 500, 503}
          BY <5>1, RoutesKnown, ErrorStatuses DEF Status, Known
        <5> QED  BY <3>2, <4>4, <5>2 DEF Respond, Answer, Told
      <4> QED  BY <2>3, <4>1, <4>2, <4>3, <4>4
    <3> QED  BY <1>4, <1>6, <2>1, <3>1, <3>3 DEF KindOfCall, Mapped
  <2> QED  BY <2>2, <2>3
<1> QED  BY <1>5, <1>6

(* Every step.                                                             *)
LEMMA StepKinds == KInv /\ [Next]_vars => KInv'
<1> SUFFICES ASSUME KInv, [Next]_vars PROVE KInv'
  OBVIOUS
<1>1. SInv' /\ PInv /\ ProfileTyped
  BY NextScrolls DEF KInv, SInv, EInv
<1>2. ASSUME NEW r \in Requests,
             TurnAway(r) \/ Call(r) \/ Step(r) \/ TimeOut(r) \/ Respond(r)
      PROVE  KInv'
  <2>1. \A s \in Requests : KindOfCall(s)'
    BY <1>1, <1>2, CallsKeepKinds DEF KInv
  <2>2. CASE Step(r)
    BY <1>1, <2>1, <2>2, TablesKeepKinds DEF KInv
  <2>3. CASE TurnAway(r) \/ Call(r) \/ TimeOut(r) \/ Respond(r)
    <3>1. UNCHANGED Tables
      BY <1>1, <2>3, GatewayLasts
    <3>2. signed' \subseteq Users
      <4>1. CASE Respond(r)
        <5>1. User(r) \in Users
          <6>1. pc[r] # "end"
            BY <4>1 DEF Respond, At
          <6> QED  BY <1>1, <6>1, CallsProper DEF PInv, Calls, Proper, User
        <5> QED  BY <4>1, <5>1 DEF Respond, KInv, KindOfTables
      <4>2. CASE ~ Respond(r)
        BY <2>3, <4>2 DEF TurnAway, Refuse, Call, TimeOut, KInv, KindOfTables
      <4> QED  BY <4>1, <4>2
    <3> QED  BY <1>1, <2>1, <3>1, <3>2 DEF KInv, KindOfTables, Tables, PostIds
  <2> QED  BY <1>2, <2>2, <2>3
<1>3. ASSUME UNCHANGED <<call, out, did, status, Tables>>, signed' \subseteq signed PROVE KInv'
  <2>1. \A s \in Requests : KindOfCall(s)'
    <3> TAKE s \in Requests
    <3>1. DOMAIN Errors(Op(s))' = DOMAIN Errors(Op(s))
      BY <1>3 DEF Op
    <3> QED  BY <1>3, <3>1 DEF KInv, KindOfCall, Mapped
  <2> QED  BY <1>1, <1>3, <2>1 DEF KInv, KindOfTables, Tables, PostIds
<1>4. ASSUME NEW r \in Requests, Forget(r) PROVE KInv'
  BY <1>3, <1>4 DEF Forget, Content, Files, Tables
<1>5. ASSUME NEW u \in Users, Expire(u) PROVE KInv'
  BY <1>3, <1>5 DEF Expire, data, Tables
<1>6. CASE AllDone \/ UNCHANGED vars
  BY <1>3, <1>6 DEF AllDone, vars, data, Tables
<1> QED  BY <1>2, <1>4, <1>5, <1>6 DEF Next

(* At the beginning nothing has an outcome.                                *)
LEMMA InitKinds == Init => KInv
<1> SUFFICES ASSUME Init PROVE KInv
  OBVIOUS
<1>1. KindOfTables
  <2>1. OldGone \subseteq DOMAIN OldRows \cap PostIds
    BY BackendAssumption DEF PostIds
  <2> QED  BY <2>1 DEF Init, KindOfTables
<1>2. \A r \in Requests : KindOfCall(r)
  BY DEF Init, KindOfCall, Mapped, Told
<1> QED  BY <1>1, <1>2, InitScrolls DEF KInv

(* The types of the variables; every outcome of a service has an error     *)
(* that its RPC maps, and every answer a status that the gateway has.      *)
THEOREM TypeCorrect == Spec => []TypeOK
  BY InitKinds, StepKinds, KindsTell, PTL DEF Spec
=============================================================================
