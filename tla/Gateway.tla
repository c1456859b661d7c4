------------------------------- MODULE Gateway -------------------------------
(***************************************************************************)
(* The way of a request through the system: rate limiter, AuthMiddleware   *)
(* and binding in the gateway, the call of a service under a deadline, the *)
(* statements of the service, and the translation of its outcome into an   *)
(* HTTP status.  When the deadline passes the client is answered at once   *)
(* while the service, which learns of it later, may go on for a while.     *)
(***************************************************************************)
EXTENDS Routes, AccountService, ContentService, StorageService

CONSTANTS
  Offered,      \* the sets of requests: functions from Requests to calls
  Expiring      \* the users whose access tokens run out meanwhile

VARIABLES
  status,    \* of the HTTP answer, 0 while there is none
  signed,    \* users with an access token that has not expired
  scroll     \* the home feed on the client's screen: pages so far, cursor

vars == <<call, pc, out, did, data, status, signed, scroll>>

Idle == [op |-> "idle", user |-> None, on |-> {}, with |-> {}, flaw |-> None, after |-> {}]
NewScroll == [pages |-> << >>, cursor |-> 0, end |-> FALSE]

(* A request is on one post or one user, and on nothing else; what comes   *)
(* with it are fields of the profile or media.                             *)
Proper(c) ==
  /\ c.op \in Routes /\ c.user \in Users
  /\ c.on \subseteq Users \cup PostIds /\ \A x, y \in c.on : x = y
  /\ c.op = "updateProfile" => c.with \subseteq Fields
  /\ c.op \in {"createPost", "createReply"} => c.with \subseteq Requests

ASSUME OfferedAssumption ==
  \A c \in Offered : \A r \in Requests : c[r] = Idle \/ Proper(c[r])

(* A client asks for a page of the feed when it has the answers to what it *)
(* asked for before.                                                       *)
ASSUME ScrollAssumption ==
  \A c \in Offered : \A r, s \in Requests :
    r # s /\ c[r].op = "homeFeed" /\ c[s].op = "homeFeed" =>
      r \in c[s].after \/ s \in c[r].after

Unread == [cursor |-> 0, by |-> None, own |-> {}, reposts |-> {}, shown |-> {},
           next |-> 0, blank |-> {}, before |-> {}]

Init ==
  /\ call \in Offered
  /\ pc = [r \in Requests |-> IF call[r] = Idle THEN "end" ELSE "new"]
  /\ out = [r \in Requests |-> None]
  /\ did = [r \in Requests |-> FALSE]
  /\ alive = Users /\ signed = Users \cap {User(r) : r \in Requests}
  /\ profile = [u \in Users |-> [f \in Fields |-> None]]
  /\ rows = OldRows /\ gone = OldGone
  /\ objects = {} /\ media = {} /\ home = [r \in Requests |-> None]
  /\ got = [r \in Requests |-> Unread]
  /\ stood = [r \in Requests |-> {}]
  /\ cached = {}
  /\ status = [r \in Requests |-> 0]
  /\ scroll = NewScroll
-----------------------------------------------------------------------------
(* In the gateway, before a service is called.                             *)
Answer(r, s) == status' = [status EXCEPT ![r] = s] /\ pc' = [pc EXCEPT ![r] = "end"]
Refuse(r, s) == Answer(r, s) /\ UNCHANGED <<call, out, did, data, signed, scroll>>

(* A client sends a request when it has the answers to those before it.    *)
Sent(r) == At(r, "new") /\ \A s \in call[r].after : status[s] # 0
Limited(r) == call[r].flaw = "rate" /\ Op(r) \notin Unlimited

(* AuthMiddleware: a token that is well-formed, signed and not expired.    *)
Authorised(r) == Op(r) \in Open \/ User(r) \in signed

Admitted(r) == Sent(r) /\ ~ Limited(r) /\ Authorised(r)

TurnAway(r) ==
  \/ Sent(r) /\ Limited(r) /\ Refuse(r, 429)
  \/ Sent(r) /\ ~ Limited(r) /\ ~ Authorised(r) /\ Refuse(r, 401)
  \/ Admitted(r) /\ call[r].flaw \in Handlers[Op(r)].refuses /\ Refuse(r, 400)

(* The statement a handler begins with; a route whose effects are in other *)
(* modules only has its outcomes here.                                     *)
First(op) ==
  CASE op \in {"login", "refresh"} -> "lookup"
    [] op = "deleteMe"             -> "find"
    [] op = "updateProfile"        -> "profile"
    [] op = "createPost"           -> "insert"
    [] op = "createReply"          -> "parent"
    [] op \in {"getPost", "deletePost"} -> "post"
    [] op \in {"follow", "unfollow"}    -> "follower"
    [] op \in (Toggles \ {"follow", "unfollow"}) \cup {"getFollowers", "getFollowing"} ->
         "target"
    [] op = "getReplies"           -> "replies"
    [] op = "getMe"                -> "me"
    [] op = "homeFeed"             -> "cache"
    [] op = "upload"               -> "put"
    [] OTHER                       -> "elsewhere"

(* A client that has reached the end of its home feed starts again.        *)
Call(r) ==
  /\ Admitted(r) /\ call[r].flaw \notin Handlers[Op(r)].refuses
  /\ pc' = [pc EXCEPT ![r] = First(Op(r))]
  /\ IF Op(r) = "homeFeed"
       THEN LET now == IF scroll.end THEN NewScroll ELSE scroll IN
            scroll' = now /\ got' = [got EXCEPT ![r].cursor = now.cursor]
       ELSE UNCHANGED <<scroll, got>>
  /\ UNCHANGED <<call, out, did, profile, Content, Files, cached, status, signed>>
-----------------------------------------------------------------------------
(* In the services.                                                        *)
InService(r) == pc[r] \notin {"new", "out", "end"}

(* The checks of ids and contents that come before the first statement.    *)
Malformed(r) ==
  /\ pc[r] = First(Op(r)) /\ call[r].flaw = "content"
  /\ Handlers[Op(r)].service = "content" /\ Op(r) \notin HealthRPCs
Invalid(r) ==
  /\ Malformed(r) /\ Return(r, "invalid") /\ NoEffect /\ UNCHANGED data

Elsewhere(r) ==
  /\ At(r, "elsewhere")
  /\ \E o \in {"ok"} \cup DOMAIN Errors(Op(r)) : Return(r, o)
  /\ NoEffect /\ UNCHANGED data

(* A statement fails, or the service dies before it.                       *)
Fail(r) == /\ InService(r) /\ status[r] = 0 /\ Handlers[Op(r)].service # "none"
           /\ Return(r, "failed") /\ NoEffect /\ UNCHANGED data

(* The cancelled handler notices.                                          *)
Stop(r) == /\ status[r] # 0 /\ (InService(r) \/ At(r, "out"))
           /\ pc' = [pc EXCEPT ![r] = "end"] /\ UNCHANGED out /\ NoEffect /\ UNCHANGED data

UserStep(r) ==
  \/ FindLogin(r) \/ Issue(r) \/ FindMe(r) \/ Drop(r) \/ Revoke(r)
  \/ FindProfile(r) \/ WriteProfile(r) \/ RereadProfile(r)
ContentStep(r) ==
  \/ FindParent(r) \/ Insert(r) \/ Attach(r) \/ ReadBack(r)
  \/ FindPost(r) \/ Erase(r) \/ MarkMedia(r)
  \/ FindFollower(r) \/ FindTarget(r) \/ Toggle(r)
ReadStep(r) ==
  \/ ReadReplies(r) \/ ReadFollows(r)
  \/ FindUser(r, "me", "exists") \/ FindUser(r, "exists", "own")
  \/ ReadOwn(r) \/ ReadReposts(r) \/ PreloadPosts(r)
  \/ ReadCache(r) \/ ReadPage(r) \/ Fill(r)
StorageStep(r) == RefuseFile(r) \/ Put(r) \/ InsertMedia(r)

Step(r) == /\ \/ ~ Malformed(r) /\ (UserStep(r) \/ ContentStep(r) \/ ReadStep(r)
                                    \/ StorageStep(r) \/ Elsewhere(r))
              \/ Invalid(r) \/ Fail(r) \/ Stop(r)
           /\ UNCHANGED <<call, status, signed, scroll>>
-----------------------------------------------------------------------------
(* Back in the gateway.                                                    *)
TimeOut(r) ==
  /\ InService(r) \/ At(r, "out")
  /\ status[r] = 0 /\ Op(r) \in DOMAIN Deadline
  /\ status' = [status EXCEPT ![r] = TimeOutStatus(Op(r))]
  /\ UNCHANGED <<call, pc, out, did, data, signed, scroll>>

(* The answer; tokens and pages reach the client with it.                  *)
Respond(r) ==
  /\ At(r, "out") /\ status[r] = 0
  /\ Answer(r, Status(Op(r), out[r]))
  /\ signed' = IF Op(r) \in {"login", "refresh"} /\ out[r] = "ok"
                 THEN signed \cup {User(r)} ELSE signed
  /\ scroll' = IF Op(r) = "homeFeed" /\ out[r] = "ok"
                 THEN [pages  |-> Append(scroll.pages, got[r].by),
                       cursor |-> got[r].next, end |-> got[r].next = 0]
                 ELSE scroll
  /\ UNCHANGED <<call, out, did, data>>

(* The access tokens of a user expire; a page leaves Redis.                *)
Expire(u) == /\ u \in signed \cap Expiring /\ signed' = signed \ {u}
             /\ UNCHANGED <<call, pc, out, did, data, status, scroll>>

Forget(s) == /\ s \in cached /\ cached' = cached \ {s}
             /\ UNCHANGED <<call, pc, out, did, profile, Content, Files, got,
                            status, signed, scroll>>

AllDone == (\A r \in Requests : At(r, "end")) /\ UNCHANGED vars

Next ==
  \/ \E r \in Requests : \/ TurnAway(r) \/ Call(r)
                         \/ Step(r) \/ TimeOut(r) \/ Respond(r) \/ Forget(r)
  \/ \E u \in Users : Expire(u)
  \/ AllDone

Spec == Init /\ [][Next]_vars
-----------------------------------------------------------------------------
(* The types.  What a service ends in is a success or one of the errors    *)
(* its RPC maps, and so has a status in the gateway.                       *)
TypeOK ==
  /\ call \in Offered
  /\ DOMAIN out = Requests
  /\ \A r \in Requests : out[r] \in {None, "ok"} \/ out[r] \in DOMAIN Errors(Op(r))
  /\ did \in [Requests -> BOOLEAN]
  /\ status \in [Requests -> {0, Cut, 429, 503} \cup 200..204 \cup 400..409 \cup {500}]
  /\ alive \subseteq Users /\ signed \subseteq Users
  /\ profile \in [Users -> [Fields -> Requests \cup {None}]]
  /\ \A i \in DOMAIN rows : rows[i] \in Stamps
  /\ gone \subseteq DOMAIN rows \cap PostIds
  /\ objects \cup media \subseteq Requests /\ home \in [Requests -> PostIds \cup {None}]
  /\ cached \subseteq Requests /\ \A r \in cached : got[r].by = r

(* What is left of what a request was to achieve, and who took it back.    *)
Opposite(r, s) ==
  /\ {Op(r), Op(s)} \subseteq Toggles /\ Entry(r) = Entry(s)
  /\ (Op(r) \in DOMAIN Adding) # (Op(s) \in DOMAIN Adding)
Undoes(s, r) ==
  /\ did[s]
  /\ \/ Op(s) = "deletePost" /\ call[s].on = {r}
     \/ Op(s) = "deleteMe" /\ User(s) = User(r) /\ Op(r) = "updateProfile"
     \/ Opposite(r, s)
Overwritten(r, f) ==
  \E s \in Requests \ {r} : did[s] /\ Op(s) = "updateProfile" /\ User(s) = User(r)
                            /\ f \in call[s].with
Stands(r) ==
  CASE Op(r) \in {"createPost", "createReply"} ->
         r \in Live(rows, gone) /\ \A m \in call[r].with : home[m] = r
    [] Op(r) = "deletePost"        -> call[r].on \subseteq gone
    [] Op(r) \in DOMAIN Adding     -> Entry(r) \subseteq DOMAIN rows
    [] Op(r) \in DOMAIN Removing   -> Entry(r) \cap DOMAIN rows = {}
    [] Op(r) = "deleteMe"          -> User(r) \notin alive
    [] Op(r) = "upload"            -> r \in media
    [] Op(r) = "updateProfile"     -> \A f \in call[r].with :
                                        profile[User(r)][f] = Column(r) \/ Overwritten(r, f)
    [] OTHER                       -> TRUE

(* What the client is told is what happened: a success stands for as long  *)
(* as nobody takes it back, and a refusal has left nothing behind - but    *)
(* for the post whose media were refused after it was inserted.  Only a 5xx*)
(* answer, or none, leaves the client in doubt (handlers, HandleGRPCError, *)
(* the error tables and the order of the statements together).             *)
AnswersTellEffects ==
  \A r \in Requests : Op(r) # "idle" =>
    \/ \E s \in Requests : Undoes(s, r)
    \/ /\ status[r] \in 200..299 => Stands(r)
       /\ status[r] \in 400..499 =>
            ~ did[r] \/ (out[r] = "forbidden" /\ call[r].with # {})

(* Nothing of the user's is under way: calls not admitted or answered,     *)
(* logins that have still to find the account, or have failed to, and what *)
(* needs no token.                                                         *)
Harmless(r) ==
  \/ pc[r] \in {"new", "end", "lookup"}
  \/ Op(r) \in Open \ {"login", "refresh"}
  \/ Op(r) \in {"login", "refresh"} /\ At(r, "out") /\ out[r] # "ok"
Quiet(u) == /\ u \notin alive /\ u \notin signed
            /\ \A r \in Requests : User(r) = u => Harmless(r)

(* A deleted account can act for as long as an access token lives or a     *)
(* call is under way; once that is over it never comes back and nothing is *)
(* done in its name any more (AuthMiddleware, Login, DeleteUser).          *)
GoneForGood ==
  [][\A u \in Users : Quiet(u) =>
       /\ Quiet(u)'
       /\ \A r \in Requests : User(r) = u => did'[r] = did[r]]_vars

(* A row of media always has its file in the bucket.  A file without a row *)
(* belongs to an upload that was not reported a success, and no post shows *)
(* it: UploadMedia writes the file first.                                  *)
ObjectsAccounted ==
  /\ media \subseteq objects
  /\ \A r \in objects \ media : status[r] # 201 /\ home[r] = None

(* The pages a client scrolls through never show a post twice, and in the  *)
(* end they hold every post that was in the feed while all of them were    *)
(* read - except one that shares its created_at with the last post of a    *)
(* page, which the cursor skips (FindHomeFeed).                            *)
PagesShown == {got[scroll.pages[i]] : i \in DOMAIN scroll.pages}
ScrollsAreExact ==
  /\ \A i, j \in DOMAIN scroll.pages : i # j =>
       got[scroll.pages[i]].shown \cap got[scroll.pages[j]].shown = {}
  /\ scroll.end =>
       \A p \in Live(rows, gone) :
         (\A i \in DOMAIN scroll.pages : p \in stood[scroll.pages[i]]) =>
           \E page \in PagesShown : \/ <<p, rows[p]>> \in page.shown
                                    \/ page.next = rows[p]

(* The answer to a list call holds the newest items (the oldest, for       *)
(* replies): what was there all the while and is left out is not better    *)
(* than anything shown, and the answer is full.  A blank repost is one     *)
(* whose post was deleted during the call (FindUserTimeline, FindReplies,  *)
(* GetFollowers, GetFollowing).                                            *)
Outranks(r, t1, t2) == IF Op(r) = "getReplies" THEN t1 < t2 ELSE t1 > t2
TimelinesAreNewest ==
  \A r \in Requests :
    Op(r) \in {"getMe", "getReplies", "getFollowers", "getFollowing"} /\ out[r] = "ok" =>
      /\ \A i \in stood[r] : <<i, rows[i]>> \notin got[r].shown =>
           /\ Cardinality(got[r].shown) = PageSize
           /\ \A e \in got[r].shown : ~ Outranks(r, rows[i], Stamp(e))
      /\ \A e \in got[r].blank : e[1][3] \notin got[r].before
=============================================================================
