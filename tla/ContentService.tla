---------------------------- MODULE ContentService ----------------------------
(***************************************************************************)
(* content-service and the query of feed-service: posts, replies, the      *)
(* toggles, and the calls that read lists.                                 *)
(***************************************************************************)
EXTENDS Backends

PageSize == NormalizeLimit(Limit)
-----------------------------------------------------------------------------
(* CreatePost: INSERT, UPDATE media, SELECT.  CreateReply looks its parent *)
(* up before that; counting the reply is in Posts.                         *)
FindParent(r) ==
  /\ At(r, "parent")
  /\ IF call[r].on \subseteq Live(rows, gone) THEN Goto(r, "insert") ELSE Return(r, "missing")
  /\ NoEffect /\ UNCHANGED data

Insert(r) ==
  /\ At(r, "insert") /\ Effect(r)
  /\ \E t \in Stamps : Commit(With(rows, {r}, t), gone, alive)
  /\ Goto(r, IF call[r].with = {} THEN "read" ELSE "attach")
  /\ UNCHANGED <<profile, Files, Reading>>

(* The media that exist, are the author's and free.  Attaching fewer than  *)
(* were named is an error; the post and what was attached stay.            *)
Free(r) == {m \in call[r].with \cap media : User(m) = User(r) /\ home[m] = None}

Attach(r) ==
  /\ At(r, "attach") /\ NoEffect
  /\ home' = [m \in Requests |-> IF m \in Free(r) THEN r ELSE home[m]]
  /\ IF Free(r) = call[r].with THEN Goto(r, "read") ELSE Return(r, "forbidden")
  /\ UNCHANGED <<profile, Content, objects, media, Reading>>

ReadBack(r) ==
  /\ At(r, "read")
  /\ Return(r, IF r \in Live(rows, gone) THEN "ok" ELSE "missing")
  /\ NoEffect /\ UNCHANGED data

(* GetPost, and the first statement of DeletePost.                         *)
FindPost(r) ==
  /\ At(r, "post")
  /\ IF ~ call[r].on \subseteq Live(rows, gone) THEN Return(r, "missing")
     ELSE IF Op(r) = "getPost" THEN Return(r, "ok") ELSE Goto(r, "erase")
  /\ NoEffect /\ UNCHANGED data

(* DeleteOwnPost: the row of posts and then those of media, whose status   *)
(* is in Posts.                                                            *)
Mine(r) == {p \in call[r].on \cap Live(rows, gone) : AuthorOf(p) = User(r)}

Erase(r) ==
  /\ At(r, "erase")
  /\ \/ Mine(r) # {} /\ Commit(rows, gone \cup Mine(r), alive) /\ Effect(r) /\ Goto(r, "mark")
     \/ Mine(r) = {} /\ Return(r, "missing") /\ NoEffect /\ UNCHANGED Content
  /\ UNCHANGED <<profile, Files, Reading>>

MarkMedia(r) == At(r, "mark") /\ Return(r, "ok") /\ NoEffect /\ UNCHANGED data
-----------------------------------------------------------------------------
(* Likes, bookmarks, reposts and follows.                                  *)
Adding == [like |-> "like", bookmark |-> "bookmark", repost |-> "repost", follow |-> "follow"]
Removing == [unlike |-> "like", unbookmark |-> "bookmark", unrepost |-> "repost",
             unfollow |-> "follow"]
KindOf(op) == IF op \in DOMAIN Adding THEN Adding[op] ELSE Removing[op]
Toggles == DOMAIN Adding \cup DOMAIN Removing
Entry(r) == {<<KindOf(Op(r)), User(r), x>> : x \in call[r].on}

(* Follows and the lists of them look at users, the others at the post and *)
(* not at who asks.                                                        *)
FindFollower(r) ==
  /\ At(r, "follower")
  /\ IF User(r) \in alive THEN Goto(r, "target") ELSE Return(r, "missing")
  /\ NoEffect /\ UNCHANGED data

AboutUsers == {"follow", "unfollow", "getFollowers", "getFollowing"}

FindTarget(r) ==
  /\ At(r, "target")
  /\ IF ~ call[r].on \subseteq (IF Op(r) \in AboutUsers THEN alive ELSE Live(rows, gone))
       THEN Return(r, "missing")
       ELSE Goto(r, IF Op(r) \in Toggles THEN "toggle" ELSE "list")
  /\ NoEffect /\ UNCHANGED data

(* The stamps of likes and bookmarks are never compared.                   *)
StampsOf(kind) == IF kind \in {"repost", "follow"} THEN Stamps ELSE {Min(Stamps)}

Toggle(r) ==
  LET there == Entry(r) \subseteq DOMAIN rows IN
  /\ At(r, "toggle") /\ Return(r, "ok")
  /\ CASE Op(r) \in DOMAIN Adding /\ ~ there ->
            /\ \E t \in StampsOf(KindOf(Op(r))) : Commit(With(rows, Entry(r), t), gone, alive)
            /\ Effect(r)
       [] Op(r) \in DOMAIN Removing /\ there ->
            /\ Commit(Restrict(rows, DOMAIN rows \ Entry(r)), gone, alive)
            /\ Effect(r)
       [] OTHER -> NoEffect /\ UNCHANGED Content
  /\ UNCHANGED <<profile, Files, Reading>>
-----------------------------------------------------------------------------
(* Reading: what is visible when the (first) query runs is remembered in   *)
(* stood, for the properties only.                                         *)
Remember(r) == stood' = [stood EXCEPT ![r] = Visible(r, rows, gone, alive)]

ReadReplies(r) ==
  /\ At(r, "replies") /\ Return(r, "ok") /\ Remember(r) /\ NoEffect
  /\ \E T \in Oldest(Entries(ReplyItems(call[r].on, rows, gone)), PageSize) :
       got' = [got EXCEPT ![r].shown = T]
  /\ UNCHANGED <<rows, gone, alive, profile, Files, cached>>

(* GetFollowers, GetFollowing.                                             *)
ReadFollows(r) ==
  /\ At(r, "list") /\ Return(r, "ok") /\ Remember(r) /\ NoEffect
  /\ \E T \in Newest(Entries(Visible(r, rows, gone, alive)), PageSize) :
       got' = [got EXCEPT ![r].shown = T]
  /\ UNCHANGED <<rows, gone, alive, profile, Files, cached>>

(* GetMe of the gateway: FindByID in user-service, and then in             *)
(* content-service the user again, the posts, the reposts joined with      *)
(* their posts, and those posts once more (Preload), which may be deleted  *)
(* by then and are blank in the answer.                                    *)
FindUser(r, here, next) ==
  /\ At(r, here)
  /\ IF User(r) \in alive THEN Goto(r, next) ELSE Return(r, "missing")
  /\ NoEffect /\ UNCHANGED data

ReadOwn(r) ==
  /\ At(r, "own") /\ Goto(r, "reposts") /\ Remember(r) /\ NoEffect
  /\ \E T \in Newest(Entries(OwnItems(User(r), rows, gone)), PageSize) :
       got' = [got EXCEPT ![r].own = T, ![r].before = gone]
  /\ UNCHANGED <<rows, gone, alive, profile, Files, cached>>

ReadReposts(r) ==
  /\ At(r, "reposts") /\ Goto(r, "preload") /\ NoEffect
  /\ \E T \in Newest(Entries(RepostItems(User(r), rows, gone)), PageSize) :
       got' = [got EXCEPT ![r].reposts = T]
  /\ UNCHANGED <<profile, Content, Files, cached>>

Blank(T) == {e \in T : e[1] \notin PostIds /\ e[1][3] \in gone}

PreloadPosts(r) ==
  /\ At(r, "preload") /\ Return(r, "ok") /\ NoEffect
  /\ \E T \in Merged(got[r].own, got[r].reposts, PageSize) :
       got' = [got EXCEPT ![r].shown = T, ![r].blank = Blank(T \cap got[r].reposts)]
  /\ UNCHANGED <<profile, Content, Files, cached>>
-----------------------------------------------------------------------------
(* GetHomeFeed: the page under this user's cursor in Redis, or the query   *)
(* and then SET; see FeedCache for what invalidates a page.                *)
SamePage(r, s) == User(s) = User(r) /\ got[s].cursor = got[r].cursor

ReadCache(r) ==
  /\ At(r, "cache") /\ NoEffect
  /\ \/ \E s \in cached : /\ SamePage(r, s) /\ got' = [got EXCEPT ![r] = got[s]]
                          /\ Return(r, "ok")
     \/ Goto(r, "page") /\ UNCHANGED got
  /\ UNCHANGED <<profile, Content, Files, cached>>

ReadPage(r) ==
  /\ At(r, "page") /\ Goto(r, "fill") /\ Remember(r) /\ NoEffect
  /\ \E page \in Pages(Entries(HomeItems(User(r), rows, gone)), PageSize, got[r].cursor) :
       got' = [got EXCEPT ![r].by = r, ![r].shown = page.shown, ![r].next = page.next]
  /\ UNCHANGED <<rows, gone, alive, profile, Files, cached>>

Fill(r) ==
  /\ At(r, "fill") /\ Return(r, "ok") /\ NoEffect
  /\ \/ cached' = {s \in cached : ~ SamePage(r, s)} \cup {r}
     \/ UNCHANGED cached
  /\ UNCHANGED <<profile, Content, Files, got>>
=============================================================================
