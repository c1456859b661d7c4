------------------------------- MODULE Backends -------------------------------
(***************************************************************************)
(* The services as the gateway meets them: what the handlers of a request  *)
(* read and write, statement by statement.  Locks, counters, events and    *)
(* sessions have modules of their own (Interactions, Follows, Posts,       *)
(* EventBus, Sessions); here a toggle is the one step InteractionStore     *)
(* promises, and a login ends in an access token.                          *)
(*                                                                         *)
(* A row of posts, follows, likes, bookmarks and reposts is known by its   *)
(* item: a post by the request that made it, the others as <<kind, user,   *)
(* target>>.  created_at is the clock of whichever process makes the row,  *)
(* before the row is there for others to see: any stamp is possible.       *)
(***************************************************************************)
EXTENDS Reads, Sequences, Functions

CONSTANTS Requests, Users,
          Stamps,       \* values of created_at
          Limit,        \* the limit every client asks for (in GetMe, the fixed 20)
          Fields,       \* columns of the profile
          OldPosts, OldAuthor, OldParent,
          OldRows,      \* item -> created_at of the rows made before
          OldGone       \* those among OldPosts that are deleted

None == "none"
PostIds == OldPosts \cup Requests
Items == {"like", "bookmark", "repost", "follow"} \X Users \X (Users \cup PostIds)

ASSUME BackendAssumption ==
  /\ Stamps \subseteq Nat \ {0} /\ Stamps # {} /\ Limit \in Nat
  /\ OldAuthor \in [OldPosts -> Users] /\ OldParent \in [OldPosts -> OldPosts \cup {None}]
  /\ OldPosts \subseteq DOMAIN OldRows /\ OldGone \subseteq OldPosts
  /\ OldPosts \cap Requests = {} /\ None \notin PostIds
  /\ IsFiniteSet(DOMAIN OldRows) /\ \A i \in DOMAIN OldRows : OldRows[i] \in Stamps
  /\ PostIds \cap Items = {}

VARIABLES
  call,      \* route, user, what it is on, what comes with it, what is wrong
             \* with it, and the requests its client waits for first
  pc,        \* "new", the statement its handler is at, "out", "end"
  out,       \* the outcome of the service
  did,       \* whether a statement of it has changed the database
  alive,     \* users whose deleted_at is NULL
  profile,   \* profile[u][f]: the request that wrote it
  rows,      \* item -> created_at
  gone,      \* posts whose deleted_at is set
  objects,   \* keys in the bucket, named by the upload
  media,     \* rows of media, likewise
  home,      \* media.post_id
  got,       \* what a reading call has read
  stood,     \* what has been there for it ever since
  cached     \* the requests whose pages of the home feed are in Redis

data == <<rows, gone, alive, stood, profile, objects, media, home, got, cached>>

Op(r) == call[r].op
User(r) == call[r].user
At(r, label) == pc[r] = label
Goto(r, label) == pc' = [pc EXCEPT ![r] = label] /\ UNCHANGED out
Return(r, o) == pc' = [pc EXCEPT ![r] = "out"] /\ out' = [out EXCEPT ![r] = o]
Effect(r) == did' = [did EXCEPT ![r] = TRUE]
NoEffect == UNCHANGED did
-----------------------------------------------------------------------------
(* Who wrote a post, and below which one.                                  *)
AuthorOf(p) == IF p \in OldPosts THEN OldAuthor[p] ELSE User(p)
ParentOf(p) == IF p \in OldPosts THEN OldParent[p]
               ELSE IF Op(p) = "createPost" THEN None ELSE CHOOSE q \in call[p].on : TRUE

Live(R, G) == (DOMAIN R \cap PostIds) \ G

(* The rows each of the queries is about.                                  *)
HomeItems(u, R, G) ==
  {p \in Live(R, G) : /\ ParentOf(p) = None
                      /\ AuthorOf(p) = u \/ <<"follow", u, AuthorOf(p)>> \in DOMAIN R}
OwnItems(u, R, G) == {p \in Live(R, G) : AuthorOf(p) = u}

RepostItems(u, R, G) == DOMAIN R \cap {<<"repost", u, p>> : p \in Live(R, G)}
ReplyItems(ps, R, G) == {p \in Live(R, G) : ParentOf(p) \in ps}

(* Those who follow, and whom us follow; the deleted ones are left out.    *)
FollowerItems(us, R, A) == DOMAIN R \cap {<<"follow", v, u>> : v \in A, u \in us}
FollowingItems(us, R, A) == DOMAIN R \cap {<<"follow", u, v>> : v \in A, u \in us}
Entries(S) == {<<i, rows[i]>> : i \in S}

Visible(r, R, G, A) ==
  CASE Op(r) = "homeFeed"     -> HomeItems(User(r), R, G)
    [] Op(r) = "getMe"        -> OwnItems(User(r), R, G) \cup RepostItems(User(r), R, G)
    [] Op(r) = "getReplies"   -> ReplyItems(call[r].on, R, G)
    [] Op(r) = "getFollowers" -> FollowerItems(call[r].on, R, A)
    [] Op(r) = "getFollowing" -> FollowingItems(call[r].on, R, A)
    [] OTHER                  -> {}

(* The rows R, and one for each item of S that has none.                   *)
With(R, S, t) == [i \in DOMAIN R \cup S |-> IF i \in DOMAIN R THEN R[i] ELSE t]

(* A commit to the tables above takes what it hides from stood.            *)
Commit(R, G, A) ==
  /\ rows' = R /\ gone' = G /\ alive' = A
  /\ stood' = [r \in Requests |-> stood[r] \cap Visible(r, R, G, A)]
Content == <<rows, gone, alive, stood>>
Files == <<objects, media, home>>
Reading == <<got, cached>>
=============================================================================
