-------------------------------- MODULE Posts --------------------------------
(***************************************************************************)
(* Posts, replies and media of content-service: CreatePost, CreateReply,   *)
(* UpdatePost and DeletePost, statement by statement.  Only UpdatePost's   *)
(* change of media (ReplacePostMedia) is a transaction; everything else is *)
(* one commit per statement, and a call may break off between any two.     *)
(*                                                                         *)
(* A post is named after the call that creates it.  UPDATE media finds its *)
(* rows in the snapshot it starts with, waits for the locked ones among    *)
(* them and looks at them again; the two halves are states of their own.   *)
(***************************************************************************)
EXTENDS Integers, FiniteSets

CONSTANTS Requests, Users, Media,
          Ops,          \* the operations in play
          Uploader,     \* media.uploader_id
          Old,          \* posts made before
          OldAuthor,
          OldHome       \* the posts the media are attached to at the start

None == "none"
Posts == Old \cup Requests

ASSUME PostAssumption ==
  /\ Ops \subseteq {"create", "reply", "update", "delete"}
  /\ Uploader \in [Media -> Users] /\ OldAuthor \in [Old -> Users]
  /\ OldHome \in [Media -> Old \cup {None}] /\ Old \cap Requests = {} /\ None \notin Posts
  /\ \A m \in Media : OldHome[m] # None => Uploader[m] = OldAuthor[OldHome[m]]

ASSUME FiniteAssumption == IsFiniteSet(Requests)

VARIABLES
  call,      \* op, user, the post it is about, the media ids
  pc,        \* the statement the handler is at
  answer,    \* "none", "ok", "error"
  born,      \* rows of posts
  live,      \* those whose deleted_at is NULL
  replies,   \* reply_count
  home,      \* media.post_id
  status,    \* media.status
  seen,      \* seen[r]: the rows in the snapshot of its UPDATE media
  off,       \* off[r]: rows its transaction has detached
  on,        \* on[r]: rows its transaction has attached
  joined,    \* joined[r]: calls that attached media to its post meanwhile
  racing     \* racing[p]: calls past their check of p when it was deleted

vars == <<call, pc, answer, born, live, replies, home, status, seen, off, on, joined, racing>>
media == <<home, status, seen, off, on, joined>>

Goto(r, label) == pc' = [pc EXCEPT ![r] = label] /\ UNCHANGED answer
Answer(r, what) == pc' = [pc EXCEPT ![r] = "done"] /\ answer' = [answer EXCEPT ![r] = what]

AuthorOf(p) == IF p \in Old THEN OldAuthor[p] ELSE call[p].user
(* The post whose media the call writes.                                   *)
Target(r) == IF call[r].op \in {"create", "reply"} THEN r ELSE call[r].post
Nothing == [op |-> "nothing", post |-> None, media |-> {}]
-----------------------------------------------------------------------------
Init ==
  /\ call = [r \in Requests |-> Nothing]
  /\ pc = [r \in Requests |-> "idle"]
  /\ answer = [r \in Requests |-> "none"]
  /\ born = Old /\ live = Old
  /\ replies = [p \in Posts |-> 0]
  /\ home = OldHome
  /\ status = [m \in Media |-> IF OldHome[m] = None THEN "uploaded" ELSE "attached"]
  /\ seen = [r \in Requests |-> {}]
  /\ off = [r \in Requests |-> {}]
  /\ on = [r \in Requests |-> {}]
  /\ joined = [r \in Requests |-> {}]
  /\ racing = [p \in Posts |-> {}]

(* A request comes in; the posts one can name are those there are.         *)
Begin(r) ==
  /\ pc[r] = "idle"
  /\ \E op \in Ops, u \in Users, p \in born \cup {None}, ms \in SUBSET Media :
       /\ (p = None) <=> (op = "create")
       /\ op = "delete" => ms = {}
       /\ call' = [call EXCEPT ![r] = [op |-> op, user |-> u, post |-> p, media |-> ms]]
       /\ Goto(r, CASE op = "create" -> "insert"
                    [] op = "update" -> "update"
                    [] OTHER -> "find")
  /\ UNCHANGED <<born, live, replies, media, racing>>

(* FindByID of the parent, and of the post to delete.                      *)
Find(r) ==
  /\ pc[r] = "find"
  /\ IF call[r].post \in live
       THEN Goto(r, IF call[r].op = "reply" THEN "insert" ELSE "erase")
       ELSE Answer(r, "error")
  /\ UNCHANGED <<call, born, live, replies, media, racing>>

AttachOr(r, next) == IF call[r].media = {} THEN next ELSE "attach"

Insert(r) ==
  /\ pc[r] = "insert"
  /\ born' = born \cup {r} /\ live' = live \cup {r}
  /\ Goto(r, IF call[r].op = "reply" THEN "count" ELSE AttachOr(r, "read"))
  /\ UNCHANGED <<call, replies, media, racing>>

(* Mutant: the parent's count is computed from the row read before. *)
CountReplyStale(r) ==
  /\ pc[r] = "count"
  /\ replies' = IF call[r].post \in live
                  THEN [replies EXCEPT ![call[r].post] = 1] ELSE replies
  /\ Goto(r, AttachOr(r, "read"))
  /\ UNCHANGED <<call, born, live, media, racing>>

(* IncrementReplyCount matches no deleted post, which is no error.  The    *)
(* reply.created event goes out here, before the media are attached.       *)
CountReply(r) ==
  /\ pc[r] = "count"
  /\ replies' = IF call[r].post \in live
                  THEN [replies EXCEPT ![call[r].post] = @ + 1] ELSE replies
  /\ Goto(r, AttachOr(r, "read"))
  /\ UNCHANGED <<call, born, live, media, racing>>

(* Mutant: anybody's post will do. *)
UpdateAnyPost(r) ==
  /\ pc[r] = "update"
  /\ IF call[r].post \in live THEN Goto(r, "reread") ELSE Answer(r, "error")
  /\ UNCHANGED <<call, born, live, replies, media, racing>>

(* UpdateOwnPost: id, author and deleted_at IS NULL, and then FindByID.    *)
UpdateRow(r) ==
  /\ pc[r] = "update"
  /\ IF call[r].post \in live /\ AuthorOf(call[r].post) = call[r].user
       THEN Goto(r, "reread") ELSE Answer(r, "error")
  /\ UNCHANGED <<call, born, live, replies, media, racing>>

Reread(r) ==
  /\ pc[r] = "reread"
  /\ IF call[r].post \in live THEN Goto(r, "detach") ELSE Answer(r, "error")
  /\ UNCHANGED <<call, born, live, replies, media, racing>>
-----------------------------------------------------------------------------
(* The three UPDATEs of media: their WHERE clauses ...                     *)
Home(r, m) == IF m \in off[r] THEN None ELSE home[m]    \* as r sees it
Attached(r) == {m \in Media : home[m] = call[r].post}
Mine(r) == {m \in Attached(r) : Uploader[m] = call[r].user}

(* Mutant: a media of another post will do. *)
FreeOrStolen(r) == {m \in call[r].media : Uploader[m] = call[r].user}

Free(r) == {m \in call[r].media : Uploader[m] = call[r].user
                                   /\ Home(r, m) \in {None, Target(r)}}

(* ... the start of each, which takes the snapshot ...                     *)
StartUpdate(r, from, to, rows) ==
  /\ pc[r] = from /\ Goto(r, to)
  /\ seen' = [seen EXCEPT ![r] = rows]
  /\ joined' = IF from = "detach" THEN [joined EXCEPT ![r] = {}] ELSE joined
  /\ UNCHANGED <<call, born, live, replies, home, status, off, on, racing>>

StartMedia(r) == \/ StartUpdate(r, "detach", "detaching", Mine(r))
                 \/ StartUpdate(r, "attach", "attaching", Free(r))
                 \/ StartUpdate(r, "sweep", "sweeping", Attached(r))

(* ... and the rest, which must wait for rows other transactions hold.     *)
Unlocked(r) == \A s \in Requests \ {r} : (off[s] \cup on[s]) \cap seen[r] = {}

Join(r) == joined' = [s \in Requests |->
  IF s # r /\ call[s].op = "update" /\ call[s].post = Target(r)
    THEN joined[s] \cup {r} ELSE joined[s]]

(* Mutants: detaching commits at once; the old media stay. *)
DetachAtOnce(r) ==
  /\ pc[r] = "detaching" /\ Unlocked(r)
  /\ home' = [m \in Media |-> IF m \in seen[r] \cap Mine(r) THEN None ELSE home[m]]
  /\ status' = [m \in Media |-> IF m \in seen[r] \cap Mine(r) THEN "uploaded" ELSE status[m]]
  /\ Goto(r, AttachOr(r, "commit"))
  /\ UNCHANGED <<call, born, live, replies, seen, off, on, joined, racing>>

DetachNothing(r) ==
  /\ pc[r] = "detaching" /\ Unlocked(r)
  /\ Goto(r, AttachOr(r, "commit"))
  /\ UNCHANGED <<call, born, live, replies, media, racing>>

Detach(r) ==
  /\ pc[r] = "detaching" /\ Unlocked(r)
  /\ off' = [off EXCEPT ![r] = seen[r] \cap Mine(r)]
  /\ Goto(r, AttachOr(r, "commit"))
  /\ UNCHANGED <<call, born, live, replies, home, status, seen, on, joined, racing>>

(* AttachMediaToPost on its own: what it attached stays attached though    *)
(* the call fails with ErrForbidden because the count is short.            *)
Attach(r) ==
  /\ pc[r] = "attaching" /\ call[r].op # "update" /\ Unlocked(r)
  /\ LET got == seen[r] \cap Free(r) IN
     /\ home' = [m \in Media |-> IF m \in got THEN r ELSE home[m]]
     /\ status' = [m \in Media |-> IF m \in got THEN "attached" ELSE status[m]]
     /\ IF got = call[r].media THEN Goto(r, "read") ELSE Answer(r, "error")
  /\ Join(r)
  /\ UNCHANGED <<call, born, live, replies, seen, off, on, racing>>

(* The same in ReplacePostMedia: a short count rolls back.                 *)
AttachInTransaction(r) ==
  /\ pc[r] = "attaching" /\ call[r].op = "update" /\ Unlocked(r)
  /\ IF seen[r] \cap Free(r) = call[r].media
       THEN on' = [on EXCEPT ![r] = call[r].media] /\ Goto(r, "commit") /\ UNCHANGED off
       ELSE off' = [off EXCEPT ![r] = {}] /\ Answer(r, "error") /\ UNCHANGED on
  /\ UNCHANGED <<call, born, live, replies, home, status, seen, joined, racing>>

Commit(r) ==
  /\ pc[r] = "commit"
  /\ home' = [m \in Media |-> IF m \in on[r] THEN call[r].post ELSE Home(r, m)]
  /\ status' = [m \in Media |-> IF m \in on[r] THEN "attached"
                                 ELSE IF m \in off[r] THEN "uploaded" ELSE status[m]]
  /\ off' = [off EXCEPT ![r] = {}] /\ on' = [on EXCEPT ![r] = {}]
  /\ Goto(r, "read") /\ Join(r)
  /\ UNCHANGED <<call, born, live, replies, seen, racing>>

(* The final FindByID; then the event, which changes nothing here.         *)
Read(r) ==
  /\ pc[r] = "read"
  /\ IF Target(r) \in live THEN Answer(r, "ok") ELSE Answer(r, "error")
  /\ UNCHANGED <<call, born, live, replies, media, racing>>
-----------------------------------------------------------------------------
(* DeleteOwnPost, first statement; then the one that deletes the media.    *)
Erase(r) ==
  /\ pc[r] = "erase"
  /\ LET p == call[r].post IN
     IF p \in live /\ AuthorOf(p) = call[r].user
       THEN /\ live' = live \ {p}
            /\ racing' = [racing EXCEPT ![p] =
                 {s \in Requests : Target(s) = p
                    /\ pc[s] \in {"count", "detach", "detaching", "attach", "attaching", "commit"}}]
            /\ Goto(r, "sweep")
       ELSE Answer(r, "error") /\ UNCHANGED <<live, racing>>
  /\ UNCHANGED <<call, born, replies, media>>

(* Mutant: the media are left alone. *)
SweepNothing(r) ==
  /\ pc[r] = "sweeping" /\ Unlocked(r)
  /\ Answer(r, "ok")
  /\ UNCHANGED <<call, born, live, replies, media, racing>>

Sweep(r) ==
  /\ pc[r] = "sweeping" /\ Unlocked(r)
  /\ status' = [m \in Media |-> IF m \in seen[r] \cap Attached(r) THEN "deleted" ELSE status[m]]
  /\ Answer(r, "ok")
  /\ UNCHANGED <<call, born, live, replies, home, seen, off, on, joined, racing>>

(* The handler breaks off; a transaction it had open is rolled back.       *)
Fail(r) ==
  /\ pc[r] \notin {"idle", "done"}
  /\ Answer(r, "error")
  /\ off' = [off EXCEPT ![r] = {}] /\ on' = [on EXCEPT ![r] = {}]
  /\ UNCHANGED <<call, born, live, replies, home, status, seen, joined, racing>>

Step(r) == \/ Find(r) \/ Insert(r) \/ CountReply(r) \/ UpdateRow(r) \/ Reread(r)
           \/ StartMedia(r) \/ Detach(r) \/ Attach(r) \/ AttachInTransaction(r)
           \/ Commit(r) \/ Read(r) \/ Erase(r) \/ Sweep(r)

Next == \E r \in Requests : Begin(r) \/ Step(r) \/ Fail(r)

Spec == Init /\ [][Next]_vars
-----------------------------------------------------------------------------
(* The types of the variables.                                             *)
TypeOK ==
  /\ \A r \in Requests : call[r] # Nothing =>
       call[r] \in [op : Ops, user : Users, post : Posts \cup {None}, media : SUBSET Media]
  /\ pc \in [Requests -> {"idle", "find", "insert", "count", "update", "reread", "detach",
                          "detaching", "attach", "attaching", "commit", "read", "erase",
                          "sweep", "sweeping", "done"}]
  /\ answer \in [Requests -> {"none", "ok", "error"}]
  /\ live \subseteq born /\ born \subseteq Posts
  /\ replies \in [Posts -> Nat]
  /\ home \in [Media -> born \cup {None}]
  /\ status \in [Media -> {"uploaded", "attached", "deleted"}]
  /\ seen \in [Requests -> SUBSET Media]
  /\ off \in [Requests -> SUBSET Media] /\ on \in [Requests -> SUBSET Media]
  /\ joined \in [Requests -> SUBSET Requests]
  /\ racing \in [Posts -> SUBSET Requests]

(* Nobody's upload ends up on somebody else's post, and the status of a    *)
(* media row is "uploaded" exactly while it is on no post.                 *)
MediaStaysWithUploader ==
  \A m \in Media : /\ home[m] # None => Uploader[m] = AuthorOf(home[m])
                   /\ (status[m] = "uploaded") <=> (home[m] = None)

(* Media leave a post only by an UpdatePost of that post that goes         *)
(* through: not by a failed one, and never for another post.               *)
MediaLeaveByUpdate ==
  [][\A m \in Media : home[m] # None /\ home'[m] # home[m] =>
       \E r \in Requests : pc[r] = "commit" /\ pc'[r] = "read" /\ call[r].post = home[m]]_vars

(* After UpdatePost a post has the media asked for.  Others on it are      *)
(* those of a call on the same post that attached them while this one was  *)
(* under way: two concurrent UpdatePosts may leave the union.              *)
UpdateReplacesMedia ==
  [][\A r \in Requests : pc[r] = "commit" /\ pc'[r] = "read" =>
       LET result == {m \in Media : home'[m] = call[r].post} IN
       /\ call[r].media \subseteq result
       /\ \A m \in result \ call[r].media : \E s \in joined[r] : m \in call[s].media]_vars

(* When DeletePost has succeeded all media of the post are "deleted", but  *)
(* for those of a call that was already past its check of the post.        *)
DeletedPostsLoseMedia ==
  \A r \in Requests : call[r].op = "delete" /\ answer[r] = "ok" =>
    \A m \in Media : home[m] = call[r].post /\ status[m] # "deleted" =>
      \E s \in racing[call[r].post] : m \in call[s].media

(* reply_count counts every reply that was answered with success, and      *)
(* nothing that is not a reply: at most the calls that broke off differ.   *)
(* (It is never taken down again when a reply is deleted.)                 *)
RepliesCounted ==
  \A p \in live :
    LET made == {r \in born \ Old : call[r].op = "reply" /\ call[r].post = p} IN
    /\ Cardinality({r \in made : answer[r] = "ok"}) =< replies[p]
    /\ replies[p] =< Cardinality(made)
=============================================================================
