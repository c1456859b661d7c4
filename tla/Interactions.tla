----------------------------- MODULE Interactions -----------------------------
(***************************************************************************)
(* Likes, bookmarks and reposts of content-service, against DeletePost,    *)
(* statement by statement.                                                 *)
(*                                                                         *)
(* A call is one gRPC request.  Its handler looks the post up, then runs a *)
(* transaction of two statements (the row of likes, bookmarks or reposts,  *)
(* then the counter column of posts), then publishes.  Calls run           *)
(* concurrently; Postgres (READ COMMITTED) gives them two kinds of lock,   *)
(* both held from the statement to the end of the transaction: the         *)
(* (user_id, post_id) entry of the table, and the row of posts.            *)
(* What a transaction wrote shows when it commits, so the model changes    *)
(* rows and count in Commit; the locks are the states "count" and          *)
(* "commit" themselves.                                                    *)
(***************************************************************************)
EXTENDS Integers, FiniteSets

CONSTANTS Requests,   \* the gRPC calls, each handled once
          Users,
          Posts,
          Kinds,      \* the interaction tables in play
          Author      \* posts.author_id

EventKinds == {"like", "repost"}     \* BookmarkPost publishes nothing

ASSUME KindsAssumption == Kinds \subseteq {"like", "bookmark", "repost"}
ASSUME AuthorAssumption == Author \in [Posts -> Users]
ASSUME FiniteAssumption == IsFiniteSet(Requests) /\ IsFiniteSet(Users)

VARIABLES
  call,        \* the request: what each caller asked for
  pc,          \* where its handler is
  hit,         \* did the UPDATE of posts match a row
  outcome,     \* what became of the call in the database
  live,        \* posts whose deleted_at is NULL
  rows,        \* likes, bookmarks and reposts, as <<kind, user, post>>
  count,       \* like_count, bookmark_count, repost_count
  published    \* the calls whose event reached RabbitMQ

vars == <<call, pc, hit, outcome, live, rows, count, published>>

Calls == [op : {"add", "remove"}, kind : Kinds, user : Users, post : Posts]
           \cup [op : {"delete"}, user : Users, post : Posts]

Key(r) == <<call[r].kind, call[r].user, call[r].post>>
Fans(k, p) == {u \in Users : <<k, u, p>> \in rows}

(* A tuple of likes/bookmarks/reposts is locked by a transaction that has  *)
(* inserted or deleted it; a row of posts by one whose UPDATE matched it.  *)
EntryLocked(key) ==
  \E s \in Requests : pc[s] \in {"count", "commit"} /\ Key(s) = key
PostLocked(p) == \E s \in Requests : pc[s] = "commit" /\ hit[s] /\ call[s].post = p

Goto(r, label) == pc' = [pc EXCEPT ![r] = label]
Settle(r, what) == outcome' = [outcome EXCEPT ![r] = what]
-----------------------------------------------------------------------------
Init ==
  /\ call \in [Requests -> Calls]
  /\ pc = [r \in Requests |-> "find"]
  /\ hit = [r \in Requests |-> FALSE]
  /\ outcome = [r \in Requests |-> "none"]
  /\ live = Posts
  /\ rows = {}
  /\ count = [k \in Kinds |-> [p \in Posts |-> 0]]
  /\ published = {}

(* FindByID / ensurePostExists, the read before the write.  LikePost does  *)
(* both; the two reads have one outcome, so they are one step.             *)
Find(r) ==
  /\ pc[r] = "find"
  /\ IF call[r].post \in live
       THEN /\ Goto(r, IF call[r].op = "delete" THEN "erase" ELSE "row")
            /\ UNCHANGED outcome
       ELSE Goto(r, "done") /\ Settle(r, "refused")
  /\ UNCHANGED <<call, hit, live, rows, count, published>>

(* Mutant: RowsAffected == 0 is not looked at. *)
InsertRowUnchecked(r) ==
  /\ pc[r] = "row" /\ call[r].op = "add"
  /\ ~EntryLocked(Key(r))
  /\ Goto(r, "count")
  /\ UNCHANGED <<call, hit, outcome, live, rows, count, published>>

(* INSERT ... ON CONFLICT DO NOTHING waits for whoever is inserting or     *)
(* deleting the same entry.                                                *)
InsertRow(r) ==
  /\ pc[r] = "row" /\ call[r].op = "add"
  /\ ~EntryLocked(Key(r))
  /\ IF Key(r) \in rows
       THEN Goto(r, "done") /\ Settle(r, "unchanged")
       ELSE Goto(r, "count") /\ UNCHANGED outcome
  /\ UNCHANGED <<call, hit, live, rows, count, published>>

(* Mutants: zero deleted rows count as a deletion; zero rows are retried.  *)
DeleteRowUnchecked(r) ==
  /\ pc[r] = "row" /\ call[r].op = "remove"
  /\ ~EntryLocked(Key(r))
  /\ Goto(r, "count")
  /\ UNCHANGED <<call, hit, outcome, live, rows, count, published>>

DeleteRowRetrying(r) ==
  /\ pc[r] = "row" /\ call[r].op = "remove"
  /\ Key(r) \in rows /\ ~EntryLocked(Key(r))
  /\ Goto(r, "count")
  /\ UNCHANGED <<call, hit, outcome, live, rows, count, published>>

(* DELETE sees committed entries only, and waits only for one it sees.     *)
DeleteRow(r) ==
  /\ pc[r] = "row" /\ call[r].op = "remove"
  /\ \/ /\ Key(r) \notin rows
        /\ Goto(r, "done") /\ Settle(r, "unchanged")
     \/ /\ Key(r) \in rows /\ ~EntryLocked(Key(r))
        /\ Goto(r, "count") /\ UNCHANGED outcome
  /\ UNCHANGED <<call, hit, live, rows, count, published>>

(* Mutant: an Unscoped() update, which counts deleted posts too. *)
UpdateCounterUnscoped(r) ==
  /\ pc[r] = "count"
  /\ ~PostLocked(call[r].post)
  /\ hit' = [hit EXCEPT ![r] = TRUE]
  /\ Goto(r, "commit")
  /\ UNCHANGED <<call, outcome, live, rows, count, published>>

(* UPDATE posts SET counter = counter +/- 1: gorm adds deleted_at IS NULL, *)
(* the decrement adds counter > 0.  It waits for the row only if it        *)
(* matches, and matching no row is not an error.                           *)
Matches(r) == /\ call[r].post \in live
              /\ call[r].op = "remove" => count[call[r].kind][call[r].post] > 0
UpdateCounter(r) ==
  /\ pc[r] = "count"
  /\ Matches(r) => ~PostLocked(call[r].post)
  /\ hit' = [hit EXCEPT ![r] = Matches(r)]
  /\ Goto(r, "commit")
  /\ UNCHANGED <<call, outcome, live, rows, count, published>>

Delta(r) == IF ~hit[r] THEN 0 ELSE IF call[r].op = "add" THEN 1 ELSE -1

(* Mutant: the author is told of his own likes. *)
NotifiesSelf(c) == c.op = "add" /\ c.kind \in EventKinds

(* The event goes out only for a new like or repost of somebody else.      *)
Notifies(c) == c.op = "add" /\ c.kind \in EventKinds /\ Author[c.post] # c.user

Commit(r) ==
  /\ pc[r] = "commit"
  /\ rows' = IF call[r].op = "add" THEN rows \cup {Key(r)} ELSE rows \ {Key(r)}
  /\ count' = [count EXCEPT ![call[r].kind][call[r].post] = @ + Delta(r)]
  /\ Settle(r, "changed")
  /\ Goto(r, IF Notifies(call[r]) THEN "publish" ELSE "done")
  /\ UNCHANGED <<call, hit, live, published>>

(* DeleteOwnPost's UPDATE posts SET deleted_at, for the author only.       *)
Erase(r) ==
  /\ pc[r] = "erase"
  /\ IF call[r].post \in live /\ Author[call[r].post] = call[r].user
       THEN /\ ~PostLocked(call[r].post)
            /\ live' = live \ {call[r].post}
            /\ Goto(r, "publish") /\ Settle(r, "changed")
       ELSE /\ Goto(r, "done") /\ Settle(r, "refused")
            /\ UNCHANGED live
  /\ UNCHANGED <<call, hit, rows, count, published>>

(* publishEvent: an error is logged and the call still succeeds.  Skip is  *)
(* that, no publisher configured, an answer to COMMIT lost on the way back *)
(* and a process that dies between COMMIT and Publish.                     *)
Publish(r) ==
  /\ pc[r] = "publish"
  /\ published' = published \cup {r}
  /\ Goto(r, "done")
  /\ UNCHANGED <<call, hit, outcome, live, rows, count>>

SkipPublish(r) ==
  /\ pc[r] = "publish"
  /\ Goto(r, "done")
  /\ UNCHANGED <<call, hit, outcome, live, rows, count, published>>

(* Mutant: no transaction; a failing counter update leaves the entry. *)
FailHalfway(r) ==
  /\ pc[r] \in {"find", "row", "count", "commit", "erase"}
  /\ Goto(r, "done") /\ Settle(r, "failed")
  /\ rows' = IF pc[r] = "count" /\ call[r].op = "add" THEN rows \cup {Key(r)} ELSE rows
  /\ UNCHANGED <<call, hit, live, count, published>>

(* A statement fails (the gateway's 3 s deadline cancels the context, the  *)
(* connection drops, the process dies): the transaction rolls back.        *)
Fail(r) ==
  /\ pc[r] \in {"find", "row", "count", "commit", "erase"}
  /\ Goto(r, "done") /\ Settle(r, "failed")
  /\ UNCHANGED <<call, hit, live, rows, count, published>>

Terminated == (\A r \in Requests : pc[r] = "done") /\ UNCHANGED vars

Handle(r) == \/ Find(r) \/ InsertRow(r) \/ DeleteRow(r) \/ UpdateCounter(r)
             \/ Commit(r) \/ Erase(r) \/ Publish(r) \/ SkipPublish(r)

Next == (\E r \in Requests : Handle(r) \/ Fail(r)) \/ Terminated

Spec == Init /\ [][Next]_vars

(* A handler goroutine is scheduled, and Postgres queues the waiters of a  *)
(* lock in order, so a statement that can run again and again does run.    *)
(* Nothing forces a failure.                                               *)
FairSpec == Spec /\ \A r \in Requests : SF_vars(Handle(r))
-----------------------------------------------------------------------------
(* Types.  The counters stay at or above zero, as the CHECK constraints of *)
(* posts demand (one that went below would fail the transaction).          *)
TypeOK ==
  /\ call \in [Requests -> Calls]
  /\ pc \in [Requests -> {"find", "row", "count", "commit", "erase", "publish", "done"}]
  /\ hit \in [Requests -> BOOLEAN]
  /\ outcome \in [Requests -> {"none", "refused", "unchanged", "changed", "failed"}]
  /\ live \subseteq Posts
  /\ rows \subseteq Kinds \X Users \X Posts
  /\ count \in [Kinds -> [Posts -> Nat]]
  /\ published \subseteq Requests

(* A visible post's like_count, bookmark_count and repost_count are the    *)
(* numbers of entries it has, whatever ran concurrently: no increment is   *)
(* lost or doubled by double clicks, and the counter > 0 guard of          *)
(* deletePostInteraction never swallows a decrement.                       *)
CountersMatchRows ==
  \A k \in Kinds, p \in live : count[k][p] = Cardinality(Fans(k, p))

Changed(op, key) == {r \in Requests : call[r].op = op /\ outcome[r] = "changed"
                                       /\ Key(r) = key}

(* For one user and one post the calls that changed something, and were    *)
(* told so unless an answer to COMMIT was lost, alternate like, unlike,    *)
(* like...: two concurrent likes are not both "post liked successfully",   *)
(* and no unlike takes effect twice.                                       *)
ChangesAlternate ==
  \A key \in Kinds \X Users \X Posts :
    Cardinality(Changed("add", key)) =
      Cardinality(Changed("remove", key)) + (IF key \in rows THEN 1 ELSE 0)

(* The author hears of a like or repost at most once per time it is made:  *)
(* one event more than there were completed unlikes, never two for a       *)
(* repeated call, never one for a call that failed or for one's own post.  *)
OneEventPerChange ==
  \A key \in Kinds \X Users \X Posts :
    LET sent == {r \in published : call[r].op # "delete" /\ Key(r) = key} IN
    /\ Cardinality(sent) =< Cardinality(Changed("remove", key)) + 1
    /\ sent # {} => Author[key[3]] # key[2] /\ key[1] \in EventKinds

(* The counters of a deleted post stay as they were when it was deleted:   *)
(* the row lock makes DeleteOwnPost wait for a transaction that has        *)
(* already counted.                                                        *)
DeletedPostsAreFrozen ==
  [][\A p \in Posts \ live : \A k \in Kinds : count'[k][p] = count[k][p]]_vars

(* The two-statement transactions implement calls that take effect at one  *)
(* instant.                                                                *)
Store == INSTANCE InteractionStore
Atomic == Store!StoreSpec

(* Nobody waits for ever: the entry lock is always taken before the post's *)
(* lock, so some holder can always go on.                                  *)
EveryCallEnds == \A r \in Requests : <>(pc[r] = "done")
=============================================================================
