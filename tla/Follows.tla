------------------------------- MODULE Follows -------------------------------
(***************************************************************************)
(* FollowUser and UnfollowUser of content-service, statement by statement, *)
(* against user-service deleting accounts.                                 *)
(*                                                                         *)
(* The transaction writes the row of follows, then the follower's row of   *)
(* users, then the followed user's, and holds each lock to its end.  Two   *)
(* users who follow each other at the same time take the rows of users in  *)
(* opposite orders, so transactions may deadlock; Postgres cancels one.    *)
(* As in Interactions, writes show at COMMIT and locks follow from pc.     *)
(***************************************************************************)
EXTENDS Integers, FiniteSets

CONSTANTS Requests, Users,
          Before,   \* the follows made before
          Offered   \* the calls in play

Calls == [op : {"follow", "unfollow"}, from : Users, to : Users]
           \cup [op : {"delete"}, from : Users]

ASSUME FollowAssumption == /\ Before \in SUBSET {f \in Users \X Users : f[1] # f[2]}
                           /\ Offered \subseteq Calls

(* There are finitely many users and calls.                                *)
ASSUME FiniteAssumption == IsFiniteSet(Users) /\ IsFiniteSet(Requests)

VARIABLES
  call,        \* op, from and to; "delete" only has from
  pc,          \* the statement the handler is at
  hit,         \* the rows of users its UPDATEs have matched and locked
  outcome,     \* what became of the call in the database
  alive,       \* users whose deleted_at is NULL
  follows,     \* follower, followed
  following,   \* following_count
  followers,   \* follower_count
  published

vars == <<call, pc, hit, outcome, alive, follows, following, followers, published>>
store == <<alive, follows, following, followers>>

Key(r) == <<call[r].from, call[r].to>>
Goto(r, label) == pc' = [pc EXCEPT ![r] = label]
Settle(r, what) == outcome' = [outcome EXCEPT ![r] = what]

InTransaction(r) == pc[r] \in {"first", "second", "commit"}
EntryHolders(key) == {s \in Requests : InTransaction(s) /\ Key(s) = key}
RowHolders(u) == {s \in Requests : InTransaction(s) /\ u \in hit[s]}

(* Mutant: unfollow starts with the other end. *)
FirstRowMixed(c) == IF c.op = "follow" THEN c.from ELSE c.to

(* The rows of users in the order the transaction updates them.            *)
FirstRow(c) == c.from
SecondRow(c) == IF FirstRow(c) = c.from THEN c.to ELSE c.from
-----------------------------------------------------------------------------
Init ==
  /\ call \in [Requests -> Offered]
  /\ pc = [r \in Requests |-> "find"]
  /\ hit = [r \in Requests |-> {}]
  /\ outcome = [r \in Requests |-> "none"]
  /\ alive = Users
  /\ follows = Before
  /\ following = [u \in Users |-> Cardinality({v \in Users : <<u, v>> \in Before})]
  /\ followers = [u \in Users |-> Cardinality({v \in Users : <<v, u>> \in Before})]
  /\ published = {}

(* ErrCannotFollowSelf and ensureUserExists for both ends; DeleteUser's    *)
(* FindByID.                                                               *)
Find(r) ==
  /\ pc[r] = "find"
  /\ IF call[r].op = "delete"
       THEN IF call[r].from \in alive
              THEN Goto(r, "erase") /\ UNCHANGED outcome
              ELSE Goto(r, "done") /\ Settle(r, "refused")
       ELSE IF call[r].from # call[r].to /\ {call[r].from, call[r].to} \subseteq alive
              THEN Goto(r, "row") /\ UNCHANGED outcome
              ELSE Goto(r, "done") /\ Settle(r, "refused")
  /\ UNCHANGED <<call, hit, store, published>>

(* Mutant: rows that are there, or gone, already are tried again.          *)
WriteRowRetrying(r) ==
  /\ pc[r] = "row" /\ EntryHolders(Key(r)) = {}
  /\ call[r].op = "follow" <=> Key(r) \notin follows
  /\ Goto(r, "first")
  /\ UNCHANGED <<call, hit, outcome, store, published>>

(* INSERT ... ON CONFLICT DO NOTHING, which waits for a concurrent writer  *)
(* of the same row; DELETE waits for one only if it sees the row.          *)
WriteRow(r) ==
  /\ pc[r] = "row"
  /\ \/ /\ EntryHolders(Key(r)) = {}
        /\ call[r].op = "follow" <=> Key(r) \notin follows
        /\ Goto(r, "first") /\ UNCHANGED outcome
     \/ /\ \/ call[r].op = "follow" /\ Key(r) \in follows /\ EntryHolders(Key(r)) = {}
           \/ call[r].op = "unfollow" /\ Key(r) \notin follows
        /\ Goto(r, "done") /\ Settle(r, "unchanged")
  /\ UNCHANGED <<call, hit, store, published>>

(* One UPDATE users SET counter = counter +/- 1: matches a live user, and  *)
(* on the way down only a counter above 0.  It waits for the row if it     *)
(* matches; matching none is no error.                                     *)
Count(c, u) == IF u = c.from THEN following[u] ELSE followers[u]
Matches(r, u) == u \in alive /\ (call[r].op = "unfollow" => Count(call[r], u) > 0)
Awaited(r, u) == IF Matches(r, u) THEN RowHolders(u) ELSE {}
UpdateUser(r, u) ==
  /\ Awaited(r, u) = {}
  /\ hit' = IF Matches(r, u) THEN [hit EXCEPT ![r] = @ \cup {u}] ELSE hit
  /\ UNCHANGED <<call, outcome, store, published>>

UpdateFirst(r) == pc[r] = "first" /\ UpdateUser(r, FirstRow(call[r])) /\ Goto(r, "second")
UpdateSecond(r) == pc[r] = "second" /\ UpdateUser(r, SecondRow(call[r])) /\ Goto(r, "commit")

Delta(r, u) == IF u \notin hit[r] THEN 0 ELSE IF call[r].op = "follow" THEN 1 ELSE -1

(* Mutant: the followed user's counter is left out. *)
CommitFollowerOnly(r) ==
  /\ pc[r] = "commit"
  /\ follows' = IF call[r].op = "follow" THEN follows \cup {Key(r)} ELSE follows \ {Key(r)}
  /\ following' = [following EXCEPT ![call[r].from] = @ + Delta(r, call[r].from)]
  /\ Goto(r, "publish") /\ Settle(r, "changed")
  /\ UNCHANGED <<call, hit, alive, followers, published>>

(* COMMIT, after which both calls publish.                                 *)
Commit(r) ==
  /\ pc[r] = "commit"
  /\ follows' = IF call[r].op = "follow" THEN follows \cup {Key(r)} ELSE follows \ {Key(r)}
  /\ following' = [following EXCEPT ![call[r].from] = @ + Delta(r, call[r].from)]
  /\ followers' = [followers EXCEPT ![call[r].to] = @ + Delta(r, call[r].to)]
  /\ Goto(r, "publish") /\ Settle(r, "changed")
  /\ UNCHANGED <<call, hit, alive, published>>

(* user-service's DeleteByID is one UPDATE of the users row.               *)
Erase(r) ==
  /\ pc[r] = "erase"
  /\ RowHolders(call[r].from) = {}
  /\ alive' = alive \ {call[r].from}
  /\ Goto(r, "done") /\ Settle(r, IF call[r].from \in alive THEN "changed" ELSE "refused")
  /\ UNCHANGED <<call, hit, follows, following, followers, published>>

(* publishEvent; the event may get lost.                                   *)
Publish(r) ==
  /\ pc[r] = "publish"
  /\ published' \in {published, published \cup {r}}
  /\ Goto(r, "done")
  /\ UNCHANGED <<call, hit, outcome, store>>

(* Who r waits for, and the rings of transactions waiting for each other.  *)
WaitsFor(r) ==
  CASE pc[r] = "row" ->
         IF call[r].op = "follow" \/ Key(r) \in follows THEN EntryHolders(Key(r)) ELSE {}
    [] pc[r] = "first" -> Awaited(r, FirstRow(call[r]))
    [] pc[r] = "second" -> Awaited(r, SecondRow(call[r]))
    [] pc[r] = "erase" -> RowHolders(call[r].from)
    [] OTHER -> {}
Ring(S) == /\ S # {}
           /\ \A r \in S : WaitsFor(r) \cap S # {}
           /\ \A r \in S : \E s \in S : r \in WaitsFor(s)
Waiting == {r \in Requests : WaitsFor(r) # {}}
Deadlocked(r) == \E S \in SUBSET Waiting : r \in S /\ Ring(S)

Abort(r) == Goto(r, "done") /\ Settle(r, "failed") /\ UNCHANGED <<call, hit, store, published>>

(* Postgres cancels a transaction of a ring (deadlock_timeout).            *)
BreakDeadlock(r) == Deadlocked(r) /\ Abort(r)

(* Mutant: without a transaction, the row of follows survives a failure.   *)
FailHalfway(r) ==
  /\ pc[r] \in {"find", "row", "first", "second", "commit", "erase"}
  /\ follows' = IF InTransaction(r) /\ call[r].op = "follow" THEN follows \cup {Key(r)} ELSE follows
  /\ Goto(r, "done") /\ Settle(r, "failed")
  /\ UNCHANGED <<call, hit, alive, following, followers, published>>

(* A statement fails, the deadline passes or the process dies: rollback.   *)
Fail(r) == pc[r] \in {"find", "row", "first", "second", "commit", "erase"} /\ Abort(r)

Terminated == (\A r \in Requests : pc[r] = "done") /\ UNCHANGED vars

Handle(r) == \/ Find(r) \/ WriteRow(r) \/ UpdateFirst(r) \/ UpdateSecond(r)
             \/ Commit(r) \/ Erase(r) \/ Publish(r)

Next == (\E r \in Requests : Handle(r) \/ BreakDeadlock(r) \/ Fail(r)) \/ Terminated

Spec == Init /\ [][Next]_vars

(* A statement that can run again and again does; the deadlock detector    *)
(* does its work; nothing forces any other failure.                        *)
FairSpec == /\ Spec
            /\ \A r \in Requests : SF_vars(Handle(r))
            /\ WF_vars(\E r \in Requests : BreakDeadlock(r))
-----------------------------------------------------------------------------
(* The types of the variables; the counters never go below zero.           *)
TypeOK ==
  /\ call \in [Requests -> Offered]
  /\ pc \in [Requests -> {"find", "row", "first", "second", "commit", "erase",
                          "publish", "done"}]
  /\ hit \in [Requests -> SUBSET Users]
  /\ outcome \in [Requests -> {"none", "refused", "unchanged", "changed", "failed"}]
  /\ alive \subseteq Users
  /\ follows \subseteq Users \X Users
  /\ following \in [Users -> Nat] /\ followers \in [Users -> Nat]
  /\ published \subseteq Requests

(* following_count and follower_count of every existing user are the       *)
(* numbers of rows that name him, whatever ran concurrently, deadlocked or *)
(* was rolled back, and whoever was deleted meanwhile.                     *)
CountsMatchFollows ==
  \A u \in alive :
    /\ following[u] = Cardinality({v \in Users : <<u, v>> \in follows})
    /\ followers[u] = Cardinality({v \in Users : <<v, u>> \in follows})

(* Locks taken follower first deadlock in one way only: a ring of users    *)
(* each of whom is just then following or unfollowing the next.  In        *)
(* particular many people following one user, or one user following many,  *)
(* never do.                                                               *)
DeadlocksAreRings ==
  \A r \in Requests : Deadlocked(r) =>
    /\ pc[r] = "second"
    /\ \E s \in WaitsFor(r) : Deadlocked(s) /\ call[s].from = call[r].to

(* An unfollowed user was told "user unfollowed" once per follow: the      *)
(* calls that reported a change account for every row there is.            *)
ChangesExplainFollows ==
  \A u, v \in Users :
    LET changed(op) == {r \in Requests : outcome[r] = "changed" /\ call[r].op = op
                                          /\ Key(r) = <<u, v>>}
        was == IF <<u, v>> \in Before THEN 1 ELSE 0
        is == IF <<u, v>> \in follows THEN 1 ELSE 0
    IN Cardinality(changed("follow")) + was = Cardinality(changed("unfollow")) + is

(* For the graph of follows it is as if each call were one step: no        *)
(* interleaving with other follows, with unfollows of the same users or    *)
(* with the end of an account, no deadlock and no failure shows halfway.   *)
Graph == INSTANCE FollowGraph
OneStepEach == Graph!GraphSpec

(* Every call gets an answer, deadlocks included.                          *)
EveryCallEnds == \A r \in Requests : <>(pc[r] = "done")
=============================================================================
