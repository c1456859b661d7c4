----------------------------- MODULE FollowGraph -----------------------------
(***************************************************************************)
(* What follows promise, with no statements, locks or deadlocks: each call *)
(* takes effect at one instant, changes the follow and the counters of     *)
(* both users together, and says whether it changed anything.              *)
(***************************************************************************)
EXTENDS Integers, FiniteSets

CONSTANTS Requests, Users, Before

VARIABLES call, outcome, alive, follows, following, followers

gvars == <<call, outcome, alive, follows, following, followers>>

From(r) == call[r].from
To(r) == call[r].to
Edge(r) == <<From(r), To(r)>>
Pending(r) == outcome[r] = "none"
Answer(r, what) == outcome' = [outcome EXCEPT ![r] = what]

GraphInit ==
  /\ \A r \in Requests : Pending(r)
  /\ alive = Users /\ follows = Before
  /\ following = [u \in Users |-> Cardinality({v \in Users : <<u, v>> \in Before})]
  /\ followers = [u \in Users |-> Cardinality({v \in Users : <<v, u>> \in Before})]

(* A user who has left keeps his last counters.  The others' move with the *)
(* follow.                                                                 *)
Moved(counter, u, by) == IF u \in alive THEN [counter EXCEPT ![u] = @ + by] ELSE counter
Count(r, by) == /\ following' = Moved(following, From(r), by)
                /\ followers' = Moved(followers, To(r), by)

(* Either end may be leaving: the calls look at the users first.           *)
Follow(r) == /\ Pending(r) /\ call[r].op = "follow"
             /\ From(r) # To(r) /\ Edge(r) \notin follows
             /\ Answer(r, "changed")
             /\ follows' = follows \cup {Edge(r)} /\ Count(r, 1)
             /\ UNCHANGED <<call, alive>>

Unfollow(r) == /\ Pending(r) /\ call[r].op = "unfollow" /\ Edge(r) \in follows
               /\ Answer(r, "changed")
               /\ follows' = follows \ {Edge(r)} /\ Count(r, -1)
               /\ UNCHANGED <<call, alive>>

(* "user already followed" is said only of a follow that is there, "user   *)
(* was not followed" only of one that is not.                              *)
Nothing(r) == /\ Pending(r) /\ call[r].op \in {"follow", "unfollow"}
              /\ call[r].op = "follow" <=> Edge(r) \in follows
              /\ Answer(r, "unchanged")
              /\ UNCHANGED <<call, alive, follows, following, followers>>

(* An account that is deleted takes no follow with it.                     *)
Leave(r) == /\ Pending(r) /\ call[r].op = "delete" /\ From(r) \in alive
            /\ Answer(r, "changed")
            /\ alive' = alive \ {From(r)}
            /\ UNCHANGED <<call, follows, following, followers>>

Refuse(r) == /\ Pending(r)
             /\ \/ From(r) \notin alive
                \/ call[r].op # "delete" /\ (To(r) = From(r) \/ To(r) \notin alive)
             /\ Answer(r, "refused")
             /\ UNCHANGED <<call, alive, follows, following, followers>>

Abort(r) == /\ Pending(r) /\ Answer(r, "failed")
            /\ UNCHANGED <<call, alive, follows, following, followers>>

GraphNext == \E r \in Requests : \/ Follow(r) \/ Unfollow(r) \/ Nothing(r)
                                 \/ Leave(r) \/ Refuse(r) \/ Abort(r)

GraphSpec == GraphInit /\ [][GraphNext]_gvars
=============================================================================
