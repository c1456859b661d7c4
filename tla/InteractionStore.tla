--------------------------- MODULE InteractionStore ---------------------------
(***************************************************************************)
(* What the like/bookmark/repost calls promise, with no statements, locks  *)
(* or handler states: each call takes effect at one instant, changes the   *)
(* entry and the counter together, and says whether it changed anything.   *)
(***************************************************************************)
EXTENDS Integers, FiniteSets

CONSTANTS Requests, Posts, Kinds, Author

VARIABLES call, outcome, live, rows, count

svars == <<call, outcome, live, rows, count>>

Entry(r) == <<call[r].kind, call[r].user, call[r].post>>
Pending(r) == outcome[r] = "none"
Answer(r, what) == outcome' = [outcome EXCEPT ![r] = what]

StoreInit == /\ \A r \in Requests : Pending(r)
             /\ live = Posts
             /\ rows = {}
             /\ count = [k \in Kinds |-> [p \in Posts |-> 0]]

(* The counter moves with the entry; a deleted post's counter stays.       *)
Count(r, by) == count' = IF call[r].post \in live
                           THEN [count EXCEPT ![call[r].kind][call[r].post] = @ + by]
                           ELSE count

Add(r) == /\ Pending(r) /\ call[r].op = "add" /\ Entry(r) \notin rows
          /\ Answer(r, "changed")
          /\ rows' = rows \cup {Entry(r)} /\ Count(r, 1)
          /\ UNCHANGED <<call, live>>

Remove(r) == /\ Pending(r) /\ call[r].op = "remove" /\ Entry(r) \in rows
             /\ Answer(r, "changed")
             /\ rows' = rows \ {Entry(r)} /\ Count(r, -1)
             /\ UNCHANGED <<call, live>>

(* "already liked" is said only while the entry is there, "was not liked"  *)
(* only while it is not.                                                   *)
Nothing(r) == /\ Pending(r) /\ call[r].op \in {"add", "remove"}
              /\ (call[r].op = "add") <=> (Entry(r) \in rows)
              /\ Answer(r, "unchanged")
              /\ UNCHANGED <<call, live, rows, count>>

Delete(r) == /\ Pending(r) /\ call[r].op = "delete" /\ call[r].post \in live
             /\ Author[call[r].post] = call[r].user
             /\ Answer(r, "changed")
             /\ live' = live \ {call[r].post}
             /\ UNCHANGED <<call, rows, count>>

(* A call is refused for a post that is gone, or that is somebody else's   *)
(* to delete; it may fail at any time, and then changes nothing.           *)
Refuse(r) == /\ Pending(r)
             /\ \/ call[r].post \notin live
                \/ call[r].op = "delete" /\ Author[call[r].post] # call[r].user
             /\ Answer(r, "refused")
             /\ UNCHANGED <<call, live, rows, count>>

Abort(r) == /\ Pending(r)
            /\ Answer(r, "failed")
            /\ UNCHANGED <<call, live, rows, count>>

StoreNext == \E r \in Requests : \/ Add(r) \/ Remove(r) \/ Nothing(r)
                                 \/ Delete(r) \/ Refuse(r) \/ Abort(r)

StoreSpec == StoreInit /\ [][StoreNext]_svars
=============================================================================
