--------------------------- MODULE MCNotifications ---------------------------
(* The inbox of ann: events by bob, and one by herself.                     *)
EXTENDS Notifications

CONSTANTS ann, bob, liked, followed, own, broken, r1, r2, r3

MCAsks == {liked, own, "all", "list", "count"}
MCActor == [e \in Events |-> IF e \in {liked, followed, broken} THEN bob ELSE ann]
MCRecipient == [e \in Events |-> ann]
Symmetric == Permutations(Requests)
=============================================================================
