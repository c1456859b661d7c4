------------------------------- MODULE MCPosts -------------------------------
(* Instances of Posts for TLC.                                             *)
EXTENDS Posts, TLC

CONSTANTS ann, bob, m1, m2, p0, r1, r2, r3

MCUploader == [m \in Media |-> ann]
MCAuthor == [p \in Old |-> ann]
MCHome == [m \in Media |-> IF m = m1 THEN p0 ELSE None]

CallSymmetry == Permutations(Requests)
=============================================================================
