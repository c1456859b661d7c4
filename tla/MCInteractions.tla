---------------------------- MODULE MCInteractions ----------------------------
(* Instances of Interactions for TLC.                                      *)
EXTENDS Interactions

CONSTANTS u1, u2, r1, r2, r3, p1

MCAuthor == [p \in Posts |-> u1]
=============================================================================
