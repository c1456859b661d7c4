------------------------------ MODULE MCSessions ------------------------------
(* Instances of Sessions for TLC.                                          *)
EXTENDS Sessions, TLC

CONSTANTS ann, bob, r1, r2, r3, r4, r5

Interchangeable == Permutations(Requests) \cup Permutations(Users)
=============================================================================
