----------------------------- MODULE MCFeedCache -----------------------------
(* Instances of FeedCache for TLC.                                         *)
EXTENDS FeedCache, TLC

CONSTANTS ann, bob, first, next, r1, r2, r3

Interchangeable == Permutations(Fetches) \cup Permutations(Users)
=============================================================================
