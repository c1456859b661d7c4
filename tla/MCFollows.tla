------------------------------ MODULE MCFollows ------------------------------
(* Instances of Follows for TLC.                                           *)
EXTENDS Follows

CONSTANTS ann, bob, cy, r1, r2, r3

MCBefore == {<<cy, bob>>}

(* Rings of two and of three, an unfollow of a follow that may be made     *)
(* meanwhile, and the end of an account.                                   *)
MCOffered ==
  [op : {"follow"}, from : {ann}, to : {bob}]
    \cup [op : {"follow"}, from : {bob, cy}, to : {ann}]
    \cup [op : {"follow", "unfollow"}, from : {bob}, to : {cy}]
    \cup [op : {"unfollow"}, from : {cy}, to : {bob}]
    \cup [op : {"delete"}, from : {bob}]
=============================================================================
