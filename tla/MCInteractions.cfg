\* Three calls of any kind by two users on one post, with every failure.
SPECIFICATION FairSpec
CONSTANTS
  r1 = r1
  r2 = r2
  r3 = r3
  u1 = u1
  u2 = u2
  p1 = p1
  Requests = {r1, r2, r3}
  Users = {u1, u2}
  Posts = {p1}
  Kinds = {"like", "bookmark"}
  Author <- MCAuthor
INVARIANTS CountersMatchRows ChangesAlternate OneEventPerChange
PROPERTIES DeletedPostsAreFrozen Atomic EveryCallEnds
