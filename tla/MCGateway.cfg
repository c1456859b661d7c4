\* Up to four requests that meet, in nine kinds of encounter.
SPECIFICATION Spec
CONSTANTS
  ann = ann
  bob = bob
  cy = cy
  r1 = r1
  r2 = r2
  r3 = r3
  r4 = r4
  p1 = p1
  p2 = p2
  p3 = p3
  p4 = p4
  bio = bio
  avatar = avatar
  Requests = {r1, r2, r3, r4}
  Users = {ann, bob, cy}
  Stamps = {1, 2, 3}
  Limit = 1
  Fields = {bio, avatar}
  OldPosts = {p1, p2, p3, p4}
  OldAuthor <- MCAuthor
  OldParent <- MCParent
  OldRows <- MCRows
  OldGone <- MCGone
  Expiring = {cy}
  Offered <- MCOffered
INVARIANTS AnswersTellEffects ObjectsAccounted ScrollsAreExact TimelinesAreNewest
PROPERTIES GoneForGood
