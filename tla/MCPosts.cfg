\* Three calls of two users; the media are ann's, one on her post, one free.
SPECIFICATION Spec
CONSTANTS
  ann = ann
  bob = bob
  m1 = m1
  m2 = m2
  p0 = p0
  r1 = r1
  r2 = r2
  r3 = r3
  Requests = {r1, r2, r3}
  Users = {ann, bob}
  Media = {m1, m2}
  Ops = {"reply", "update", "delete"}
  Uploader <- MCUploader
  Old = {p0}
  OldAuthor <- MCAuthor
  OldHome <- MCHome
SYMMETRY CallSymmetry
INVARIANTS MediaStaysWithUploader DeletedPostsLoseMedia RepliesCounted
PROPERTIES MediaLeaveByUpdate UpdateReplacesMedia
CHECK_DEADLOCK FALSE
