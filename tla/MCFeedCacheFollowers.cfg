\* A post by ann, whom bob follows: his cached feed stays.
SPECIFICATION FeedSpec
CONSTANTS
  ann = ann
  bob = bob
  first = first
  next = next
  r1 = r1
  r2 = r2
  r3 = r3
  Users = {ann, bob}
  Keys = {first}
  Fetches = {r1}
  TTL = 1
  MaxFill = 1
  MaxChanges = 1
INVARIANT AffectedFeedsInvalidated
CHECK_DEADLOCK FALSE
