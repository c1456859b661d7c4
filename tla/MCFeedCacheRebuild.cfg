\* The race: a page filled from before the change after the invalidation.
SPECIFICATION FeedSpec
CONSTANTS
  ann = ann
  bob = bob
  first = first
  next = next
  r1 = r1
  r2 = r2
  r3 = r3
  Users = {ann, bob}
  Keys = {first}
  Fetches = {r1, r2}
  TTL = 1
  MaxFill = 1
  MaxChanges = 1
INVARIANT NextRequestRebuilds
CHECK_DEADLOCK FALSE
