\* One change, two pages, two requests, slow fills and lost events.
SPECIFICATION FeedSpec
CONSTANTS
  ann = ann
  bob = bob
  first = first
  next = next
  r1 = r1
  r2 = r2
  r3 = r3
  Users = {ann, bob}
  Keys = {first, next}
  Fetches = {r1, r2}
  TTL = 2
  MaxFill = 1
  MaxChanges = 1
SYMMETRY Interchangeable
INVARIANTS AnswersRecent StaleOnlyByRace
CHECK_DEADLOCK FALSE
