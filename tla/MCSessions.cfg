\* Four calls of any kind, two users.
SPECIFICATION Spec
CONSTANTS
  ann = ann
  bob = bob
  r1 = r1
  r2 = r2
  r3 = r3
  r4 = r4
  r5 = r5
  Requests = {r1, r2, r3, r4}
  Users = {ann, bob}
SYMMETRY Interchangeable
INVARIANTS RedeemedOnce OneSessionPerLogin LogoutIsFinal
PROPERTIES NoSessionsForTheDeleted
CHECK_DEADLOCK FALSE
