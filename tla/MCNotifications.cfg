\* Two events due to ann, one of her own, one invalid; three inbox calls.
SPECIFICATION NSpec
CONSTANTS
  ann = ann
  bob = bob
  liked = liked
  followed = followed
  own = own
  broken = broken
  r1 = r1
  r2 = r2
  r3 = r3
  Events = {liked, followed, own, broken}
  Users = {ann, bob}
  Actor <- MCActor
  Recipient <- MCRecipient
  Invalid = {broken}
  Requests = {r1, r2, r3}
  Asks <- MCAsks
  PageSize = 1
SYMMETRY Symmetric
INVARIANTS MarkedOnce NothingLeftBehind
CHECK_DEADLOCK FALSE
