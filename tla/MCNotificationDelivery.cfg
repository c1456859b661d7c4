\* A follow and a malformed message, one retry, one lost connection, one inbox call.
SPECIFICATION DSpec
CONSTANTS
  ann = ann
  bob = bob
  followed = followed
  garbage = garbage
  r1 = r1
  Queues <- MCQueues
  NotificationQueue = "notification"
  Events = {followed, garbage}
  Bound <- MCBound
  Malformed = {garbage}
  MaxRetries = 1
  MaxCrashes = 1
  Users = {ann, bob}
  Actor <- MCActor
  Recipient <- MCRecipient
  Invalid = {}
  Requests = {r1}
  Asks = {followed, "all"}
  PageSize = 1
INVARIANTS NoEventLost RetriesBounded DeadLettersEarned ExactlyOnce
CHECK_DEADLOCK FALSE
