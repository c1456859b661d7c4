\* One event with one retry; one outage of RabbitMQ, one crash of the consumer.
SPECIFICATION PFairSpec
CONSTANTS
  followed = followed
  Services <- MCServices
  Publisher = "content"
  MediaService = "storage"
  Gateway = "gateway"
  Misconfigured = {"storage"}
  Queues <- MCQueues
  Events = {followed}
  Bound <- MCBound
  Malformed = {}
  MaxRetries = 1
  MaxCrashes = 1
  MaxOutages = 1
INVARIANTS NoEventLost DuplicatesBounded
PROPERTIES EveryEventSettles ComesBack
CHECK_DEADLOCK FALSE
