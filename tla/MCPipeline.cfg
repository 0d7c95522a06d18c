SPECIFICATION FairSpec
CONSTANTS
  None = None
  RetryMaxAttempts = 2
  RetryBase = 1
  BackoffMax = 2
  MaxWorld = 2
  MaxFaults = 3
  Faults = {"timeout", "loss", "kill", "put", "evict", "dispose"}
CHECK_DEADLOCK FALSE
INVARIANTS
  RequestsAreTakenUp
  QuietMeansServed
  UnpublishedIsRetried
  EvictionForgetsNothing
PROPERTIES
  ImplementsPublishedObject
  ChangesArePublished
