SPECIFICATION Spec
CONSTANTS
  None = None
  RetryMaxAttempts = 2
  RetryBase = 1
  BackoffMax = 2
  MaxWorld = 2
  MaxFaults = 1
  Faults = {"timeout"}
CHECK_DEADLOCK FALSE
PROPERTIES
  RelayKeepsTheNewest
