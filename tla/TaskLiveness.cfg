SPECIFICATION FocusedFairSpec
CONSTANTS
  MaxCopies = 1
  MaxEpoch = 1
  Faults = {"forget", "expire", "evict"}
  MaxFailures = 0
  Results = {"completed"}
PROPERTIES
  MessagesArrive
  EveryRequestEnds
CHECK_DEADLOCK FALSE
