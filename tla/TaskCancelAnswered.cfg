SPECIFICATION FocusedFairSpec
CONSTANTS
  MaxCopies = 1
  MaxEpoch = 1
  Faults = {"forget", "cancel"}
  MaxFailures = 0
  Results = {"completed", "canceled"}
CHECK_DEADLOCK FALSE
PROPERTY CancelIsEventuallyAnswered
