SPECIFICATION TransportSpec
CONSTANTS
  MaxCopies = 2
  MaxEpoch = 2
  Faults = {"crash"}
  MaxFailures = 1
  Results = {"completed", "auth_required"}
INVARIANTS
  TypeOK
  AcknowledgedStatusWasSeen
  ClaimsAreTrue
  RunsMatchTasks
  AcceptedResultNeverExpires
PROPERTIES
  NothingIsTakenBack
CHECK_DEADLOCK FALSE
