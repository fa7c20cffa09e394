SPECIFICATION NetworkSpec
CONSTANTS
  Work = {"t", "u"}
  WantedBy <- MCWantedBy
  HostLimit = 2
  GrantLife = 1
  DeadlineLife = 2
  Digests = {1, 2}
  MaxClock = 2
  OptionalJobs = {"release", "presence"}
  JobPeers = {"p"}
  MaxPolicy = 1
  JobEvents = 1
  NetEnvironments = {"production", "local_development"}
  MaxKeys = 2
  MaxNetStarts = 2
  HttpOperations = {"bootstrap", "relationship_list", "profile_self", "profile_replace", "identity_register"}
  MaxHttpKeys = 2
  MaxHttpCalls = 4
  MaxHttpFaults = 2
  MaxProfile = 4
  MaxProfileWrites = 4
  MaxReports = 3
  MaxPresenceEnds = 1
  MaxChatmail = 3
  MaxAccountStarts = 2
  Overriders = {"x", "y"}
  MaxScans = 5
  MaxProfileStarts = 3
  UsagePayloads <- MCUsagePayloads
  PlanLife = 1
  PlanGrace = 1
  MaxUsageTime = 2
  MaxRefreshes = 2
  MaxUsageStops = 1
INVARIANTS
  NetworkAgrees
  WorkIsAuthorized
  WorkGoesOn
PROPERTIES
  MigrationIsWhole
CHECK_DEADLOCK FALSE
