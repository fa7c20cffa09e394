SPECIFICATION RuntimeSpec
CONSTANTS
  Apps = {1, 2}
  Requests = {"r", "s", "t"}
  MaxSpawns = 3
  SidecarSettings <- MCCrossingSettings
  ChildAgents = {"a"}
  MaxRecord = 2
  MaxPid = 2
  MaxMail = 4
  MailKinds <- MCMailKinds
  BatchLimit = 2
  MaxAttempts = 2
  IntakeFaults = 1
INVARIANT OneRuntimePerProfile
CHECK_DEADLOCK FALSE
