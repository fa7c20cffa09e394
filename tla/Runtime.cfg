SPECIFICATION RuntimeSpec
CONSTANTS
  Apps = {1, 2}
  Requests = {"r", "s"}
  MaxSpawns = 3
  SidecarSettings <- MCSidecarSettings
  ChildAgents = {"a"}
  MaxRecord = 2
  MaxPid = 2
  MaxMail = 4
  MailKinds <- MCMailKinds
  BatchLimit = 2
  MaxAttempts = 2
  IntakeFaults = 1
INVARIANTS
  LockIsSound
PROPERTIES
  NothingIsLeftBehind
  OnlyFitAgentsServe
  EveryMessageIsDealtWith
CHECK_DEADLOCK FALSE
