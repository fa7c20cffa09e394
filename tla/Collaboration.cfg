SPECIFICATION CollaborationSpec
CONSTANTS
  MaxStages = 2
  MaxSteps = 2
  MaxTold = 1
  MaxRenewals = 1
  SessionTime = 1
  MaxShared = 1
  MaxLetters = 1
  MaxSessionStops = 1
  MaxMemStages = 2
  MaxMemVersion = 2
  MaxPreviews = 2
  MaxMemTime = 1
  PreviewTtl = 1
  MaxMemInputs = 2
  MaxWsRevision = 3
  MaxWsContent = 1
  MaxWsEnds = 2
  RequestTtl = 2
  ResultTtl = 1
  Retention = 2
  MaxAttachTime = 2
  ImageFiles = {"f", "g"}
  MaxImageAttempts = 2
  MaxChunkLines = 2
  MaxChunks = 4
  MaxContent = 2
  MaxChecks = 3
  MaxTicks = 2
  MaxAsks = 1
  PassportFaults = 2
  ReadTasks = {"s", "t"}
  Readers = {"c"}
  MaxCachedDetails = 1
  ViewDeadline = 1
  MaxViewTime = 1
  MaxCommits = 1
  ConsoleTasks = {"a"}
  MaxNews = 1
  MaxChoices = 3
  MaxSharingStops = 1
  MaxSaves = 2
  MaxMemRecords = 1
  MaxMemOps = 4
  PanelModes = {"idle", "connection_detail", "task"}
  MaxModeCalls = 2
  MaxHeightCalls = 2
  MaxScreenChanges = 1
INVARIANTS
  SessionIsSound
  CommittedWorkspaceIsWhole
  ImagesAreTrue
  PassportConverges
  ViewShowsTheStore
  RefreshIsComing
  PanelIsNeverStuck
  PassportViewIsTrue
  WindowFollowsLatestMode
PROPERTIES
  MemoryObeysTheUser
  WithdrawnMemoryStaysOut
CHECK_DEADLOCK FALSE
