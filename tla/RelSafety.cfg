SPECIFICATION Spec
CONSTANTS
  Nodes = {a, b}
  Intents = {"request", "accept", "reject", "block", "revoke", "list"}
  Events = {"offline", "late", "crash", "refresh"}
  PageSize = 1
  MaxCommands = 3
  MaxFailures = 1
SYMMETRY Symmetry
INVARIANTS
  FailedCommandHadNoEffect
  CheckpointIsCovered
PROPERTIES
  OnlyPendingCommandsTakeEffect
  OnlyARefreshTakesBack
