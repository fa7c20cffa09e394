SPECIFICATION FairSpec
CONSTANTS
  Nodes = {a, b}
  Intents = {"request", "accept", "poll"}
  Events = {"offline", "mail", "refresh"}
  PageSize = 2
  MaxCommands = 2
  MaxFailures = 1
PROPERTIES
  EverythingIsSettled
  ChangesAreApplied
  MutualRequestsMeet
