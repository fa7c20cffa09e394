SPECIFICATION Spec
CONSTANTS
  Nodes = {a, b}
  Intents = {"request", "accept", "block", "poll"}
  Events = {"offline"}
  PageSize = 2
  MaxCommands = 3
  MaxFailures = 1
INVARIANT BlockAndRevokeArePerformed
