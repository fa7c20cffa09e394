SPECIFICATION Spec
CONSTANTS
  Nodes = {a, b}
  Intents = {"request", "block", "list"}
  Events = {"refresh"}
  PageSize = 1
  MaxCommands = 2
  MaxFailures = 1
SYMMETRY Symmetry
PROPERTIES
  ProjectionNeverRegresses
