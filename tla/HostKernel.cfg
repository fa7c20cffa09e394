SPECIFICATION Spec
CONSTANTS
  Tasks = {"a", "b"}
  AgentOf <- MCAgentOf
  Settings <- MCSettings
  Checkpointing = {"a"}
  MaxRetained = 4
  MaxEpoch = 3
  MaxStops = 1
INVARIANTS
  OneExecution
PROPERTIES
  QueuedTaskStarts
  KernelImplementsContract
