SPECIFICATION Spec
CONSTANTS
  Prompts = {p1}
  Reads = {r1}
  Establish = est
  Closer = closer
  None = none
  Agent = agent
  Ephemeral = FALSE
  HostCloses = FALSE
  MaxGen = 2
  MaxEvents = 2
  MaxQueue = 2
  MaxCancels = 1
  MaxFaults = 1
  Drift = FALSE
  EarlyWork = FALSE
  Expiring = {}
INVARIANTS
  DurableCycles
CHECK_DEADLOCK FALSE
