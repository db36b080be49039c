SPECIFICATION Spec
CONSTANTS
  Prompts = {p1, p2}
  Reads = {}
  Establish = est
  Closer = closer
  None = none
  Agent = agent
  Ephemeral = FALSE
  HostCloses = FALSE
  MaxGen = 2
  MaxEvents = 2
  MaxQueue = 2
  MaxCancels = 1
  MaxFaults = 0
  Drift = FALSE
  EarlyWork = FALSE
  Expiring = {}
INVARIANTS
  InterruptsStayHome
CHECK_DEADLOCK FALSE
