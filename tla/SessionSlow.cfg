SPECIFICATION Spec
CONSTANTS
  Prompts = {p1}
  Reads = {r1}
  Establish = est
  Closer = closer
  None = none
  Agent = agent
  Ephemeral = FALSE
  HostCloses = TRUE
  MaxGen = 2
  MaxEvents = 2
  MaxQueue = 2
  MaxCancels = 1
  MaxFaults = 1
  Drift = TRUE
  EarlyWork = FALSE
  Expiring = {"pump", "turn", "exit"}
INVARIANTS
  GateExclusive
  OneProcess
PROPERTIES
  ClosedIsFinal
CHECK_DEADLOCK FALSE
