SPECIFICATION Spec
CONSTANTS
  Prompts = {p1}
  Reads = {}
  Establish = est
  Closer = closer
  None = none
  Agent = agent
  Ephemeral = FALSE
  HostCloses = TRUE
  MaxGen = 2
  MaxEvents = 3
  MaxQueue = 2
  MaxCancels = 1
  MaxFaults = 2
  Drift = FALSE
  EarlyWork = FALSE
  Expiring = {}
INVARIANTS
  TerminalOnce
  CycleTerminalOwed
  ClosedNoProcess
PROPERTIES
  HostSeesTurnByTurn
  ClosedIsFinal
CHECK_DEADLOCK FALSE
