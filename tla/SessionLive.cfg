SPECIFICATION FairSpec
CONSTANTS
  Prompts = {p1}
  Reads = {}
  Establish = est
  Closer = closer
  None = none
  Agent = agent
  Ephemeral = FALSE
  HostCloses = TRUE
  MaxGen = 2
  MaxEvents = 2
  MaxQueue = 2
  MaxCancels = 1
  MaxFaults = 1
  Drift = FALSE
  EarlyWork = FALSE
  Expiring = {}
PROPERTIES
  CloseCompletes
  CancelAnswered
  LossAnswered
CHECK_DEADLOCK FALSE
