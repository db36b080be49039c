SPECIFICATION Spec
SYMMETRY Symmetric
CONSTANTS
  Prompts = {p1, p2}
  Reads = {}
  Establish = est
  Closer = closer
  None = none
  Agent = agent
  Ephemeral = FALSE
  HostCloses = FALSE
  MaxGen = 2
  MaxEvents = 3
  MaxQueue = 2
  MaxCancels = 2
  MaxFaults = 1
  Drift = FALSE
  EarlyWork = FALSE
  Expiring = {}
INVARIANTS
  TypeOK
  OneForeground
  OneProcess
  TerminalOnce
  TerminalWhereAccepted
  DurableTurns
  TurnTerminalOwed
  CancelHonoured
  InterruptJoined
  CycleHasOwner
PROPERTIES
  OpensOnFencedStream
CHECK_DEADLOCK FALSE
