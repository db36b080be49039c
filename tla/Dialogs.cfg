SPECIFICATION Spec
SYMMETRY Symmetric
CONSTANTS
  Requests = {q1, q2}
  Prompts = {p1}
  Cycles = {c1}
  MaxClientCalls = 1
  None = none
INVARIANTS
  TypeOK
  DialogHasForeground
  CancelledDialogsEnd
  JoinedAreCancelled
CHECK_DEADLOCK FALSE
