SPECIFICATION Spec
SYMMETRY Symmetric
CONSTANTS
  News = {}
  Ephemerals = {}
  Restores = {r1, r2}
  Closes = {c1}
  Deletes = {d1}
  Lists = {l1}
  Shutdowns = {}
  Ids = {"kept", "fresh"}
  IdOf <- KeptIds
  StoredAtStart = {"kept"}
  MaxActiveSessions = 2
  None = none
INVARIANTS
  TypeOK
  OneProcessPerId
  DeletedIsGone
  AnsweredCloseIsDone
  ListTruthful
CHECK_DEADLOCK FALSE
