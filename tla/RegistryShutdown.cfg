SPECIFICATION FairSpec
CONSTANTS
  News = {n1}
  Ephemerals = {n1}
  Restores = {r1}
  Closes = {c1}
  Deletes = {}
  Lists = {}
  Shutdowns = {g1}
  Ids = {"kept", "fresh"}
  IdOf <- FreshIds
  StoredAtStart = {"kept"}
  MaxActiveSessions = 1
  None = none
INVARIANTS
  ActiveWithinLimit
PROPERTIES
  RequestsEnd
  ClosedDrains
CHECK_DEADLOCK FALSE
