SPECIFICATION Spec
CONSTANTS
  s1 = s1
  s2 = s2
  k1 = k1
  Sessions = {s1, s2}
  Account <- OneAccount
  Reporting = {s1}
  None = none
  Slots = {1}
  QuotaHaikuTTL = 1
  QuotaFableTTL = 2
  LongTTL = 3
  Backoff <- Backoffs
  Unreported = {}
  Outcomes = {"error", "unavailable", "unauthenticated", "windows"}
  Resets = {0}
  Retries = {0}
  MaxTime = 3
  MaxReads = 2
  MaxReports = 1
  MaxSeen = 2
  MaxCancels = 1
PROPERTIES
  RefusalInvalidatesOnlyItsWindow
CHECK_DEADLOCK FALSE
