SPECIFICATION Spec
CONSTANTS
  s1 = s1
  s2 = s2
  k1 = k1
  Sessions = {s1, s2}
  Account <- OneAccount
  Reporting = {s1}
  None = none
  Slots = {1}
  QuotaHaikuTTL = 1
  QuotaFableTTL = 2
  LongTTL = 3
  Backoff <- Backoffs
  Unreported = {"weekly_all"}
  Outcomes = {"error", "unavailable", "unauthenticated", "windows"}
  Resets = {3}
  Retries = {0}
  MaxTime = 3
  MaxReads = 2
  MaxReports = 1
  MaxSeen = 1
  MaxCancels = 1
INVARIANTS
  TypeOK
  OneRefreshPerAccount
  WaitersAreServed
PROPERTIES
  BackoffHolds
  ExhaustionSuppresses
  NewerReadingWins
CHECK_DEADLOCK FALSE
