SPECIFICATION Spec
CONSTANTS
  a1 = a1
  a2 = a2
  c1 = c1
  c2 = c2
  c3 = c3
  None = None
  Call = {c1, c2}
  Methods <- Kinds
  RefreshToken = {a1, a2}
  Stashed <- Switching
  Threshold = 1
  ForceRefreshOnFailure = TRUE
  ApiKeys = {FALSE, TRUE}
  Lifetimes = {2}
  ReportsExpiry = TRUE
  MaxLatency = 1
  MaxNow = 3
  MaxSwaps = 1
  SwapsOverlap = FALSE
INVARIANTS TypeOK BoundedEffort TokensBelongTogether
PROPERTIES CachedTokenIsLive ReplayUsesANewToken
SYMMETRY Calls
CHECK_DEADLOCK FALSE
