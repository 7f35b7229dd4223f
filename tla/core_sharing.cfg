SPECIFICATION Spec
CONSTANTS
  a1 = a1
  a2 = a2
  c1 = c1
  c2 = c2
  c3 = c3
  None = None
  Call = {c1, c2, c3}
  Methods = {"request", "getAccessToken", "revokeCredentials"}
  RefreshToken = {a1, a2}
  Stashed <- TwoAccounts
  Threshold = 1
  ForceRefreshOnFailure = FALSE
  ApiKeys = {FALSE}
  Lifetimes = {1}
  ReportsExpiry = TRUE
  MaxLatency = 1
  MaxNow = 1
  MaxSwaps = 1
  SwapsOverlap = TRUE
INVARIANTS SingleFlight NoOrphanWaiter
PROPERTIES TokensNeverGoBack RefreshTokenIsTheApplications
SYMMETRY Calls
CHECK_DEADLOCK FALSE
