SPECIFICATION Spec
CONSTANTS
  c1 = c1
  c2 = c2
  r1 = r1
  r2 = r2
  None = None
  Call = {c1, c2}
  Setups <- AllSetups
  Region = {r1, r2}
  Installed <- InstalledOnce
  Threshold = 1
  ForceRefreshOnFailure = TRUE
  Lifetimes = {2}
  MaxLatency = 1
  MaxNow = 3
  MaxSwaps = 1
INVARIANTS TypeOK SignedForItsRegion CredentialsAreCached OnlyImpersonatedTokens BoundedEffort
PROPERTY CachedTokenIsLive
SYMMETRY Calls
CHECK_DEADLOCK FALSE
