SPECIFICATION FairSpec
CONSTANTS
  a1 = a1
  a2 = a2
  c1 = c1
  c2 = c2
  c3 = c3
  None = None
  Call = {c1, c2}
  Methods = {"request"}
  RefreshToken = {a1, a2}
  Stashed <- UndatedOnly
  Threshold = 1
  ForceRefreshOnFailure = FALSE
  ApiKeys = {FALSE}
  Lifetimes = {3}
  ReportsExpiry = TRUE
  MaxLatency = 1
  MaxNow = 6
  MaxSwaps = 0
  SwapsOverlap = TRUE
PROPERTIES StashedTokenIsReplayed
CHECK_DEADLOCK FALSE
