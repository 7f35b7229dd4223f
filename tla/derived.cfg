SPECIFICATION DerivedSpec
CONSTANTS
  c1 = c1
  c2 = c2
  u1 = u1
  u2 = u2
  None = None
  Call = {c1, c2}
  Methods = {"request", "getRequestHeaders", "getAccessToken", "refreshAccessToken", "revokeCredentials"}
  MoreMethods = {"authorize", "idTokenRequest"}
  Placeholder = Placeholder
  Unshared = Unshared
  RefreshToken = {Placeholder, Unshared}
  Url = {u1, u2}
  SignedLifetime = 3
  Stashed <- AllCredentials
  Installed <- AccessTokenOnly
  Threshold = 1
  ForceRefreshOnFailure = TRUE
  ApiKeys = {FALSE}
  Lifetimes = {3}
  ReportsExpiry = TRUE
  MaxLatency = 1
  MaxNow = 4
  MaxSwaps = 0
  SwapsOverlap = TRUE
INVARIANTS DerivedTypeOK BoundedEffort
PROPERTIES SelfSignedFitsItsRequest CachedTokenIsLive ExpiringTokenIsReplaced
  PlaceholderKept IdTokenInTime DerivedSharedSpec
SYMMETRY Symmetry
CHECK_DEADLOCK FALSE
