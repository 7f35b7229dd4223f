SPECIFICATION Spec
CONSTANTS
  c1 = c1
  c2 = c2
  c3 = c3
  None = None
  Call = {c1, c2, c3}
  Period = 1
  Lead = 2
  Retain = 1
  TokenLife = 1
  Jobs <- SomeJobs
  MaxAges <- NoneZeroOne
  MaxMaxAge = 1
  MaxLatency = 1
  MaxNow = 4
INVARIANT TypeOK
PROPERTIES WithdrawnKeysExpire GenuineTokensAccepted ClaimsAreReadVerified
SYMMETRY Calls
CHECK_DEADLOCK FALSE
