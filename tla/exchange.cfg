SPECIFICATION Spec
CONSTANTS
  c1 = c1
  c2 = c2
  r1 = r1
  r2 = r2
  None = None
  Call = {c1, c2}
  Setups <- AllSetups
  Role = {r1, r2}
  Region = "us-east-2"
  Audience = Audience
  App = App
  Library = Library
  Node = Node
  Auth = Auth
  DayLength = 2
  MaxNow = 2
  MaxKeys = 1
  MaxSends = 2
INVARIANTS ExchangesCanBeGranted RefusalsKeepTheirStatus CodesAreRedeemable IdentifiedOnce
CHECK_DEADLOCK FALSE
