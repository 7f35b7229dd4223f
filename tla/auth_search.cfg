SPECIFICATION FairSpec
CONSTANTS
  c1 = c1
  c2 = c2
  c3 = c3
  None = None
  Call = {c1, c2, c3}
  Caller = {c1, c2, c3}
  Machines <- Somewhere
  MaxClears = 1
  Scenarios <- AllScenarios
INVARIANTS TypeOK PrecedenceKept UncontestedJsonMatches SignsForItsClient
PROPERTIES EveryCallSettles EnvMemoised ProjectMemoised
CHECK_DEADLOCK FALSE
