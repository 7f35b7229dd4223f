SPECIFICATION Spec
CONSTANTS
  c1 = c1
  c2 = c2
  c3 = c3
  None = None
  Call = {c1, c2}
  Caller = {c1, c2}
  Machines <- Somewhere
  MaxClears = 1
  Scenarios <- VariableOnly
INVARIANT ClientOptionsUsed
CHECK_DEADLOCK FALSE
