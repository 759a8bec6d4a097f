SPECIFICATION Spec
SYMMETRY Symmetry
CONSTANTS
  c1 = c1
  c2 = c2
  i1 = i1
  i2 = i2
  None = None
  Inputs = {i1, i2}
  Callers = {c1, c2}
  Kinds = {"enqueue", "steer", "interrupt", "select", "promote", "external"}
  MaxAttempt = 1
  MaxCalls = 3
  MaxMishaps = 0
  Overtaking = FALSE
  EagerResume = FALSE
CHECK_DEADLOCK FALSE
INVARIANTS ExternalExclusive
