SPECIFICATION Spec
SYMMETRY Symmetry
CONSTANTS
  c1 = c1
  c2 = c2
  i1 = i1
  i2 = i2
  None = None
  Inputs = {i1, i2}
  Callers = {c1, c2}
  Kinds = {"enqueue", "promote", "abort", "remove"}
  MaxAttempt = 1
  MaxCalls = 5
  MaxMishaps = 0
  Overtaking = TRUE
  EagerResume = FALSE
CHECK_DEADLOCK FALSE
PROPERTIES RemovedStaysRemoved
