SPECIFICATION FairSpec
CONSTANTS
  c1 = c1
  c2 = c2
  i1 = i1
  i2 = i2
  None = None
  Inputs = {i1, i2}
  Callers = {c1}
  Kinds = {"enqueue", "promote"}
  MaxAttempt = 1
  MaxCalls = 3
  MaxMishaps = 0
  Overtaking = FALSE
  EagerResume = FALSE
CHECK_DEADLOCK FALSE
PROPERTIES QueueDrains
