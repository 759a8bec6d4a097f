SPECIFICATION FairSpec
CONSTANTS
  c1 = c1
  c2 = c2
  i1 = i1
  i2 = i2
  None = None
  Inputs = {i1, i2}
  Callers = {c1}
  Kinds = {"followUp", "prompt"}
  MaxAttempt = 1
  MaxCalls = 2
  MaxMishaps = 1
  Overtaking = FALSE
  EagerResume = FALSE
CHECK_DEADLOCK FALSE
PROPERTIES Reopens
