SPECIFICATION Spec
SYMMETRY Symmetry
CONSTANTS
  c1 = c1
  c2 = c2
  i1 = i1
  i2 = i2
  None = None
  Inputs = {i1, i2}
  Callers = {c1}
  Kinds = {"enqueue", "promote", "abort", "resume", "remove"}
  MaxAttempt = 1
  MaxCalls = 4
  MaxMishaps = 0
  Overtaking = FALSE
  EagerResume = FALSE
CHECK_DEADLOCK FALSE
INVARIANTS TypeOK RemovedNeverRuns
PROPERTIES Delivers OldestFirst
