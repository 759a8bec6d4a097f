SPECIFICATION DirectorySpec
CONSTANTS
  Sessions = {s1, s2}
  Requests = {q1, q2}
  Kinds = {"revive"}
  MaxMishaps = 0
  Nothing = Nothing
CHECK_DEADLOCK FALSE
PROPERTY RevivalKeepsRecord
