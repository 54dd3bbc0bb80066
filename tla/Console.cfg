SPECIFICATION Spec
CONSTANTS
  Procs = {p1, p2}
  INPUT_BUF = 2
  WRAP = 4
  Counts = {0, 1, 3}
  Killable = {p1}
INVARIANT ReadersWait
PROPERTY LinesSpec
