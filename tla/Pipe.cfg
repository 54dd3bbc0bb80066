SPECIFICATION MCFairSpec
CONSTANTS
  p1 = p1
  p2 = p2
  p3 = p3
  a = a
  b = b
  Procs = {p1, p2, p3}
  Values = {a, b}
  PIPESIZE = 2
  WRAP = 4
  Counts = {1, 3}
  Failed = Failed
  Killable = {p1}
CHECK_DEADLOCK FALSE
INVARIANTS SleepersWait NoUseAfterFree
PROPERTIES StreamSpec Hangup
