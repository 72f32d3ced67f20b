CONSTANTS
  c1 = c1  c2 = c2  c3 = c3
  Calls = {c1, c2, c3}
  Silent = {c2, c3}
  MaxConcurrent = 2
  FailMax = 2
  QueueMax = 2
  MaxOut = 1
  MaxDials = 2
SPECIFICATION Spec
INVARIANTS CallsAccounted ReturnedIsComplete
PROPERTIES AnsweredCallEnds
CHECK_DEADLOCK FALSE
