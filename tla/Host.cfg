CONSTANTS
  p1 = p1  p2 = p2
  Posts = {p1, p2}
  MaxStreams = 2
  MaxStarts = 2
  MaxMishaps = 2
  MaxOut = 2
  MaxCancels = 3
  MaxUpsets = 2
  v1 = v1  v2 = v2
  Pulls = {v1, v2}
  MaxOutputs = 2
  StreamMax = 1
  ReadCount = 2
  SaveEvery = 1
  SeqLimit = 2
  MaxMessages = 2
  MaxBreaches = 1
SPECIFICATION Spec
INVARIANTS EndsInOrder LeavesNothing PullsInOrder
PROPERTIES WindsUp BackOnAir
CHECK_DEADLOCK FALSE
