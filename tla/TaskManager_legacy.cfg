CONSTANTS
  c1 = c1  c2 = c2  c3 = c3
  i1 = i1  i2 = i2  i3 = i3
  Calls = {c1, c2}
  Ids = {i1, i2}
  Id <- TwoIdPerCall
  ConfigJobs = {}
  Cancellers = {}
  NoOne = NoOne
  MaxConc = 1
  MaxQueued = 0
  MaxSignals = 0
  DrainYields = TRUE
  SignalFaults = TRUE
  ShutdownCalled = TRUE
SPECIFICATION Spec
INVARIANTS QuiescentRestored
PROPERTIES WaitersGetOn
CHECK_DEADLOCK FALSE
