CONSTANTS
  c1 = c1  c2 = c2  c3 = c3
  i1 = i1  i2 = i2  i3 = i3
  Calls = {c1, c2}
  Ids = {i1, i2}
  Id <- TwoIdPerCall
  ConfigJobs = {}
  Cancellers = {o1, o2}
  NoOne = NoOne
  MaxConc = 1
  MaxQueued = 1
  MaxSignals = 1
  DrainYields = TRUE
  SignalFaults = FALSE
  ShutdownCalled = FALSE
SPECIFICATION Spec
INVARIANTS OverBeforeFreed SignalsReachTask
CHECK_DEADLOCK FALSE
