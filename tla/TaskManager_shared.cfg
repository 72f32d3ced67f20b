CONSTANTS
  c1 = c1  c2 = c2  c3 = c3
  i1 = i1  i2 = i2  i3 = i3
  Calls = {c1, c2, c3}
  Ids = {i1, i2}
  Id <- IdShared
  ConfigJobs = {}
  Cancellers = {}
  NoOne = NoOne
  MaxConc = 2
  MaxQueued = 1
  MaxSignals = 1
  DrainYields = FALSE
  SignalFaults = FALSE
  ShutdownCalled = FALSE
SPECIFICATION Spec
INVARIANTS OneRunPerId
PROPERTIES ImplementsAdmission
CHECK_DEADLOCK FALSE
