CONSTANTS
  c1 = c1  c2 = c2  c3 = c3
  i1 = i1  i2 = i2  i3 = i3
  Calls = {c1, c2}
  Ids = {i1, i2}
  Id <- TwoIdPerCall
  ConfigJobs = {k1}
  Cancellers = {}
  NoOne = NoOne
  MaxConc = 1
  MaxQueued = 1
  MaxSignals = 1
  DrainYields = TRUE
  SignalFaults = TRUE
  ShutdownCalled = TRUE
SPECIFICATION Spec
INVARIANTS SlotsAccounted AckAgreesWithOutcome
PROPERTIES TerminalIsFinal
CHECK_DEADLOCK FALSE
