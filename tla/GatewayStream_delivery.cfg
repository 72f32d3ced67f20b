CONSTANTS
  r1 = r1  r2 = r2
  Requests = {r1, r2}
  None = None
  MaxOut = 2
  MaxRedials = 2
  MaxFaults = 1
  AtCapacity = TRUE
  LateReplies = FALSE
  LosesOutputs = FALSE
SPECIFICATION Spec
INVARIANTS RunsOnceClaimed EndIsComplete
PROPERTIES ImplementsDelivery SessionsFreed
CHECK_DEADLOCK FALSE
