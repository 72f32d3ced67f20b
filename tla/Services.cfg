CONSTANTS
  a1 = a1  a2 = a2  d1 = d1  d2 = d2  c1 = c1  addr1 = addr1  addr2 = addr2
  Takers = {a1, a2, d1, d2, c1}
  Keys = {addr1, addr2}
  KeyOf <- KeyOfTaker
  KindOf <- KindOfTaker
  MaxChannels = 3
  MaxUpsets = 2
  Calls = {q1, q2, q3}
  MaxRetries = 1
  MaxBreakers = 2
  MaxCools = 2
  FailMax = 1
  p1 = p1  p2 = p2  p3 = p3  v1 = v1  v2 = v2  t1 = t1
  s1 = s1  s2 = s2  h1 = h1  r1 = r1
  f0 = f0  f1 = f1  f2 = f2  f3 = f3  odd = odd
  Clients = {p1, p2, p3, v1, v2, t1}
  Strategies = {s1, s2}
  StrategyOf <- VisitorApart
  Records = {r1}
  Collections <- OneCollection
  Values <- Payloads
  Misfits = {odd}
  Absent = Absent
  MaxLocks = 3
  MaxFaults = 1
  Handlers = {h1}
  Writers = {p1, p2, p3}
  Visitors = {v1, v2}
  HandlerOf <- OneHandler
  Runner <- OneRunner
  HistoryOf <- OneHistory
  FileOf <- FilePerWriter
  Threshold = 2
  Nobody = Nobody
  MaxVisits = 1
  Stores = {"run1", "run2"}
  Groups = {"notes", "tools"}
  Docs = {"d"}
  Bodies = {"x", "y"}
  MaxEdits = 3
  u1 = u1  u2 = u2  n1 = n1  n2 = n2
  Users = {u1, u2}
  Titles = {n1, n2}
  Bytes = {"old", "new"}
  MaxFiles = 2
  MaxTasks = 3
  e1 = e1  e2 = e2  e3 = e3
  Costs = {e1, e2, e3}
  Labels = {"input", "output"}
  LabelOf <- TwoLabels
  Rates = {"token", "call"}
  RateOf <- TwoRates
  MaxRepeats = 2
  MaxBreaks = 3
SPECIFICATION Spec
INVARIANTS PoolInOrder ProbesAreLocked AppendsAreKept KeptAsTold
PROPERTIES WritesOnlyAdd
CHECK_DEADLOCK FALSE
