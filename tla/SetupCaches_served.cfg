CONSTANTS
  s1 = s1  s2 = s2  m1 = m1  m2 = m2
   p1 = p1  p2 = p2  a1 = a1
  Setups = {s1, s2}  Served = {s1}
  Modules = {m1, m2}
  Kinds = {"tool", "service"}
  Backing <- ModuleBehind
  KindOf <- TypeOfModule
  Initially <- OnlyTool
  MaxVersion = 2
  Procs = {p1, p2}
  NumRuns = 2 Configured = p1
  Calls = {a1}  AgentAt <- AgentProcess
  CacheMax = 1
  MaxEvents = 2
SPECIFICATION FairSpec
INVARIANTS CachesInOrder
PROPERTIES NoForeignWrite RunsEnd
CHECK_DEADLOCK FALSE
