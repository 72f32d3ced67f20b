CONSTANTS
  t1 = t1
  t2 = t2
  t3 = t3
  a1 = a1
  a2 = a2
  b1 = b1
  Turns = {t1, t2, t3}
  Missions = {"m1", "m2"}
  Tools = {a1, a2, b1}
  Modules = {"A", "B"}
  MissionOf <- MCMissionOf
  ModuleOf <- MCModuleOf
  MaxChanges = 1
  MaxLoads = 1
  MaxLapses = 1
  p1 = p1
  p2 = p2
  p3 = p3
  Posts = {p1, p2, p3}
  MaxPauses = 2
  MaxRounds = 2
  MaxErrors = 1
  r1 = r1  r2 = r2  r3 = r3  s1 = s1  s2 = s2
  Refs = {r1, r2, r3}
  Nested = {r3}
  Rows <- FormRows
  Known = {s1, s2}
  Catalogues <- InputSchemas
  Utility = {"help"}
  MinTools = 1
  MaxTools = 2
  MaxMoves = 4
  NumFields = 4
  Config = {1}
  Hidden = {4}
  Inherited = {4}
  Own <- FieldFetchers
  Shape <- FieldShapes
  Inner <- FieldModels
  q1 = q1  q2 = q2
  Requests = {q1, q2}
  CleanMax = 1
  MaxShifts = 2
  m1 = m1
  Files = {1, 2, 3}
  Builtin = {4}
  Passed = {1, 2}
  Package <- FilePackages
  Protocol <- FileProtocols
  Format <- FileFormats
  IsA <- InputFormats
  Runs = {m1}
  MaxDiscoveries = 2
  Listings = {1, 2, 3}
  MaxResults = 2
  MaxRelists = 1
  ToolCalls = {a1, a2}
  MaxFrames = 3
  MaxTroubles = 1
SPECIFICATION Spec
INVARIANTS LoadsInOrder PausesInOrder BuiltAfresh SchemasAreTrue HandlersAnswer PagesAreTrue AnswersAreTrue
CHECK_DEADLOCK FALSE
