SPECIFICATION RecordsSpec
CONSTANTS
  None = None
  g1 = g1
  old1 = old1
  m1 = m1
  m2 = m2
  o1 = o1
  o2 = o2
  Agents = {g1}
  Missions = {m1, m2}
  SaveFaults = TRUE
  LoadFaults = TRUE
  Owners = {o1, o2}
  Registrations = {i1, i2}
  Contracts <- MCContracts
  Policies <- MCPolicies
  DefaultPolicy <- MCDefault
  UsageRows = 2
  LastDay = 2
  MonthOf <- MCMonths
  MaxTaken = 3
  OfficeOrder <- MCOrder
  MaxMembers = 1
  LegacyRole <- MCLegacy
  HomeRole <- MCHome
  Nodes <- MCNodes
  Reports <- MCReports
  OfficeRequests = {r1, r2}
  OfficeTurns = 3
  Branches = {main, b1}
  Main = main
  Edits = {e1, e2}
  Runs = 2
SYMMETRY MCSymmetry
INVARIANTS
  StoredUsageWithinLimit
  TakenWithinLimit
  NormalizingKeepsTheKnown
  DoneWorkStaysPublished
PROPERTIES
  MovesLeaveOnePlace
CHECK_DEADLOCK FALSE
