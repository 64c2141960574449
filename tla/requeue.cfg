SPECIFICATION MCWorkingSpec
CONSTANTS
  a1 = a1
  m1 = m1
  g1 = g1
  g2 = g2
  s1 = s1
  j1 = j1
  None = None
  Rows = {a1}
  Missions = {m1}
  MissionOf <- MCMissionOf
  Block <- MCBlock
  Part <- MCPart
  Agents = {g1, g2}
  Sessions = {s1}
  Jobs = {j1}
  AgentRole <- MCAgentRole
  MaxLoad = 1
  Loads = {}
  SessionAgent <- MCSessionAgent
  SessionRole <- MCSessionRole
  Preferred <- MCPreferred
  Requests = {i1}
  RoleOf <- MCRoleOf
  Ops = {"manage", "relay"}
  Asked = {"CPP", "CPP-IA"}
  SaveFaults = FALSE
  LoadFaults = FALSE
  Crashes = FALSE
PROPERTY RequeuedRowsNeedAStart
