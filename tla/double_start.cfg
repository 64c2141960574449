SPECIFICATION MCReadySpec
CONSTANTS
  g1 = g1
  g2 = g2
  s1 = s1
  s2 = s2
  None = None
  Rows = {a1}
  Missions = {m1}
  MissionOf <- MCMissionOf
  Block <- MCBlock
  Part <- MCPart
  Agents = {g1}
  Sessions = {s1}
  Jobs = {j1, j2}
  AgentRole <- MCAgentRole
  MaxLoad = 1
  Loads = {}
  SessionAgent <- MCSessionAgent
  SessionRole <- MCSessionRole
  Preferred <- MCPreferred
  Requests = {i1, i2}
  RoleOf <- MCRoleOf
  Ops = {"update"}
  Asked = {"CPP"}
  SaveFaults = FALSE
  LoadFaults = FALSE
  Crashes = FALSE
SYMMETRY MCSymmetry
PROPERTY RunningRowsKeepTheirJob
