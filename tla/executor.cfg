SPECIFICATION Spec
CONSTANTS
  b1 = b1
  m1 = m1
  m2 = m2
  g1 = g1
  None = None
  Rows = {a1, b1}
  Missions = {m1, m2}
  MissionOf <- MCMissionOf
  Block <- MCBlock
  Part <- MCPart
  Agents = {g1}
  Sessions = {s1, s2}
  Jobs = {j1, j2}
  AgentRole <- MCAgentRole
  MaxLoad = 1
  Loads = {}
  SessionAgent <- MCSessionAgent
  SessionRole <- MCSessionRole
  Preferred <- MCPreferred
  Requests = {i1}
  RoleOf <- MCRoleOf
  Ops = {"create", "update", "register", "heartbeat", "release", "start", "complete", "event"}
  Asked = {"STAFF"}
  SaveFaults = FALSE
  LoadFaults = FALSE
  Crashes = FALSE
SYMMETRY MCSymmetry
INVARIANTS FreeSessionsCarryNoMission DoneMissionsWereStarted
PROPERTIES DoneIsEarned NoSessionIsTaken
