SPECIFICATION ExecutorsSpec
CONSTANTS
  r1 = r1
  r2 = r2
  m1 = m1
  m2 = m2
  g1 = g1
  s1 = s1
  None = None
  Rows = {r1}
  Missions = {m1, m2}
  MissionOf <- MCMissionOf
  Block <- MCBlock
  Part <- MCPart
  Agents = {g1}
  Sessions = {s1}
  Jobs = {j1}
  AgentRole <- MCAgentRole
  MaxLoad = 1
  Loads = {0, 1}
  SessionAgent <- MCSessionAgent
  SessionRole <- MCSessionRole
  Preferred <- MCPreferred
  Requests = {b, x}
  BridgeSlot = b
  BridgeSession = s1
  Losses = 1
  Turns = 2
  RoleOf <- MCRoleOf
  Ops = {"update", "direct", "release", "agent", "heartbeat", "event", "complete"}
  Asked = {"CPP"}
  SaveFaults = FALSE
  LoadFaults = FALSE
  Crashes = FALSE
INVARIANTS FreeSessionsCarryNoMission DoneRowsWereExecuted DoneFilesCloseTheirMission
PROPERTIES LoadSettles ReportedWorkIsClosed
CHECK_DEADLOCK FALSE
