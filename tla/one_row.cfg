SPECIFICATION Spec
CONSTANTS
  g1 = g1
  g2 = g2
  s1 = s1
  s2 = s2
  None = None
  Rows = {a1}
  Missions = {m1}
  MissionOf <- MCMissionOf
  Block <- MCBlock
  Part <- MCPart
  Agents = {g1, g2}
  Sessions = {s1}
  Jobs = {j1, j2}
  AgentRole <- MCAgentRole
  MaxLoad = 1
  Loads = {}
  SessionAgent <- MCSessionAgent
  SessionRole <- MCSessionRole
  Preferred <- MCPreferred
  Requests = {i1}
  RoleOf <- MCRoleOf
  Ops = {"create", "remove", "update", "relay", "register", "heartbeat", "release", "start", "complete", "event", "agent", "watchdog", "manage", "registerMission", "newMission", "onboard"}
  Asked = {"CPP", "STAFF"}
  SaveFaults = TRUE
  LoadFaults = TRUE
  Crashes = TRUE
SYMMETRY MCSymmetry
INVARIANTS Inv TypeOK RunningRowsAreBound FreeSessionsCarryNoMission DoneMissionsWereStarted
PROPERTIES RunningRowsKeepTheirJob DoneIsEarned StartsAreBound RelayedDoneIsStored KeepsContract
