SPECIFICATION MCSpec
CONSTANTS
  blk = blk
  staff = staff
  pa = pa
  cpp1 = cpp1
  cpp2 = cpp2
  g1 = g1
  s1 = s1
  j1 = j1
  j2 = j2
  j3 = j3
  None = None
  Rows = {blk, staff, pa, cpp1, cpp2}
  Missions = {blk, staff, pa, cpp1, cpp2}
  MissionOf <- MCMissionOf
  Block <- MCBlockOf
  Part <- MCPart
  Agents = {g1}
  Sessions = {s1}
  Jobs = {j1, j2, j3}
  AgentRole <- MCAgentRole
  MaxLoad = 1
  Loads = {}
  SessionAgent <- MCSessionAgent
  SessionRole <- MCSessionRole
  Preferred <- MCPreferred
  Requests = {i1}
  RoleOf <- MCRoleOf
  Ops = {"update"}
  Asked = {"STAFF"}
  SaveFaults = FALSE
  LoadFaults = FALSE
  Crashes = FALSE
INVARIANTS DoneRowsWereExecuted
PROPERTIES DoneIsEarned MpbClosureIsComplete BothClosuresAgree
