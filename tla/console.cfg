SPECIFICATION ConsoleSpec
CONSTANTS
  None = None
  g1 = g1
  Agents = {g1}
  Missions = {}
  SaveFaults = TRUE
  LoadFaults = TRUE
  Feeds = {"chat", "memory"}
  Checked = {"chat"}
  Sectional = {"memory"}
  Sections = {"visao", "chat", "memory"}
  ConsoleTurns = 3
  LastId = 2
  Goals = {ga}
  FormTurns = 3
  OfficeOrder <- MCOrder
  MaxMembers = 2
  LegacyRole <- MCLegacy
  HomeRole <- MCHome
  Nodes = {}
  Reports = {}
  OfficeRequests = {}
  OfficeTurns = 0
  Work = {w1}
  WorkAssignee <- MCWorkAssignee
  WorkStatus = {"in_progress", "done"}
  Poll = poll
  Handlers = {h1}
  Changes = 2
  Messages <- MCMessages
  FirstLog <- MCLog
  Posts = {p1, p2}
  Loop = lp
  LogRows = 5
  ViewRows = 3
  ChatTurns = 2
INVARIANTS
  CountedOnce
  AnsweredOnce
PROPERTIES
  SentOnce
  ShownSettles
  PresenceSettles
  LoopCatchesUp
CHECK_DEADLOCK FALSE
