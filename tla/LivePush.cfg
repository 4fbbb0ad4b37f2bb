SPECIFICATION FairSpec
CONSTANTS
  Monitor = {m1}
  Config = {"agent"}
  PushConfig = {"agent"}
  ProbedConfig = {}
  Retries <- MCRetries
  Grace <- MCNoGrace
  Refill <- MCRefill
  Token = {m1}
  OnPage = {}
  MaxAge = 1
  Check = {}
  Heartbeat = {h1}
  Edit = {e1}
  Page = {}
  HeartbeatStatus = {"down", "other"}
  Faults = {}
  Loop = loop
  NoRow = NoRow
  NoMonitor = NoMonitor
  NoPage = NoPage
  Missed = Missed
PROPERTIES OverdueIsMarked OverdueIsAnnounced LoopReturns
