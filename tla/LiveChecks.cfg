SPECIFICATION FairSpec
CONSTANTS
  Monitor = {m1}
  Config = {"web", "neg"}
  PushConfig = {}
  ProbedConfig = {"web", "neg"}
  Retries <- MCRetries
  Grace <- MCGrace
  Refill <- MCRefill
  Token = {}
  OnPage = {}
  MaxAge = 0
  Check = {c1}
  Heartbeat = {}
  Edit = {e1}
  Page = {}
  HeartbeatStatus = {}
  Faults = {}
  Loop = loop
  NoRow = NoRow
  NoMonitor = NoMonitor
  NoPage = NoPage
  Missed = Missed
INVARIANT DownNeedsAllRetries
PROPERTIES ChecksWindDown EveryTaskEnds
