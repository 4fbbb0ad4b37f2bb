SPECIFICATION Spec
CONSTANTS
  Monitor = {m1}
  Config = {"web"}
  PushConfig = {}
  ProbedConfig = {"web"}
  Retries <- MCRetries
  Grace <- MCGrace
  Refill <- MCRefill
  Token = {}
  OnPage = {m1}
  MaxAge = 0
  Check = {c1}
  Heartbeat = {}
  Edit = {e1}
  Page = {p1}
  HeartbeatStatus = {}
  Faults = {}
  Loop = loop
  NoRow = NoRow
  NoMonitor = NoMonitor
  NoPage = NoPage
  Missed = Missed
INVARIANT CachedStatusIsCurrent
