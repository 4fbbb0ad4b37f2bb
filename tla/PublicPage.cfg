SPECIFICATION Spec
CONSTANTS
  Monitor = {m1}
  Config = {"web", "web0", "agent"}
  PushConfig = {"agent"}
  ProbedConfig = {"web", "web0"}
  Retries <- MCRetries
  Grace <- MCGrace
  Refill <- MCRefill
  Token = {}
  OnPage = {m1}
  MaxAge = 1
  Check = {c1, c2}
  Heartbeat = {}
  Edit = {e1}
  Page = {p1, p2}
  HeartbeatStatus = {}
  Faults = {"db", "redis", "crash"}
  Loop = loop
  NoRow = NoRow
  NoMonitor = NoMonitor
  NoPage = NoPage
  Missed = Missed
CONSTRAINT SomeClear
SYMMETRY MCSymmetry
INVARIANTS TypeOK CachedPageIsCurrent PagesMatch
