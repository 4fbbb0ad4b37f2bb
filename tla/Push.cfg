SPECIFICATION Spec
CONSTANTS
  Monitor = {m1, m2}
  Config = {"agent", "web", "odd"}
  PushConfig = {"agent"}
  ProbedConfig = {"web"}
  Retries <- MCRetries
  Grace <- MCGrace
  Refill <- MCRefill
  Token = {m2}
  OnPage = {}
  MaxAge = 2
  Check = {c1}
  Heartbeat = {h1}
  Edit = {e1}
  Page = {}
  HeartbeatStatus = {""}
  Faults = {"db", "crash"}
  Loop = loop
  NoRow = NoRow
  NoMonitor = NoMonitor
  NoPage = NoPage
  Missed = Missed
CONSTRAINT NoneDisturbed
INVARIANTS WorkingCopy IInv OneStory NoRepeatedAlert OverdueVerdictIsCurrent
PROPERTIES NoLostWrite ReportsArePublished
