SPECIFICATION Spec
CONSTANTS
  Name = {ann, bob}
  Tab = {t1}
  Slot = {s1, s2}
  Elsewhere = {}
  Browser = {b1}
  BrowserOf <- MCBrowserOf
  PublicPath = {"/", "/status/s1"}
  AdminPath = {"/dashboard"}
  BackPath = {}
  MaxChecks = 1
  Faults = {"check", "db", "list"}
  NoName = NoName
SYMMETRY MCSymmetry
CHECK_DEADLOCK FALSE
INVARIANTS TypeOK AdminExists SetupComesFirst SetupEntersOwnAccount WaitsForAnswers
