SPECIFICATION FairSpec
CONSTANTS
  Name = {ann}
  Tab = {t1}
  Slot = {s1}
  Elsewhere = {e1}
  Browser = {b1}
  BrowserOf <- MCBrowserOf
  PublicPath = {"/", "/status/s1"}
  AdminPath = {"/dashboard"}
  BackPath = {"/setup"}
  MaxChecks = 0
  Faults = {"check", "db", "net"}
  NoName = NoName
CHECK_DEADLOCK FALSE
PROPERTIES LoaderEnds SetupIsLeft SignedOutLeaves FormsEnd
