SPECIFICATION Spec
CONSTANTS
  Id = {i1}
  Tab = {t1}
  Call = {c1}
  Worker = {}
  Tours <- PageTour
  NoId = NoId
  NoRow = NoRow
  NoForm = NoForm
  NoList = NoList
  NoGroup = NoGroup
  Unset = Unset
CHECK_DEADLOCK FALSE
PROPERTY PageEditKeepsTheRest
