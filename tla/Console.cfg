SPECIFICATION Spec
CONSTANTS
  Id = {i1, i2}
  Tab = {t1}
  Call = {c1, c2}
  Worker = {w1}
  Tours <- MCTours
  NoId = NoId
  NoRow = NoRow
  NoForm = NoForm
  NoList = NoList
  NoGroup = NoGroup
  Unset = Unset
CHECK_DEADLOCK FALSE
SYMMETRY MCSymmetry
INVARIANTS TypeOK ConsoleInv ListIsCurrent DeletedGroupIsEmpty
PROPERTIES EditKeepsTheRest EditArrives
