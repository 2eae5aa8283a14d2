CONSTANTS
  a = a
  b = b
  x = x
  s1 = s1
  s2 = s2
  Issues = {a, b}
  SprintIds = {x}
  Accounts <- People
  History <- Sites
  Slots = {s1, s2}
  PageSize = 1
  EraseLimit = 1
  MaxWork = 3
  Null = Null
SPECIFICATION Spec
SYMMETRY Sides
INVARIANTS
  TypeOK
  ChildrenAreOneBuild
  ClosedAccountsAreErased
PROPERTIES
  AnswerMeansStored
CHECK_DEADLOCK FALSE
