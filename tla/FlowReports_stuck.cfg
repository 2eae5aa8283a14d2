SPECIFICATION Spec
CONSTANTS
  SecondLength = 1
  DayLength = 2
  WeekLength = 2
  NoSchedule = NoSchedule
  Null = Null
  todo = todo
  doing = doing
  done = done
  ToDo = ToDo
  Review = Review
  REVIEW = REVIEW
  Done = Done
  StatusIds = {todo, doing, done}
  Names = {ToDo, Review, REVIEW, Done}
  NamesOf <- MCNamesOf
  Alphabet <- MCAlphabet
  CaseFold <- MCCaseFold
  a = a
  b = b
  movesA = 2
  movesB = 1
  Issues = {a, b}
  Existing = {a}
  FirstStatus = todo
  DoneIds = {done}
  Unset = Unset
  TenantWide = TenantWide
  DefaultStatuses <- MCDefaultStatuses
  MonthStarts <- MCMonthStarts
  MinTimeBaseline = 2
  RecentDays = 3
  HourLength = 1
  AlertThreshold = 1
  WorkSchedules <- MCSchedules
  MaxTime = 3
  MaxMoves <- MCMaxMoves
  EditedIssues = {}
INVARIANTS
  StuckTicketsAlert
CHECK_DEADLOCK FALSE
