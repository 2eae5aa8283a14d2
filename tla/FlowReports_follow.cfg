SPECIFICATION Spec
CONSTANTS
  SecondLength = 2
  DayLength = 2
  WeekLength = 2
  NoSchedule = NoSchedule
  Null = Null
  todo = todo
  doing = doing
  done = done
  ToDo = ToDo
  Review = Review
  REVIEW = REVIEW
  Done = Done
  StatusIds = {todo, doing, done}
  Names = {ToDo, Review, REVIEW, Done}
  NamesOf <- MCNamesOf
  Alphabet <- MCAlphabet
  CaseFold <- MCCaseFold
  a = a
  b = b
  movesA = 2
  movesB = 0
  Issues = {a, b}
  Existing = {b}
  FirstStatus = doing
  DoneIds = {done}
  Unset = Unset
  TenantWide = TenantWide
  DefaultStatuses <- MCDefaultStatuses
  MonthStarts <- MCMonthStarts
  MinTimeBaseline = 2
  RecentDays = 3
  HourLength = 2
  AlertThreshold = 1
  WorkSchedules <- MCSchedules
  MaxTime = 4
  MaxMoves <- MCMaxMoves
  EditedIssues = {b}
INVARIANTS
  TypeOK
  SlicesPartition
  SlicesTellHistory
  DurationsAdd
  AgeSinceEntry
  AlertsTellHistory
  GroupsPartition
  WindowsMatchHistory
  CfdShowsHistory
CHECK_DEADLOCK FALSE
