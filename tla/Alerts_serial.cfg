SPECIFICATION Spec
CONSTANTS
  hourly = hourly
  daily = daily
  chat = chat
  mail = mail
  Rules = {daily, hourly}
  Subjects = {i1, i2}
  Dests = {chat, mail}
  EventRules = {hourly}
  DailyRules = {daily}
  Slots = {s1}
  Overlap = FALSE
  DayLength = 2
  DefaultCooldown = 2
  Ceiling = 1
  Overrides = {0}
  PauseThreshold = 2
  InitBindings <- MCBindings
  Choices <- MCChoices
  Defaults = {mail}
  MaxTime = 2
  MaxRequests = 3
  MaxTroubles = 1
  None = None
SYMMETRY Alike
INVARIANTS
  TypeOK
  PushedOnce
  MessagesAreSpaced
  AlertsAreHandled
  PausesFollowFailures
  DigestsApart
CHECK_DEADLOCK FALSE
