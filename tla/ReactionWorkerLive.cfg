CONSTANTS
  p1 = p1
  p2 = p2
  a = a
  b = b
  Procs = {p1}
  Events = {a}
  Intraday = {"5m", "1h"}
  Delay <- MCDelay
  Day <- MCDay
  Stamp <- MCStamp
  OpenAt <- MCOpenAt
  CloseAt <- MCCloseAt
  Weekdays <- MCWeekdays
  Tapes <- MCTapes
  Jumps <- MCJumps
  FilingTimes = {5, 13}
  OpenSettle = 1
  Window = 4
  Lookback = 1
  OffHoursLookback = 8
  BarDelay = 1
  WeekBars = 2
  StaleAfter = 4
  MaxAttempts = 2
  ClaimLimit = 1
  Never = Never
  NoEvent = NoEvent
  CanReset = FALSE
  MaxTime = 23
  MaxLag = 0
  MaxFaults = 1
SPECIFICATION Spec
PROPERTIES
  DueIsSettled
  JumpIsAlerted
CHECK_DEADLOCK FALSE
