CONSTANTS
  p1 = p1
  p2 = p2
  a = a
  b = b
  Procs = {p1, p2}
  Events = {a, b}
  Intraday = {"5m", "1h"}
  Delay <- MCDelay
  Day <- MCDay
  Stamp <- MCStamp
  OpenAt <- MCOpenAt
  CloseAt <- MCCloseAt
  Weekdays <- MCWeekdays
  Tapes <- MCTape
  Jumps <- MCJumps
  FilingTimes = {4, 5}
  OpenSettle = 1
  Window = 4
  Lookback = 1
  OffHoursLookback = 8
  BarDelay = 1
  WeekBars = 2
  StaleAfter = 6
  MaxAttempts = 2
  ClaimLimit = 3
  Never = Never
  NoEvent = NoEvent
  CanReset = TRUE
  MaxTime = 8
  MaxLag = 0
  MaxFaults = 1
SPECIFICATION Spec
INVARIANTS
  ReadsRightTrade
  NoLookahead
  OneSession
SYMMETRY Twins
CHECK_DEADLOCK FALSE
