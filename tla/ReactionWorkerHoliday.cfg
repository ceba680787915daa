CONSTANTS
  p1 = p1
  p2 = p2
  a = a
  b = b
  Procs = {p1}
  Events = {a}
  Intraday = {"5m"}
  Delay <- MCDelay
  Day <- MCDay
  Stamp <- MCStamp
  OpenAt <- MCOpenAt
  CloseAt <- MCCloseAt
  Weekdays <- MCLongWeekdays
  Tapes <- MCLongTape
  Jumps <- MCJumps
  FilingTimes = {12}
  OpenSettle = 1
  Window = 4
  Lookback = 1
  OffHoursLookback = 8
  BarDelay = 1
  WeekBars = 2
  StaleAfter = 16
  MaxAttempts = 2
  ClaimLimit = 3
  Never = Never
  NoEvent = NoEvent
  CanReset = FALSE
  MaxTime = 31
  MaxLag = 0
  MaxFaults = 0
SPECIFICATION Spec
INVARIANTS
  OpenWaits
CHECK_DEADLOCK FALSE
