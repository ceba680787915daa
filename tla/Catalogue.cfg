SPECIFICATION Spec
CONSTANTS
  Firms = {"acme"}
  Posts = {"p1", "p2", "p3"}
  NoFirm = NoFirm
  Of <- MCOf
  Signal <- MCSignal
  Types <- MCTypes
  Tone <- MCTone
  Grade <- MCGrade
  NoGrade = NoGrade
  Filed <- MCFiled
  Mine = {"acme"}
  Sectors = {"Energy"}
  Industries = {"Banks"}
  EventTypes = {"Earnings", "Other"}
  Tones = {"Positive", "Mixed"}
  CapBuckets <- MCCapBuckets
  NoLimit = NoLimit
  Unknown = Unknown
  Prices = {1}
  Shares = {1}
  Caps = {1, 2}
  Unit = 2
  Says <- MCSays
  Spelled <- MCSpelled
  Queries <- MCQueries
  Views <- MCViews
  PerPage = 1
  MaxChanges = 2
  MaxCached = 1
  sa = sa
  sb = sb
  sd = sd
  api = api
  Stocks = {sa, sb, sd}
  ByCap <- MCByCap
  Delisted = {sd}
  Watched = {}
  Filers = {}
  Reporters = {sb}
  MaxRetries = 2
  Instances = {api}
  Cron = Cron
  SyncLimit = 1
  RefreshDays = 1
  RetryDays = 1
  MaxBackfills = 1
  NoSnap = NoSnap
  NoReport = NoReport
  MaxNudges = 1
  MaxSyncFaults = 1
INVARIANTS
  FacetsHonest
  NothingSkipped
PROPERTIES
  EveryoneIsTried
  BuildingLands
CHECK_DEADLOCK FALSE
