SPECIFICATION RegistrySpec
CONSTANTS
  u1 = u1
  u2 = u2
  e1 = e1
  e2 = e2
  g1 = g1
  t1 = t1
  t2 = t2
  Users = {u1}
  Emails = {e1, e2}
  Subjects = {g1}
  SubjectEmail <- MCSubjectEmail
  Threads = {t1, t2}
  Lifetime <- MCLifetime
  NoUser = NoUser
  NoSubject = NoSubject
  Companies = {acme}
  acme = acme
  Chats = {chat}
  chat = chat
  MaxViews = 1
  CodeLife = 1
  MaxLists = 2
  MaxRequests = 4
  MaxFaults = 1
  MaxNow = 1
  i1 = i1
  i2 = i2
  i3 = i3
  Ids = {i1, i2, i3}
  Symbols = {"a1", "a2", "n"}
  Cik <- MCCik
  NoCik = NoCik
  Events = {"e1", "e2", "e3"}
  EventTicker <- MCEventTicker
  EventCik <- MCEventCik
  Nobody = Nobody
  NoTicker = NoTicker
  Orphans = {"e1"}
  MinUniverse = 2
  ProfileLimit = 2
  Batch = 2
  MaxMoves = 2
  MaxRuns = 2
  ann = ann
  bob = bob
  Readers = {ann, bob}
  Browsers = {i1, i2, i3}
  Senders = {t1, t2}
  Names = {"push", "discord"}
  Served = {"push", "discord"}
  Data = {"phone", "discord hook"}
  Begun <- MCBegun
  NoOwner = NoOwner
  MaxEdits = 1
  MaxSends = 2
  MaxSendFaults = 1
INVARIANTS
  SentMeansReached
  RunReaches
  DeadLinks
  VerifiedForAReason
  NoBacklog
PROPERTIES
  LinksStay
  MarkMovesOnlyWhenRead
CHECK_DEADLOCK FALSE
SYMMETRY Alike
