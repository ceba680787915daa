SPECIFICATION Spec
CONSTANTS
  t1 = t1
  t2 = t2
  Threads = {t1, t2}
  Words = {1, 2}
  Docs <- MCDocs
  Quotes <- MCQuotes
  Shingle = 2
  MinPercent = 40
  MaxEvidence = 2
  MaxExact = 2
  MinSnippet = 1
  MaxSnippet = 2
  MaxDirective = 3
  Begins <- MCParts
  Ends = {}
  Within <- MCParts
  Configured <- MCChain
  NKeys = 2
  Faults = {"rate", "empty", "rejected", "down"}
  Filings <- MCFilings
  Replies <- MCReplies
  NoLabels = NoLabels
  MinSource = 4
  MaxJobs = 3
  Releases <- MCReleases
  Remembered <- MCRemembered
  Companies <- MCCompanies
  Distinctive = {"acme", "zenith"}
  Long = {"zenith"}
  Alike = {}
  CloseStories <- MCClose
  MinInline = 6
  MinBody = 3
  MinWords = 5
  ShortText = 8
  MaxNonLatin = 10
  MinFunction = 10
  Limit = 2
  Cooldown = 2
  MaxClock = 3
INVARIANTS
  FactsOnlyIsLastResort
  BreakerSound
  EventIsTheirs
  EvidenceIsProof
SYMMETRY Twins
CHECK_DEADLOCK FALSE
