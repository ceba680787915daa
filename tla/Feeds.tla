------------------------------- MODULE Feeds -------------------------------
(***************************************************************************)
(* The feed as readers filter, count and page it                           *)
(* (services/api/app/services/feed_filters.py, routes/events.py), over     *)
(* what moves underneath: events received, reactions measured, and the     *)
(* companies' sectors, prices and caps                                     *)
(* (company_loader.py:_classify, market_data/sync.py).                     *)
(***************************************************************************)
EXTENDS Integers, FiniteSets, SequencesExt

CONSTANTS
  Firms, Posts,       \* companies, events
  NoFirm,
  Of,                 \* the company of an event, or NoFirm
  Signal,             \* "PR" or a form
  Types,              \* its event types
  Tone,               \* its briefing's sentiment
  Grade,              \* [significance, tier]; NoGrade: a briefing without one
  NoGrade,
  Filed,              \* the rank of its filing date, ids breaking ties
  Mine,               \* the companies the reader follows
  Sectors, Industries, EventTypes, Tones,
  CapBuckets,         \* CAP_BUCKETS: <<[key, low, high]>>, largest first
  NoLimit, Unknown,   \* no upper bound; a figure FMP has not given
  Prices, Shares, Caps,
  Unit,               \* price units to a dollar of market cap
  Says,               \* the words of its ticker, company and headline
  Spelled,            \* another spelling or a vendor's alias -> the word meant
  Queries,            \* what readers ask for, as query strings or saved views
  Views,              \* what they scroll through
  PerPage,            \* a page's size
  MaxChanges, MaxCached \* bounds: changes underneath; answers kept at a time

\* CAP_BUCKETS: keys of their own, ranges that do not meet, the last one open.
ASSUME BucketsAssumption ==
  /\ NoLimit \notin Nat /\ Unknown \notin Nat
  /\ CapBuckets \in Seq(Range(CapBuckets))
  /\ \A b \in Range(CapBuckets) : b.low \in Nat /\ b.high \in Nat \cup {NoLimit}
  /\ \A i \in DOMAIN CapBuckets : CapBuckets[i].high = NoLimit => CapBuckets[i].low > 0
  /\ \A i, j \in DOMAIN CapBuckets : i < j =>
       /\ CapBuckets[i].key # CapBuckets[j].key
       /\ CapBuckets[j].high # NoLimit /\ CapBuckets[j].high <= CapBuckets[i].low

ASSUME FeedsAssumption ==
  /\ Of \in [Posts -> Firms \cup {NoFirm}] /\ NoFirm \notin Firms
  /\ Filed \in [Posts -> Nat] /\ \A a, b \in Posts : Filed[a] = Filed[b] => a = b
  /\ PerPage \in Nat \ {0}
  /\ Unknown \notin Sectors \cup Industries
  /\ Prices \cup Shares \cup Caps \subseteq Nat /\ Unit \in Nat \ {0}

VARIABLES
  stored,     \* the events in the order received
  reacted,    \* event -> the ways its explosive reactions went
  edge,       \* where the window begins: [received, filed], events before it
  firm,       \* company -> [sector, industry, price, shares, cap]
  capped,     \* the companies whose cap this market sync took from a quote
  phase,      \* of sync_market_data
  known,      \* _industries["by_slug"], read again every ten minutes
  facets,     \* the panel's answers in Redis, for FACETS_CACHE_SECONDS
  scroll,     \* a reader on the way down: what was there, what was shown
  changes

feedsVars == <<stored, reacted, edge, firm, capped, phase, known, facets, scroll, changes>>
NotScrolling == [filter |-> NoFirm, page |-> 0, due |-> {}, shown |-> {}, done |-> FALSE]
NewFirm == [sector |-> Unknown, industry |-> Unknown, price |-> Unknown,
            shares |-> Unknown, cap |-> Unknown]

-----------------------------------------------------------------------------
\* FeedFilters, and what it means to have chosen nothing.
Default ==
  [scope |-> "all", important |-> FALSE, event_type |-> {}, sector |-> {}, industry |-> {},
   cap |-> {}, sentiment |-> {}, source |-> "", moved |-> "", since |-> "", q |-> "",
   max_tier |-> 3]

\* to_dict: only what was chosen, so that two equal views compare equal.
ToDict(f) ==
  [k \in {"scope"} \cup {k \in DOMAIN f \ {"max_tier"} : f[k] # Default[k]} |-> f[k]]

\* normalize_sector, industry_slug and the case-folding lookups: one word for each spelling.
Means(word) == IF word \in DOMAIN Spelled THEN Spelled[word] ELSE word
Get(raw, k) == IF k \in DOMAIN raw THEN raw[k] ELSE Default[k]
Meant(raw, k) == {Means(word) : word \in Get(raw, k)}

\* cache_key: what was chosen, and the knobs of the old endpoints (max_tier
\* stands for signal_type too).  Mutant: it is what a saved view keeps.
CacheKeyMutant(f) == ToDict(f)

CacheKey(f) == [chosen |-> ToDict(f), max_tier |-> f.max_tier]

\* The options mean themselves, and so does what a spelling means.
ASSUME WordsAssumption ==
  /\ \A word \in DOMAIN Spelled : Means(Spelled[word]) = Spelled[word]
  /\ \A word \in Sectors \cup Industries \cup EventTypes \cup Tones
                \cup {b.key : b \in Range(CapBuckets)} \cup {"", "pr", "sec", "any", "up", "down"} :
       Means(word) = word

\* known_industries: what companies carry now, if the ten minutes are over or a slug is new.
Carried == {firm[c].industry : c \in Firms} \ {Unknown}
KnownTo(slugs, stale) == IF stale \/ ~(slugs \subseteq known) THEN Carried ELSE known

\* parse_filters: what it makes of a query ...
Parsed(raw) ==
  [scope |-> Get(raw, "scope"), important |-> Get(raw, "important"),
   event_type |-> Meant(raw, "event_type"), sector |-> Meant(raw, "sector"),
   industry |-> Meant(raw, "industry"), cap |-> Meant(raw, "cap"),
   sentiment |-> Meant(raw, "sentiment"), source |-> Means(Get(raw, "source")),
   moved |-> Means(Get(raw, "moved")), since |-> Means(Get(raw, "since")),
   q |-> Means(Get(raw, "q")), max_tier |-> Get(raw, "max_tier")]

\* ... and the values it knows: any other is a FilterError, not ignored.
Accepted(f, stale) ==
  /\ f.scope \in {"all", "mine"} /\ f.event_type \subseteq EventTypes
  /\ f.sector \subseteq Sectors /\ f.cap \subseteq {b.key : b \in Range(CapBuckets)}
  /\ f.industry # {} => f.industry \subseteq KnownTo(f.industry, stale)
  /\ f.sentiment \subseteq Tones /\ f.source \in {"", "sec", "pr"}
  /\ f.moved \in {"", "any", "up", "down"} /\ f.since \in {"", "30d"}

-----------------------------------------------------------------------------
\* important_clause.
Important(e) ==
  \/ Grade[e].significance = "High"
  \/ Grade[e].significance = NoGrade /\ Grade[e].tier = 1

Cap(e) == IF Of[e] = NoFirm THEN Unknown ELSE firm[Of[e]].cap
AtLeast(low) == IF low < 1 THEN 1 ELSE low

\* Mutant: a company whose cap rounds to nothing is in the smallest bucket.
InCapsMutant(cap, keys) ==
  \E b \in Range(CapBuckets) :
    b.key \in keys /\ cap >= b.low /\ (b.high = NoLimit \/ cap < b.high)

\* _cap_clause, of a known cap.
InCaps(cap, keys) ==
  \E b \in Range(CapBuckets) :
    b.key \in keys /\ cap >= AtLeast(b.low) /\ (b.high = NoLimit \/ cap < b.high)

\* _classification_clause: in a chosen sector or a chosen industry.
Classified(e, f) ==
  Of[e] # NoFirm /\ (firm[Of[e]].sector \in f.sector \/ firm[Of[e]].industry \in f.industry)

\* apply_filters: every filter in use but `skip`.
Keeps(f, e, skip) ==
  /\ Grade[e].tier <= f.max_tier
  /\ skip = "important" \/ ~f.important \/ Important(e)
  /\ skip = "event_type" \/ f.event_type = {} \/ f.event_type \cap Types[e] # {}
  /\ skip = "sector" \/ f.sector \cup f.industry = {} \/ Classified(e, f)
  /\ skip = "cap" \/ f.cap = {} \/ (Cap(e) # Unknown /\ InCaps(Cap(e), f.cap))
  /\ skip = "source" \/ f.source = "" \/ (Signal[e] = "PR" <=> f.source = "pr")
  /\ skip = "sentiment" \/ f.sentiment = {} \/ Tone[e] \in f.sentiment
  /\ f.moved = "" \/ (reacted[e] # {} /\ f.moved \in {"any"} \cup reacted[e])
  /\ f.since = "" \/ IF f.scope = "mine" THEN Filed[e] >= edge.filed
                      ELSE e \notin Range(SubSeq(stored, 1, edge.received))
  /\ f.q = "" \/ f.q \in Says[e]

Scope(f) == IF f.scope = "mine" THEN {e \in Range(stored) : Of[e] \in Mine} ELSE Range(stored)

Apply(f, skip) == {e \in Scope(f) : Keeps(f, e, skip)}

Bucket(e) ==
  LET holds(b) == /\ Cap(e) # Unknown
                  /\ IF b.high = NoLimit THEN Cap(e) >= b.low
                     ELSE Cap(e) >= AtLeast(b.low) /\ Cap(e) < b.high
      first == {i \in DOMAIN CapBuckets :
                  holds(CapBuckets[i]) /\ \A j \in 1..(i - 1) : ~holds(CapBuckets[j])}
  IN {CapBuckets[i].key : i \in first}

SectorOf(e) == IF Of[e] = NoFirm THEN Unknown ELSE firm[Of[e]].sector
IndustryOf(e) == IF Of[e] = NoFirm THEN Unknown ELSE firm[Of[e]].industry
SourceOf(e) == IF Signal[e] = "PR" THEN "pr" ELSE "sec"

\* What the panel offers and parse_filters accepts, and the group an event is in.
Options ==
  [event_type |-> EventTypes, sector |-> Sectors, industry |-> Carried,
   cap |-> {b.key : b \in Range(CapBuckets)}, source |-> {"pr", "sec"}, sentiment |-> Tones,
   important |-> {TRUE}, moved |-> {"any", "up", "down"}]

Has(e, facet, o) ==
  CASE facet = "event_type" -> o \in Types[e]
    [] facet = "sector"     -> SectorOf(e) = o
    [] facet = "industry"   -> IndustryOf(e) = o
    [] facet = "cap"        -> Bucket(e) = {o}
    [] facet = "source"     -> SourceOf(e) = o
    [] facet = "sentiment"  -> Tone[e] = o
    [] facet = "important"  -> Important(e)

\* The event types are grouped as stored, a label no longer accepted with them.
Groups(facet) ==
  IF facet = "event_type" THEN UNION {Types[e] : e \in Range(stored)} ELSE Options[facet]

\* facet_counts: each facet counted with every other filter held (sector and
\* industry are one filter), by grouping; moved by probing.
FacetCounts(f) ==
  [facet \in DOMAIN Options |->
     LET held == Apply(f, IF facet = "industry" THEN "sector" ELSE facet)
     IN [o \in Groups(facet) |->
           IF facet = "moved" THEN Cardinality(Apply([f EXCEPT !.moved = o], "none"))
           ELSE Cardinality({e \in held : Has(e, facet, o)})]]

-----------------------------------------------------------------------------
\* The orders of the two scopes: by filing date, or as received.
Newer(f, a, b) ==
  IF f.scope = "mine" THEN Filed[a] > Filed[b]
  ELSE \E i, j \in DOMAIN stored : i > j /\ stored[i] = a /\ stored[j] = b

\* Where an event stands in a view: how many are newer.
Place(f, e) == Cardinality({a \in Apply(f, "none") : Newer(f, a, e)})

\* paginate: an offset and a limit.
Items(f, page) ==
  {e \in Apply(f, "none") : (page - 1) * PerPage <= Place(f, e) /\ Place(f, e) < page * PerPage}

\* Mutant: the last page is not asked for when it would hold one event.
HasMoreMutant(f, page) == page * PerPage + 1 < Cardinality(Apply(f, "none"))

HasMore(f, page) == page * PerPage < Cardinality(Apply(f, "none"))

\* What a request leaves in _industries: parsing reads it for industries, applying for sectors.
Looked(raw, stale) ==
  LET slugs == Meant(raw, "industry") IN
  IF slugs # {} \/ Get(raw, "sector") # {} THEN KnownTo(slugs, stale) ELSE known

\* _page: the next page of a view, until there is no more; a bad filter is a 400.
Page ==
  /\ \E raw \in Views, stale \in BOOLEAN :
       /\ scroll = NotScrolling \/ scroll.filter = raw
       /\ known' = Looked(raw, stale)
       /\ Accepted(Parsed(raw), stale)
       /\ LET f == Parsed(raw)
              page == scroll.page + 1
          IN /\ ~scroll.done
             /\ scroll' = [filter |-> raw, page |-> page,
                           due |-> IF page = 1 THEN Apply(f, "none") ELSE scroll.due,
                           shown |-> scroll.shown \cup Items(f, page),
                           done |-> ~HasMore(f, page)]
  /\ UNCHANGED <<stored, reacted, edge, firm, capped, phase, facets, changes>>

-----------------------------------------------------------------------------
\* What a click on an option asks for, in the query string of the one who clicks,
\* and how many events it returns now, if it is not refused.
Chosen(f, facet, o) ==
  CASE facet = "sector"   -> [f EXCEPT !.sector = {o}, !.industry = {}]
    [] facet = "industry" -> [f EXCEPT !.sector = {}, !.industry = {o}]
    [] facet \in {"event_type", "cap", "sentiment"} -> [f EXCEPT ![facet] = {o}]
    [] OTHER              -> [f EXCEPT ![facet] = o]

Click(f, facet, o) ==
  LET chosen == ToDict(Chosen(f, facet, o))
  IN [k \in DOMAIN chosen \cup {"max_tier"} |-> IF k = "max_tier" THEN f.max_tier ELSE chosen[k]]

Refused == -1
Returns(f) ==
  [facet \in DOMAIN Options |->
     [o \in Options[facet] |->
        LET clicked == Parsed(Click(f, facet, o))
        IN IF Accepted(clicked, FALSE) THEN Cardinality(Apply(clicked, "none")) ELSE Refused]]

\* The shared answers that serve a query.
Cached(raw) ==
  {a \in facets : Parsed(raw).scope = "all" /\ a.key = CacheKey(Parsed(raw))}

\* An answer counted now; `told` is history: what the clicks of each reader it may
\* be served to return when it is counted.
Fresh(raw) ==
  LET key == CacheKey(Parsed(raw))
  IN [key |-> key, counts |-> FacetCounts(Parsed(raw)),
      told |-> [r \in {r \in Queries : CacheKey(Parsed(r)) = key} |-> Returns(Parsed(r))]]

\* GET /events/facets: a bad filter is a 400, a reader's own companies are counted
\* each time, the public feed is counted unless Redis holds the answer; Redis may
\* not take it.
Count ==
  /\ \E raw \in Queries, stale \in BOOLEAN :
       /\ known' = Looked(raw, stale)
       /\ facets' \in IF /\ Accepted(Parsed(raw), stale) /\ Parsed(raw).scope = "all"
                         /\ Cached(raw) = {} /\ Cardinality(facets) < MaxCached
                      THEN {facets, facets \cup {Fresh(raw)}} ELSE {facets}
  /\ UNCHANGED <<stored, reacted, edge, firm, capped, phase, scroll, changes>>

\* The minute is over.
ExpireFacets ==
  /\ \E a \in facets : facets' = facets \ {a}
  /\ UNCHANGED <<stored, reacted, edge, firm, capped, phase, known, scroll, changes>>

-----------------------------------------------------------------------------
Change == changes < MaxChanges /\ changes' = changes + 1

\* The subscriber stores an event; the worker finds a reaction explosive, and
\* reset-reactions makes it measure some anew.
Receive ==
  /\ \E e \in Posts \ Range(stored) : stored' = Append(stored, e)
  /\ Change /\ UNCHANGED <<reacted, edge, firm, capped, phase, known, facets, scroll>>

React ==
  /\ \E e \in Range(stored), way \in {"up", "down"} :
       /\ Of[e] # NoFirm /\ way \notin reacted[e]
       /\ reacted' = [reacted EXCEPT ![e] = @ \cup {way}]
  /\ Change /\ UNCHANGED <<stored, edge, firm, capped, phase, known, facets, scroll>>

ResetReactions ==
  /\ \E e \in Range(stored) : \E left \in SUBSET reacted[e] \ {reacted[e]} :
       reacted' = [reacted EXCEPT ![e] = left]
  /\ Change /\ UNCHANGED <<stored, edge, firm, capped, phase, known, facets, scroll>>

Age ==
  /\ \/ edge.received < Len(stored) /\ edge' = [edge EXCEPT !.received = @ + 1]
     \/ (\E e \in Posts : Filed[e] >= edge.filed) /\ edge' = [edge EXCEPT !.filed = @ + 1]
  /\ Change /\ UNCHANGED <<stored, reacted, firm, capped, phase, known, facets, scroll>>

\* _classify: the screener's row, a blank of which erases nothing; it seeds the cap.
Classify ==
  /\ \E c \in Firms, s \in Sectors \cup {Unknown}, i \in Industries \cup {Unknown},
        cap \in Caps \cup {Unknown} :
       firm' = [firm EXCEPT
         ![c].sector = IF s = Unknown THEN @ ELSE s,
         ![c].industry = IF i = Unknown THEN @ ELSE i,
         ![c].cap = IF @ = Unknown /\ cap # Unknown /\ cap > 0 THEN cap ELSE @]
  /\ Change /\ UNCHANGED <<stored, reacted, edge, capped, phase, known, facets, scroll>>

\* _sync_prices: a quote with a cap, without one, or none at all (a failed batch).
SyncPrices ==
  /\ phase = "idle" /\ phase' = "shares"
  /\ \E price \in [Firms -> Prices \cup {Unknown}], cap \in [Firms -> Caps \cup {Unknown}] :
       /\ capped' = {c \in Firms : price[c] # Unknown /\ cap[c] # Unknown /\ cap[c] > 0}
       /\ firm' = [c \in Firms |->
            IF price[c] = Unknown THEN firm[c]
            ELSE [firm[c] EXCEPT !.price = price[c],
                                 !.cap = IF c \in capped' THEN cap[c] ELSE @]]
  /\ Change /\ UNCHANGED <<stored, reacted, edge, known, facets, scroll>>

\* _sync_shares: the pages FMP answered; its dates only move forward.
SyncShares ==
  /\ phase = "shares" /\ phase' = "caps"
  /\ \E count \in [Firms -> Shares \cup {Unknown}] :
       firm' = [c \in Firms |-> IF count[c] = Unknown THEN firm[c]
                                ELSE [firm[c] EXCEPT !.shares = count[c]]]
  /\ UNCHANGED <<stored, reacted, edge, capped, known, facets, scroll, changes>>

\* _recompute_market_caps: shares x price, in whole dollars, for the rest.
RecomputeCaps ==
  /\ phase = "caps" /\ phase' = "idle"
  /\ firm' = [c \in Firms |->
       IF c \in capped \/ Unknown \in {firm[c].shares, firm[c].price} THEN firm[c]
       ELSE [firm[c] EXCEPT !.cap = (firm[c].shares * firm[c].price) \div Unit]]
  /\ capped' = {}
  /\ UNCHANGED <<stored, reacted, edge, known, facets, scroll, changes>>

FeedsInit ==
  /\ stored \in {<<>>} \cup {s \in Posts \X Posts : s[1] # s[2]}
  /\ reacted = [e \in Posts |-> {}]
  /\ edge = [received |-> 0, filed |-> 0]
  /\ firm = [c \in Firms |-> NewFirm]
  /\ capped = {} /\ phase = "idle" /\ known = {} /\ facets = {} /\ scroll = NotScrolling /\ changes = 0

\* sync_market_data: its phases one after the other, whatever became of the one before.
SyncMarketData == SyncPrices \/ SyncShares \/ RecomputeCaps

FeedsNext ==
  \/ Page \/ Count \/ ExpireFacets
  \/ Receive \/ React \/ ResetReactions \/ Age \/ Classify \/ SyncMarketData

-----------------------------------------------------------------------------
\* What is served: the shared answers, and those to readers of their own companies.
\* (A shared one that Redis does not take is the one that it would have.)
Served ==
  facets \cup {Fresh(raw) : raw \in {r \in Queries : /\ Parsed(r).scope = "mine"
                                                      /\ Accepted(Parsed(r), FALSE)}}

\* An option that nothing was grouped under counts none.
Shown(counted, o) == IF o \in DOMAIN counted THEN counted[o] ELSE 0

Honest(answer) ==
  \A raw \in DOMAIN answer.told :
    LET told == answer.told[raw] IN
    \A facet \in DOMAIN told : \A o \in DOMAIN told[facet] :
      Shown(answer.counts[facet], o) = told[facet][o]

(***************************************************************************)
(* The panel is honest about dead ends: what it shows beside an option is  *)
(* what that reader's click returned when it was counted, now or, for the  *)
(* public feed, at most a minute ago, possibly for somebody else, and      *)
(* never a refusal; with every other filter held, for companies in any     *)
(* sector or none, of any cap, known, unknown or rounded to nothing,       *)
(* whatever the industries last read (feed_filters.py:13-15, 411-492;      *)
(* routes/events.py:95-127).  The answer also counts event types that were *)
(* stored once and are accepted no more: they are not options.             *)
(***************************************************************************)
FacetsHonest == \A answer \in Served : Honest(answer)

\* A view that an event does not leave: no filter reads what may change back.
Lasting(raw) == DOMAIN raw \cap {"sector", "industry", "cap", "since", "moved"} = {}

(***************************************************************************)
(* A reader who goes down a feed page by page until it says there is no    *)
(* more has seen every event it held when they began, whatever was         *)
(* received or measured on the way; a view by sector, cap, window or move  *)
(* has no such promise, for an event that leaves it moves the later ones   *)
(* up (routes/events.py:47-61).                                            *)
(***************************************************************************)
NothingSkipped ==
  scroll # NotScrolling /\ scroll.done /\ Lasting(scroll.filter) => scroll.due \subseteq scroll.shown
=============================================================================
