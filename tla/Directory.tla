----------------------------- MODULE Directory -----------------------------
(***************************************************************************)
(* The company table (services/api/app/services/company_loader.py), kept   *)
(* to FMP's listed stocks by a daily run that reads it once and writes it  *)
(* batch by batch, while the subscriber resolves events against it and     *)
(* adds to it (company_resolver.py, realtime/subscriber.py).               *)
(***************************************************************************)
EXTENDS Naturals, FiniteSets

CONSTANTS
  Ids,             \* company ids
  Symbols,
  Cik,             \* the issuer of a symbol, as the SEC and FMP's profiles name it
  NoCik,           \* of a profile that has none
  Events, EventTicker, EventCik,   \* the feed's events, as ingest sends them
  Orphans,         \* events that may be there before the first run
  Nobody, NoTicker,
  MinUniverse,     \* MIN_UNIVERSE
  ProfileLimit,    \* COMPANY_PROFILE_LIMIT
  Batch,           \* COMMIT_BATCH
  MaxMoves, MaxRuns   \* bounds: listings that change, runs of the sync

Ciks == {Cik[s] : s \in Symbols} \cup {EventCik[e] : e \in Events}
Rows == [ticker : Symbols, cik : Ciks, listed : {"yes", "no", "new"}]
Aliases == [of : Ids, kind : {"share_class", "former"}]

ASSUME DirectoryAssumption ==
  /\ EventTicker \in [Events -> Symbols \cup {NoTicker}] /\ NoTicker \notin Symbols
  /\ Orphans \subseteq {e \in Events : EventTicker[e] # NoTicker}
  /\ Nobody \notin Ids \cup Rows \cup Aliases
  /\ ProfileLimit \in Nat /\ Batch \in Nat \ {0}

VARIABLES
  company,         \* id -> Nobody or [ticker, cik, listed], committed
  alias,           \* symbol -> Nobody or [of, kind], committed
  event,           \* event -> Nobody or [ticker, of]
  fmp,             \* what FMP lists now
  pc,              \* of sync_companies
  run,             \* its universe and what it read or counts
  draft,           \* its session: [company, alias, touched]
  moves, runs

directoryVars == <<company, alias, event, fmp, pc, run, draft, moves, runs>>

\* A company's row, and an alias's.
Row(t, c, l) == [ticker |-> t, cik |-> c, listed |-> l]
Alias(i, kind) == [of |-> i, kind |-> kind]
Known(table) == {i \in Ids : table[i] # Nobody}
Live(table, s) == {i \in Known(table) : table[i].ticker = s}
OfCik(table, c) == {i \in Known(table) : c # NoCik /\ table[i].cik = c}
New(table) == {i \in Ids : table[i] = Nobody /\ draft.company[i] = Nobody}

-----------------------------------------------------------------------------
\* find_company_by_symbol: the live ticker, an alias, without or with the events'.
BySymbol(s) ==
  IF Live(company, s) # {} THEN Live(company, s)
  ELSE IF alias[s] # Nobody THEN {alias[s].of} ELSE {}

Carrying(s) == {event[e].of : e \in {e \in Events : event[e] # Nobody /\ event[e].ticker = s}}
Resolves(s) == IF BySymbol(s) # {} THEN BySymbol(s) ELSE Carrying(s) \ {Nobody}

\* _pick: the row with the ticker, else a listed one, else any.
Picked(ids, s) ==
  LET exact == {i \in ids : company[i].ticker = s}
      listed == {i \in ids : company[i].listed = "yes"}
  IN IF exact # {} THEN exact ELSE IF listed # {} THEN listed ELSE ids

\* resolve_event_company: the issuer's CIK beats the ticker.
EventCompany(e) ==
  IF OfCik(company, EventCik[e]) # {}
  THEN Picked(OfCik(company, EventCik[e]), EventTicker[e])
  ELSE IF EventTicker[e] = NoTicker THEN {} ELSE BySymbol(EventTicker[e])

\* The subscriber, of an event with a company, whose ticker takes the place of the
\* feed's, or with a ticker to make one of.
StoreEvent(e) ==
  /\ event[e] = Nobody
  /\ \/ \E i \in EventCompany(e) :
          /\ event' = [event EXCEPT ![e] = [ticker |-> company[i].ticker, of |-> i]]
          /\ UNCHANGED company
     \/ /\ EventCompany(e) = {}
        /\ EventTicker[e] # NoTicker /\ Live(draft.company, EventTicker[e]) = {}
        /\ \E i \in New(company) :
             /\ company' = [company EXCEPT ![i] = Row(EventTicker[e], EventCik[e], "new")]
             /\ event' = [event EXCEPT ![e] = [ticker |-> EventTicker[e], of |-> i]]
  /\ UNCHANGED <<alias, fmp, pc, run, draft, moves, runs>>

\* The exchanges list a symbol, delist it, or an issuer changes its own.
Relist ==
  /\ moves < MaxMoves
  /\ moves' = moves + 1
  /\ \E s \in Symbols :
       \/ s \notin fmp /\ fmp' = fmp \cup {s}
       \/ s \in fmp /\ fmp' = fmp \ {s}
       \/ \E t \in fmp : s \notin fmp /\ Cik[s] = Cik[t] /\ fmp' = (fmp \ {t}) \cup {s}
  /\ UNCHANGED <<company, alias, event, pc, run, draft, runs>>

-----------------------------------------------------------------------------
NoDraft == [company |-> [i \in Ids |-> Nobody], alias |-> [s \in Symbols |-> Nobody],
            touched |-> {}]
NoRun == [universe |-> {}, todo |-> {}, tickers |-> {}, ciks |-> {}, classes |-> {},
          budget |-> 0, pending |-> FALSE, dirty |-> 0]

\* fetch_universe: a page at the screener's limit leaves rows out.
Universes == SUBSET fmp \ {{}}

\* fetch_universe, then what the run reads of the table before its first row.
SyncStart ==
  /\ pc = "idle" /\ runs < MaxRuns
  /\ runs' = runs + 1
  /\ \E u \in Universes :
       run' = [universe |-> u, todo |-> u,
               tickers |-> {company[i].ticker : i \in Known(company)},
               ciks |-> {i \in Known(company) :
                           LET same == OfCik(company, company[i].cik)
                               inside == {k \in same : company[k].ticker \in u}
                           IN company[i].cik # NoCik /\ (inside # {} => i \in inside)},
               classes |-> {s \in Symbols : alias[s] # Nobody /\ alias[s].kind = "share_class"},
               budget |-> ProfileLimit, pending |-> FALSE, dirty |-> 0]
  /\ draft' = [company |-> company, alias |-> alias, touched |-> {}]
  /\ pc' = "rows"
  /\ UNCHANGED <<company, alias, event, fmp, moves>>

\* The row's changes go to the session; a batch of them is committed.
Commit(d) ==
  /\ company' = [i \in Ids |-> IF i \in d.touched THEN d.company[i] ELSE company[i]]
  /\ alias' = d.alias
  /\ draft' = [d EXCEPT !.touched = {}, !.company = company']

NextRow(s, r) == run' = [r EXCEPT !.todo = @ \ {s}, !.dirty = (@ + 1) % Batch]

AfterRow(s, d, r) ==
  /\ NextRow(s, r)
  /\ IF run'.dirty = 0
     THEN Commit(d) ELSE draft' = d /\ UNCHANGED <<company, alias>>
  /\ UNCHANGED <<event, fmp, pc, moves, runs>>

\* A row the loop continues past: no commit falls due at it.
PastRow(s, d, r) ==
  /\ NextRow(s, r)
  /\ draft' = d
  /\ UNCHANGED <<company, alias, event, fmp, pc, moves, runs>>

Put(d, i, row) == [d EXCEPT !.company[i] = row, !.touched = @ \cup {i}]

\* A symbol that has a row, or is known as a class of one.
SyncKnown(s) ==
  /\ pc = "rows" /\ s \in run.todo
  /\ \/ /\ s \in run.tickers
        /\ \E i \in Live(draft.company, s) :
             AfterRow(s, Put(draft, i, [draft.company[i] EXCEPT !.listed = "yes"]), run)
     \/ s \in run.classes \ run.tickers /\ PastRow(s, draft, run)

Unlisted(s) == pc = "rows" /\ s \in run.todo \ (run.tickers \cup run.classes)

\* Mutant: a symbol left for the next run is not counted.
SyncPendingMutant(s) ==
  /\ Unlisted(s)
  /\ PastRow(s, draft, [run EXCEPT !.budget = IF @ = 0 THEN 0 ELSE @ - 1])

\* No budget is left for its profile, or FMP does not answer.
SyncPending(s) ==
  /\ Unlisted(s)
  /\ PastRow(s, draft, [run EXCEPT !.pending = TRUE,
                                   !.budget = IF @ = 0 THEN 0 ELSE @ - 1])

Issuers(s) == {i \in run.ciks : Cik[s] # NoCik /\ draft.company[i].cik = Cik[s]}

\* The issuer has a live row: the symbol is one of its classes.
SyncClass(s) ==
  /\ Unlisted(s) /\ run.budget > 0
  /\ \E i \in Issuers(s) :
       /\ draft.company[i].ticker \in run.universe
       /\ PastRow(s, [draft EXCEPT !.alias[s] = Alias(i, "share_class")],
                  [run EXCEPT !.budget = @ - 1, !.classes = @ \cup {s}])

\* flush: a ticker someone else committed meanwhile is a unique violation.
Unique(i, s) == Live(company, s) \subseteq {i}

\* Mutant: the old symbol is not kept.
RenamedMutant(d, i, s) ==
  Put([d EXCEPT !.alias[s] = Nobody], i, [d.company[i] EXCEPT !.ticker = s, !.listed = "yes"])

Renamed(d, i, s) ==
  Put([d EXCEPT !.alias[s] = Nobody,
                !.alias[d.company[i].ticker] = Alias(i, "former")],
      i, [d.company[i] EXCEPT !.ticker = s, !.listed = "yes"])

SyncRename(s) ==
  /\ Unlisted(s) /\ run.budget > 0
  /\ \E i \in Issuers(s) :
       /\ draft.company[i].ticker \notin run.universe
       /\ Unique(i, s)
       /\ AfterRow(s, Renamed(draft, i, s),
                   [run EXCEPT !.budget = @ - 1,
                               !.tickers = (@ \ {draft.company[i].ticker}) \cup {s}])

SyncAdd(s) ==
  /\ Unlisted(s) /\ run.budget > 0
  /\ Issuers(s) = {}
  /\ \E i \in New(company) :
       /\ Unique(i, s)
       /\ AfterRow(s, Put([draft EXCEPT !.alias[s] = Nobody], i, Row(s, Cik[s], "yes")),
                   [run EXCEPT !.budget = @ - 1, !.tickers = @ \cup {s}, !.ciks = @ \cup {i}])

\* An exception of the session ends the run; so does a restart of the process.
Abort ==
  /\ pc # "idle"
  /\ pc' = "idle" /\ run' = NoRun /\ draft' = NoDraft
  /\ UNCHANGED <<company, alias, event, fmp, moves, runs>>

\* The last batch; a universe too small to be true, or cut, de-lists no one.
SyncRowsEnd ==
  /\ pc = "rows" /\ run.todo = {}
  /\ Commit(draft)
  /\ pc' \in {"alias"} \cup (IF Cardinality(run.universe) >= MinUniverse THEN {"delist"} ELSE {})
  /\ UNCHANGED <<event, fmp, run, moves, runs>>

\* _mark_delisted: the last class still listed becomes the ticker.
Classes(i) == {s \in run.universe : alias[s] = Alias(i, "share_class")}
Gone == {i \in Known(company) : company[i].listed # "no" /\ company[i].ticker \notin run.universe}

MarkDelisted ==
  /\ pc = "delist"
  /\ \E heir \in [Ids -> Symbols \cup {NoTicker}] :
       /\ \A i \in Ids : IF i \in Gone /\ Classes(i) # {}
                         THEN heir[i] \in Classes(i) /\ Unique(i, heir[i])
                         ELSE heir[i] = NoTicker
       /\ LET heirs == {i \in Ids : heir[i] # NoTicker}
          IN /\ company' = [i \in Ids |->
                  IF i \in heirs THEN Row(heir[i], company[i].cik, "yes")
                  ELSE IF i \in Gone THEN [company[i] EXCEPT !.listed = "no"] ELSE company[i]]
             /\ alias' = [s \in Symbols |->
                  IF \E i \in heirs : heir[i] = s THEN Nobody
                  ELSE IF \E i \in heirs : company[i].ticker = s
                  THEN Alias(CHOOSE i \in heirs : company[i].ticker = s, "former")
                  ELSE alias[s]]
  /\ pc' = "alias"
  /\ draft' = NoDraft
  /\ UNCHANGED <<event, fmp, run, moves, runs>>

\* _alias_event_tickers: a symbol of the feed that names no row and has no alias.
AliasEventTickers ==
  /\ pc = "alias"
  /\ \E of \in [Symbols -> Ids \cup {Nobody}] :
       /\ \A s \in Symbols :
            IF Live(company, s) = {} /\ alias[s] = Nobody /\ Carrying(s) \ {Nobody} # {}
            THEN of[s] \in Carrying(s) \ {Nobody} ELSE of[s] = Nobody
       /\ alias' = [s \in Symbols |->
            IF of[s] = Nobody THEN alias[s] ELSE Alias(of[s], "former")]
  /\ pc' = "link"
  /\ draft' = NoDraft
  /\ UNCHANGED <<company, event, fmp, run, moves, runs>>

\* _backfill_filing_events: orphans find the company their ticker names.
LinkOrphans ==
  /\ pc = "link"
  /\ event' = [e \in Events |->
       IF event[e] # Nobody /\ event[e].of = Nobody /\ BySymbol(event[e].ticker) # {}
       THEN [event[e] EXCEPT !.of = CHOOSE i \in BySymbol(event[e].ticker) : TRUE]
       ELSE event[e]]
  /\ pc' = "ended"
  /\ UNCHANGED <<company, alias, fmp, run, draft, moves, runs>>

SyncEnd ==
  /\ pc = "ended"
  /\ pc' = "idle" /\ run' = NoRun
  /\ UNCHANGED <<company, alias, event, fmp, draft, moves, runs>>

-----------------------------------------------------------------------------
\* What the SEC and FMP say of a symbol, if they name an issuer.
Fits(cik, s) ==
  /\ cik # NoCik
  /\ cik = Cik[s] \/ \E e \in Events : EventTicker[e] = s /\ EventCik[e] = cik

\* Events stored when no company was listed.
Unlinked ==
  /\ company = [i \in Ids |-> Nobody]
  /\ event \in {[e \in Events |-> IF e \in old THEN [ticker |-> EventTicker[e], of |-> Nobody]
                                   ELSE Nobody] : old \in SUBSET Orphans}

\* An event stored under the feed's symbol, as they were once, where the table has
\* another symbol of the issuer.
OtherSpelling ==
  \E e \in Orphans, i \in Ids, t \in Symbols :
    /\ t # EventTicker[e] /\ Fits(EventCik[e], t)
    /\ company = [k \in Ids |-> IF k = i THEN Row(t, EventCik[e], "new") ELSE Nobody]
    /\ event = [x \in Events |-> IF x = e THEN [ticker |-> EventTicker[e], of |-> i] ELSE Nobody]

DirectoryInit ==
  /\ Unlinked \/ OtherSpelling
  /\ alias = [s \in Symbols |-> Nobody]
  /\ fmp \in SUBSET Symbols
  /\ pc = "idle" /\ run = NoRun /\ draft = NoDraft
  /\ moves = 0 /\ runs = 0

SyncStep ==
  \/ SyncStart \/ SyncRowsEnd \/ MarkDelisted \/ AliasEventTickers \/ LinkOrphans \/ SyncEnd
  \/ Abort
  \/ \E s \in Symbols : SyncKnown(s) \/ SyncPending(s) \/ SyncClass(s) \/ SyncRename(s) \/ SyncAdd(s)

DirectoryNext == SyncStep \/ Relist \/ \E e \in Events : StoreEvent(e)

-----------------------------------------------------------------------------
\* A symbol is one issuer's, whoever is asked and for ever, and if FMP's profile has no
\* CIK, the issuer has no other symbol.  Ingest sends a ticker with its CIK
\* (main.py:156, pipeline.py:266).
OneIssuer ==
  /\ \A e \in Events : EventTicker[e] # NoTicker => EventCik[e] # NoCik
  /\ \A s \in Symbols, c, d \in Ciks : Fits(c, s) /\ Fits(d, s) => c = d
  /\ \A s, t \in Symbols, c \in Ciks : Cik[s] = NoCik /\ Fits(c, s) /\ Fits(c, t) => s = t

\* Who a row is of: its CIK, or itself if it has none.
Issuer(i) == IF company[i].cik = NoCik THEN {i} ELSE {company[i].cik}

(***************************************************************************)
(* A link stays good, if no symbol ever changes hands (OneIssuer): what a  *)
(* symbol opens today, a live ticker, a former one, a share class or one   *)
(* of an old event, it opens for ever, or another row of the same issuer,  *)
(* through renames, de-listings, runs that fail half way and companies the *)
(* feed adds meanwhile (company_loader.py:28-30, company_resolver.py:3-12).*)
(* A symbol the exchanges give to another issuer is meant to open that one *)
(* (_drop_alias): of it nothing is said.                                   *)
(***************************************************************************)
LinksStay ==
  [][\A s \in Symbols :
       \A i \in Resolves(s) : Resolves(s)' # {} /\ \A k \in Resolves(s)' : Issuer(k)' = Issuer(i)
    ]_<<company, alias, event>>

(***************************************************************************)
(* A run that looked up every new symbol leaves each symbol FMP listed     *)
(* opening the page of its own issuer, whatever was stored meanwhile       *)
(* (company_loader.py:15-26).                                              *)
(***************************************************************************)
RunReaches ==
  pc = "ended" /\ ~run.pending =>
    \A s \in run.universe :
      Resolves(s) # {} /\ \A i \in Resolves(s) : Cik[s] # NoCik => company[i].cik = Cik[s]
=============================================================================
