# Sensybull: formal models

TLA+ models of the Sensybull backend (`src/services/ingest` and
`src/services/api`), checked with TLC and, where it pays, proved with TLAPS.
Paths below are relative to the repository; `subscriber.py:122` is a line of the
file named in the section.

Two services make the program. **Ingest** watches SEC EDGAR, FMP's press-release
list and three wires' RSS feeds, decides what is news, has an LLM write a
briefing and publishes it on the Redis channel `filing:new`. **API** is one Flask
process: request handlers, a thread that subscribes to the channel, stores each
event, and tells readers over Socket.IO and by alert, a thread that measures the
price reactions of each event, and a pool of two threads that send the alerts.
Cron jobs sync companies, market data and fundamentals.

## 1. Inventory

| Component (code) | State | Operations | Interacts with |
|---|---|---|---|
| Realtime subscriber, cross-source dedup (`api/app/services/realtime/{subscriber,pr_dedup}.py`, `company_resolver.py`) | `filing_events`, `companies`, `price_reactions`; the Redis subscription | `_handle_event`, reconnect loop | ingest by pub/sub, company sync by the shared table, rooms, alert pool, reaction worker by rows |
| Alert dispatcher (`alerts/dispatcher.py`, `channels/`) | `notifications` (unique user, event, channel), pool queue | publish pass, explosive-move pass | subscriber, reaction worker, settings and inbox routes by shared tables |
| Price-reaction worker (`market_data/reaction_worker.py`, `prices.py`) | `price_reactions` rows, the event's gap signal | `tick` (claim, measure, defer, finish), CLI reset and backfill | subscriber by rows, dispatcher, rooms, market data |
| FMP press-release pipeline (`press_release/{pipeline,fmp}.py`) | seen set, its file and Redis mirror, fingerprints and their file, queue, in-flight set, retry clocks, pause | poller, FMP workers, `process_release` | FMP, article hosts, LLM, publisher, seen store |
| RSS pipeline (`press_release/{pipeline,feeds}.py`) | seen set, ETag per feed, attempts, per-poll LLM budget | `pr_poll_loop` over the feeds | as above |
| Seen store (`ingest/seen.py`) | JSON file, Redis mirror, 30-day pruning | `load_seen`, `save_seen` | EDGAR loop, both pipelines |
| EDGAR loop (`ingest/{main,fetcher,publisher,forms}.py`) | seen accessions | poll, process, publish, supervise | EDGAR, briefing, publisher |
| Press-release gates (`press_release/{issuer,language,materiality,fingerprint,article}.py`) | none (pure), host breaker in `article.py` | issuer resolution, language, materiality, fingerprint match | both pipelines |
| Briefing (`ingest/{briefing,evidence,text_fragment,parser}.py`) | none | LLM call with a retry ladder, evidence matching | EDGAR loop, pipelines |
| Market-data sync (`market_data/{sync,check,cache}.py`) | market-data columns of `companies` | nightly sync, quota check | FMP |
| Fundamentals sync (`services/fundamentals/*`) | periods and per-company sync state, token bucket | sync, derive | FMP, EDGAR documents |
| Company directory (`company_loader.py`) | `companies`, tickers | daily sync | subscriber |
| Watchlists and inbox (`routes/{watchlists,watchlist_inbox}.py`) | watchlists, read state, mutes | CRUD, read marks, mute | dispatcher |
| Alert settings (`routes/alerts.py`) | preferences, channel configuration, Telegram link codes | GET/PUT, link | dispatcher |
| Feed views, filters (`routes/feed_views.py`, `services/feed_filters.py`) | saved views, default view | CRUD, filter | dispatcher, events route |
| Accounts (`routes/auth.py`) | users, tokens | sign-up, refresh, verify, reset | mail |
| Socket.IO rooms (`realtime/socketio_setup.py`) | room membership | join, leave | subscriber, reaction worker |
| Read endpoints, mail, OpenAPI document, CLI, migrations | -- | -- | -- |

What is hard, and what correct means:

- **Subscriber.** Every stage of a message is its own query or commit, the
  channel keeps nothing, a message may come twice, and a deploy runs two
  processes for a while. Correct: a release is not posted next to a fresh copy
  of itself or of the filing that carries it; a filing is linked to one release
  and a link is never overwritten; nothing is dropped unless what it duplicates
  is there; readers hear of a stored event, once.
- **Dispatcher.** The publish pass and the move pass share a ledger and race on
  it; readers flip switches between a pass's queries; a send may fail or leave
  unrecorded. Correct: one message per reader, event and channel; none to those
  who are off; an outcome for all others.
- **FMP pipeline.** A poller and eight coroutines share sets with no lock but
  the event loop; process_release runs in threads; publication, file and mirror
  are three steps; retries, pauses and deploys cross. Correct: a release is with
  one worker, published once, over wires and restarts; one that stays listed is
  settled, whatever fails.
- **Reaction worker.** Rows are claimed with `FOR UPDATE SKIP LOCKED`, but the
  first per-event commit drops the locks; horizons meet closed markets, early
  closes and missing bars. Correct: a reaction is read from the trade its label
  promises and from a baseline of a minute no later than the filing's, every due
  row is settled, and a jump is told.
- **Ingest loops.** Two loops share a stand-down over a file, a mirror and memory;
  publish, mark and save are three steps, deploys wipe the disk, a 304 hides what
  was left for the next cycle. Correct: what the memory knows, or a store gave
  back when it was loaded, is not published again; a filing that stays listed is
  published, a release judged if its feed goes on changing; the mirror catches up. A
  publication that Redis refuses is lost, as the caller cannot tell.
- **Desk.** Threads share a breaker; a chain of models falls through on some errors;
  an issuer is put together from tag, teaser and page. Correct: an event is filed
  under the company it is about; facts alone are the last resort; a quote shown
  is in the document, and its link lands on it.
- **Registry.** Requests overlap between read and commit; the daily run works on
  rows it read at its start. Correct: a used or replaced link is dead; marks move by reading
  only; an account is verified for an address that something speaks for; a symbol
  opens its issuer as long as it is its; an alert counted as sent went out.
- **Catalogue.** Filters and counts are different code over rows that move, and the
  counts are kept for a minute; a queue is cut to a limit. Correct: an option
  returned what it promises when that was counted, a reader misses nothing on the way
  down, every company is synced again while a day leaves room for it.

PROJECT.json lists the hazards at their lines, with the properties that catch
each or the reason why none does. Section 7 names those it has no room for.

## 2. Modules

| Module | Content | Composed by |
|---|---|---|
| `Feed` | abstract feed: post, attach, announce | implemented by `Subscriber` |
| `Subscriber` | `_handle_event` step by step for any number of processes | `MCSubscriber`, `SubscriberProofs` |
| `AlertDispatcher` | both passes of the pool, ledger, switches | `MCAlertDispatcher`, `AlertDispatcherProofs` |
| `FmpPipeline` | poller, workers, seen and fingerprint files, restarts | `MCFmpPipeline`, `FmpPipelineProofs` |
| `ReactionWorker` | rows of `price_reaction`, ticks of several processes, sessions, backfill and reset | `MCReactionWorker`, `ReactionWorkerProofs` |
| `SeenStore` | a loop's set in memory, its file, its Redis mirror | `EdgarLoop` |
| `EdgarLoop` | `poll_loop` over `SeenStore` | `WireLoop` |
| `WireLoop` | `pr_poll_loop` over the wires' feeds | `Ingest` |
| `Ingest` | both loops in one process, feeds that move, deploys, time | `MCIngest`, `IngestProofs` |
| `Briefing` | the model chain, the key cycle, event types, facts-only | `Gates` |
| `Gates` | `process_release`, the article fetch and the hosts' breaker | `Desk` |
| `Evidence` | quotes located in documents, text-fragment links | `Desk` |
| `Desk` | jobs of the executor, or one resolution of evidence | `MCDesk`, `DeskProofs` |
| `Accounts` | users, one-time links, requests in two steps | `Library` |
| `Library` | watchlists, read marks, mutes, views, Telegram link | `Registry` |
| `Directory` | `sync_companies` beside the subscriber's additions | `Registry` |
| `Channels` | push registrations, channel settings, what a send makes of them | `Registry` |
| `Registry` | the rows the API keeps | `MCRegistry`, `RegistryProofs` |
| `Feeds` | filters, counts and pages over moving data | `Catalogue` |
| `Fundamentals` | the daily queue and on-demand backfills | `Catalogue` |
| `Catalogue` | both, over the company table | `MCCatalogue`, `CatalogueProofs` |

`Ingest` and `Library` (with `Accounts`) are compositions proper: their parts
share variables and interleave. `Desk`, `Registry` and `Catalogue` set parts side by side that do not
touch each other's state: an initial state leaves one part active and the
others at rest, so that TLC visits the sum of their states and not the product.
That is sound because neither part reads or writes what the other changes: a
reader's requests name a company by an id that neither the sync nor the
subscriber ever changes or deletes, and only sends read the rows of
`Channels`; a job's evidence is resolved by one thread from what that job holds;
feed filters read no fundamentals.

A definition whose name ends in `Mutant` is not part of a specification: it is
the definition that follows it with a plausible bug, kept to show that a
property notices.

### 2.1 Subscriber

`tables` (`createdAt`, `link`, `reactions`, `companies`) is what the database
commits; `emitted` counts emits and alert submissions; `channel` is each
process's Redis connection; `handler` is the program counter and locals of
`_handle_event` in each process. One action is one round trip of the handler:
`Check` (idempotency by `edgar_id`), `CheckTwin` and `CheckFiling` (the release
branch, `subscriber.py:97`), `CheckLinked`, `MatchRelease`, `LinkRelease`,
`LinkFails`, `EmitUpdate`, `SuppressOrStore` (the 8-K branch, `:111`), `Store`
(auto-created company and unique insert, `:159`), `ScheduleReactions`,
`ScheduleFails`, `FanOut`, `TriggerAlerts`. `Abort` is any exception that
reaches the listen loop, `Disconnect` the loss of the connection with its
buffer, `Crash` the death of the process. `Publish` is ingest, including
redelivery; `SyncCompany` the daily sync that may insert the company between
the handler's lookup and its insert. `verdict` is a history variable: how each
event was last disposed of.

The clock advances with each commit, so `createdAt` orders events as
`created_at` does; `Elapse` lets any time pass. Two fingerprint sets match by the
constant `SameText`, which need not be symmetric between a filing and a release
(an 8-K keeps one exhibit's fingerprint). Not kept: the limit of 50 candidates
per window, event payloads, rooms (only the number of emits).

`Feed` is what this promises, without a process: an event is posted once, never
while a copy is fresh, a filing that is not posted attaches to one release, an
announcement follows a post and happens once.

### 2.2 AlertDispatcher

One stored event. `Submit` puts a pass on the pool's queue; `Start` picks it up.
A publish pass reads preferences of the followers (`ReadPreferences`), drops the
muted (`DropMuted`), delivers, then does the owners of matching views; a move
pass does the views only: `MatchViews`, `ReadSwitch`, `DropMutedOwners`. Delivery
is `TakeUp`, `NextChannel`, `Insert` (unique row, `pending`), `Send`, `MarkSent`
or `MarkFailed`. `SendFails`, `MarkSentFails`, `Die`, `Crash` are the exceptions
at each of those places. `SetPreference` and `ToggleMute` are the readers; `Move`
is the reaction worker's finding that the price turned explosive. `steady`
records who changed nothing since the event was news. A user's channels and what
a view matches are constants of a run.

### 2.3 FmpPipeline

`memory` and `work` are the locals of `fmp_poll_loop`; `files` is
`pr_seen.json`, its Redis mirror, and `pr_fingerprints.json`; `workers` is each
coroutine. A step of the model is what the loop runs between two awaits.
`Gates` ends the executor call's part before the LLM; `Classify` its
end and the worker's code after the await: `Publish`, `Drop`, `Failed`,
`RateLimited`. `Save` and `SaveFps` are the two writes after a publication: no
other coroutine runs between them (`LoopIsFree`), but a kill may. `Poll` is a
whole poll, after FMP has answered. `Restart` is a kill, or an exception in the
poller and `_supervise` restarting it, or a deploy that wipes the disk.
`SaveSeen` writes the file and then, best effort, the mirror.

Clocks are relative: ages and countdowns that saturate where the code stops
caring, so no bound on time is needed. The gates' verdicts are nondeterministic.
Not kept: pruning of fingerprints after 48 hours and of the seen set after 30
days, the poll that is skipped while the ticker index is empty, the back-off
between failing polls (fairness says only that a poll eventually happens). The
order in which a poll queues what is due is any order.

### 2.4 ReactionWorker

`table` (`filed`, `rows`) is the database; `worker` is each process's tick: its
own `now` (`clock`), the rows it claimed (`batch`), the row locks it holds
(`locked`), the event in hand, and its rows as the session read them (`loaded`)
and as the handler has changed them (`working`). A price is the time of its
trade, so a wrong price is a wrong time. A minute bar holds the trades with one
`Stamp`, the minute's beginning, by which the code tells what is before or after:
the baseline is the close of the last bar stamped no later than the filing
(`Baseline`), the open is a bar's first trade (`First`), an intraday price its last
(`CloseOfFirst`). So a baseline may be up to a minute later than the filing, and
`NoLookahead` says no more than the code does. `Tick` is the claim with its
`FOR UPDATE SKIP LOCKED`, order and limit. `Begin` is `_process_event_rows` up to
the request for bars, with its early commit; `Measure` is the rest up to its
commit, for every answer FMP may give: `MinuteBars` (the newest bar may not have
landed) and `DailyBars` (today's forming bar may be listed). `Leave` ends the
transaction, and with it all the locks of the batch. `Merge` is what a session
writes at its commit, only the columns it changed; `Unlocked` the wait for other
sessions' locks. Then `Emit` and `TriggerViewAlerts`. `FetchFails` is a
`MarketDataError`, `Abort` any other exception, `Crash` the end of a process.
`Backfill`, `ResetRead` and `ResetCommit` are the two commands. The calendar
(`Day`, `OpenAt`, `CloseAt`, `Weekdays`) is a parameter, since
`_in_regular_hours` knows weekdays and hours but no holidays; `Tapes` says when
the ticker really trades. `cut` and `crossed` are history variables: events whose
emit or alert failed, events a reset and a tick changed at once.

Not kept: ATR (which trades are a jump is a constant), rooms, events without a
ticker (never scheduled), the order of a batch's events (any order).

### 2.5 SeenStore, EdgarLoop, WireLoop, Ingest

Paths are the two seen files. `seen` is a loop's set in memory, `file` what the
disk holds (`Missing` after a deploy), `mirror` the Redis hash, `belief` what
`_mirrored` thinks the hash holds, `redated` the entries marked with a new date
since, `down` the stand-down both loops share, `old` the entries past the 30
days; `unanswered` is history, the published entries that a load missed because
the file lacked them and Redis did too, was not asked or did not answer
(`Unanswer`). `LoadSeen` is the union of file and mirror at a
start; `SaveSeen` prunes, writes the file, and sends the mirror the difference
from `belief` (`Changed`: what it lacks, or has under another date; `Removed`: what
it no longer should have); `SaveSeenFails` and the outcomes of `SyncRedis` are a write that
fails, also one that was applied all the same. `MarkSeen` dates a release anew
(`redated`) and a filing as EDGAR does, the same each time.

`EdgarLoop` takes the steps of `poll_loop`: `FetchFeed`, then for each new filing,
oldest first, `ProcessEntry` (publish, mark, save) or `ProcessEntryFails`, then
`EdgarSave`. `FormType` and `AllowedForm` are the feed's title parsed and the
form list. `WireLoop` takes those of `pr_poll_loop`: `BeginCycle`, `ReadWire` (the
conditional GET: `unread` are the wires whose validators are out of date),
`ReadWireUnparsed` (validators kept, nothing read), `ReadWireFails`, `BackOff`,
`CallLLM` under the cap, `PublishRelease`, `DropRelease`, `JudgeFails`, `WireSave`,
`SavePrints`. `SaveRaises` ends the loop; `LoadTickers` is what `_judge` waits for.
`Ingest` adds the world: `List`, `Unlist`, `Touch` (a feed changes in other items),
`AgeOut`, `MinuteOver` (the stand-down ends), `Evict`, and `Restart`, with or without the disk.

Not kept: which of the feed's fields a filing has, the LLM's verdict (any), the
order of releases inside a wire's list (as listed), the length of a back-off
(it ends). `ArticleUnavailable` is not raised in this loop: it takes a release marked
as a teaser, which only FMP's rows are (`press_release/fmp.py:137`), and FMP's have
a loop of their own.

### 2.6 Briefing, Gates, Evidence, Desk

A `job` is one call in the executor: a filing to brief or a release to judge.
`Briefing` is `_chat_json`: `NextKey`, `Completing`, `Fallthrough` (which errors
try the next model), `RetryPlain` (the same model without its extra fields),
`NextModel`, and what each caller makes of the answer (`FilingBriefed`,
`ReleaseBriefed`). `Chain`, `Extras`, `EventTypes` and `ItemTypes` are the tables.
`Gates` is `process_release` in its order: `Screened` (language, law firms,
round-ups), `ResolveIssuer`, `Unnamed`, `Fingerprint` and the copy of another wire,
then the article: `TakeRelease`, `FetchBody` (the page comes or not) and `ReadPage`
(it is read, or reading it raises, which counts as a failure of its host after the
success), over `FetchWorks` and `FetchBreaks`, whose counters (`fails`, `skipUntil`)
all threads share. A release is built anew by every poll that lists it, so nothing of
an earlier attempt is left on it. A text is what the gates read
of it: how many letters and words, which tickers and names, whose story.

`Evidence` is pure but for its order: `Located` is `_Index.locate` over words
(shingles, alignment, coverage, widening), `Candidates` and `Highlight` are
`FragmentBuilder`, with the browser's rule that the first match wins. `Found` is a
find of a substring: a snippet may begin inside a word and end inside another, and
which words begin, end or hold which others is a parameter (`Begins`, `Ends`,
`Within`); `Reads` is what the passage then reads as. `Link` also turns down what is
longer than `MaxDirective` (in words here, in characters there).
`ResolveQuote` is the loop that keeps at most one item per passage, `EvidenceFails`
the exception that leaves a briefing without evidence. Words (`Words`) are
already folded; that folding itself is not modelled. The browser is the one
`text_fragment.py` describes: one that matches whole words only may highlight
another place, or none.

### 2.7 Accounts, Library, Channels

A request that computes from what it has read takes two steps, `Begin` and its
commit, so two requests overlap as they do in two server threads; the loser of a
unique clash answers 500 and changes nothing (`LibraryClash`). `token` is
`auth_token`; a request keeps what it saw of it (`seen`), and `InvalidateTokens` is an
UPDATE that runs before the commit, so a link committed in between survives it.
`mailed` is which link arrived at which address (mail may be lost); `trusted` is
history, the pairs of account and address that a link was followed for, a
provider reported or `UpdateUser` wrote in: that route changes the address and
leaves the account verified. In `Library`, a mark is a time and an event is
the time it was stored, so `Unread` is what the inbox counts.
`Channels` has `sub` (`push_subscription`, with an id that tells a row from
an earlier one of the same endpoint), `config` and one `send` per pool thread:
`StartSend` reads the rows, `Post` is one browser or one call that is taken, refused
or met with "gone", `Prune` deletes a dead browser's row, and its commit expires the
others (`expired`), so that the next of them is read again and may be gone
(`Vanished`). `NoAnswer` and `CutShort` are the exceptions the loop does not catch: a
connection that fails or times out, perhaps after it delivered, a row that vanished, a
commit that failed. They end the send with the other browsers untried.

### 2.8 Directory

`company`, `alias`, `event` are tables; `fmp` what FMP lists; `run` the daily sync: the rows it
read, its place in them, what it left for later; `draft` what it has written and
not committed. One action per kind of row: `SyncKnown`, `Unlisted`, `SyncPending`
(no profile: over budget, or failed), `SyncClass`, `SyncRename`, `SyncAdd`, then
`SyncRowsEnd`, `MarkDelisted`, `AliasEventTickers`, `LinkOrphans`. `Abort` is an
exception anywhere. `StoreEvent` is the subscriber, which resolves a symbol
(`BySymbol`, `Carrying`) and stores the event under the ticker the table has for that
company, or inserts a company with the feed's. Before the first run there may be
events stored under no company (`Unlinked`, of `Orphans`) or under the feed's spelling
beside a company the table spells otherwise (`OtherSpelling`), as an earlier program
left them: what `LinkOrphans` and `AliasEventTickers` are for.
`Fits` is what the SEC and FMP say of a symbol, and `OneIssuer` that they agree.

### 2.9 Feeds, Fundamentals

`Parsed` reads a raw query (`Default`, `Means`), `Accepted` refuses an unknown value
(`KnownTo`), `Keeps` is each clause of `apply_filters` but the one to skip,
`FacetCounts` counts what has each value stored (`Groups`, `Has`) with the other filters
held. `facets` are the answers Redis keeps for a minute under a key (`CacheKey`) that
readers with the same filters share: `Count` serves one (`Cached`) or makes it (`Fresh`),
`ExpireFacets` ends it. `Options` is what the panel offers, `Chosen`, `ToDict` and `Click`
turn an option into the next query, and `Returns` what that query answers; `told` is
history, the `Returns` of every reader an answer may be served to at the time it was
counted. The queries of one answer are taken to read at one time. `scroll` is
a reader going down the pages, each a query of its own (`Page`, `HasMore`) that
takes the events by their place in the view (`Newer`, `Place`). Views by sector,
industry, cap, window or move can be left by an event, which moves the later ones up:
`NothingSkipped` is about the others (`Lasting`). Underneath,
`Receive`, `React`, `ResetReactions`, `Age` (`edge`, where the window begins: by
time of receipt, or by filing date for one's own companies), `Classify`, and the phases of the nightly sync
(`SyncPrices`, `SyncShares`, `RecomputeCaps`) change what the clauses read.

`Fundamentals` counts days since a company's last attempt (`snap`). `StartRun`
builds the queue (never synced, recently reported, stale; cut to the limit), and
`SyncCompany` is one company's session, for the run and for an instance's
backfill alike: `Look`, `Insert` (which may clash), `Fetch`, `Store` or
`RecordFailure`, `Leave` or `Raise`. `Report` is the earnings calendar, each quarter
anew: its companies come before the stale ones and may fill the queue (`Ahead`,
`Room`). `Visit`, `Launch` and `Refresh` are the page and its
button; `key` is the Redis key that says a backfill is on its way.

## 3. Runs

| Run | What it checks | Instance |
|---|---|---|
| `subscriber` | `AnnouncedOnce`, `NoFreshCopy`, `OneReleasePerFiling`, `DroppedIsCovered`, `LinkPermanent`, `FeedSpec` (refinement), `StoredIsAnnounced` (liveness) | one process; a release, its copy, the wrapper 8-K, an 8-K/A with substance; 5 messages, 1 failure, 3 ticks |
| `subscriber_backfill` | `SubstanceIsPublished` fails | as `subscriber` |
| `alerts` | `AlertedOnce`, `QuietReaderHearsNothing`, `SettledOnce`, `FollowersHear` (liveness) | two threads, two readers, two channels, 2 passes, 1 change, 1 failure |
| `fmp` | `OneWorkerEach`, `PublishedOnce`, `CopiesPublishedOnce`, `ListedIsSettled`, `SeenIsSaved` (liveness) | two workers, two wires' copies, 1 failure |
| `fmp_retry` | `RateLimitedIsRetried` fails | one worker, no failure |
| `reactions` | `ReadsRightTrade`, `NoLookahead`, `OneSession` | two processes, two events, four rows each, reset or one failure |
| `reactions_settle` | `DueIsSettled`, `JumpIsAlerted` (liveness) | one process that claims one row at a time, one event of four rows; early close, holiday, weekend, or no trade at all; 1 failure |
| `reactions_holiday` | `OpenWaits` fails | the same, a holiday before a weekend |
| `registry` | `DeadLinks`, `VerifiedForAReason`, `NoBacklog`, `MarkMovesOnlyWhenRead`, `LinksStay`, `RunReaches`, `SentMeansReached` | one account, two addresses and one company, 2 threads, 4 requests, 1 failure, 1 tick; an issuer with two symbols and one stock without a CIK, 2 moves, 2 runs; two readers, three browsers, two channels, 2 sends, 1 request, 1 failure |
| `ingest` | `RememberedIsNotRepublished`; `MirrorCatchesUp`, `ListedIsPublished`, `ListedIsJudged` (liveness) | one filing with a release to come, or two releases of one wire, whose feed changes; one LLM call a cycle, 2 attempts, 2 failures |
| `desk` | `FactsOnlyIsLastResort`, `BreakerSound`, `EventIsTheirs`, `EvidenceIsProof` | two threads, 3 jobs, a chain of two models, breaker of 2 with a cooldown of 2, 3 ticks; documents of up to 5 words over 2 of which one begins with the other, links of up to 3 words, three files, one without an address |
| `catalogue` | `FacetsHonest`, `NothingSkipped`; `EveryoneIsTried`, `BuildingLands` (liveness) | three posts, 2 changes, five queries, one answer kept, three views, pages of one; two listed stocks of which one reports, and a de-listed one, queue of one, one API instance, 1 failure |

Bounds, and why they are enough. A message of each kind that the handler tells
apart is in `subscriber`, with the two windows of different length and three
ticks so that each can be inside, past the first, or past both; five messages
leave one redelivery of each event or several of one. One failure may strike
at any step; a second one adds what a redelivery already gives. Two threads and two
passes are what can race on one ledger row; a third only queues. In `fmp` two
workers race for two copies under one failed save, kill or deploy; ages run to
one past the last value that matters. `AnnouncedOnce` is checked with one
process, under redelivery and failures, and proved for any number of them.
In `ingest` two failures are a deploy and a write that fails, in either order, and
two releases exceed the cap of one LLM call. In `registry` two threads
are two requests that overlap, four requests are a link asked for, asked for again
and used twice, or asked for, the address changed, and used; three ids hold a company, its class or its successor, and one the
subscriber adds; batches of two put a commit in the middle of the rows; three
browsers are one reached, one dead and one that vanishes; a thread serves and
sends, and an id stands for a company or a browser, so that one symmetry does for all
parts. In `desk` one thread's slow success crosses two failures of the other, and
a document of five words has room for a quote, its double and a break. In
`catalogue` a page of one post makes any event that comes meanwhile move the cut;
two of the queries differ in the knob a saved view does not keep, so they must
not share an answer; a post has a type that is accepted no more;
a queue of one with three companies starves whoever the order lets it starve, and the
company that reports takes the whole of it on those days. How often it
reports is not bounded.
Symbols are not reused for another issuer while the old one's row lives, and
slugs of industries are distinct.
The calendar of the reaction runs has days of four slots, one before the bell and
three in the session, of which the first two are trades of one minute bar: a filing
at the first finds a bar stamped with its own time that closes at the second. A filing
before the bell and one in the session meet
a full day in `reactions`, whose clock stops when the first "+1d" row is due; the
other session cases are in `reactions_settle`, whose clock runs until the last
row is stale. The delays, windows and lookbacks keep the order of the code's: an
intraday interval inside a session, a lookback inside a day in hours and across
a weekend otherwise, a window of one day; `ClaimLimit` is one less than an
event's rows in `reactions` and one in `reactions_settle`, where a row without
prices is claimed before every other until it is given up. One failure is a reset, a lost commit, an FMP error, an exception
or a kill. Constants named `Max...` that count (`MaxSends`, `MaxInbox`, `MaxFaults`,
`MaxNow`, `MaxTime`, `MaxLag`, `MaxPasses`, `MaxChanges`, `MaxRequests`, `MaxEdits`, `MaxLists`, `MaxMoves`,
`MaxRuns`, `MaxJobs`, `MaxClock`, `MaxNudges`, `MaxCached`) bound the instance, not the program;
`MaxAge`, `MaxLate`, `MaxAttempts`, `MaxViews`, `MaxRetries`, `MaxBackfills`,
`MaxEvidence`, `MaxExact`, `MaxDirective` are the program's own limits, made small. The bounds end the
behaviours of every module but `FmpPipeline`, whose runs alone check for deadlock.

Three runs record disagreements between a comment and the code.

- `subscriber_backfill`: `subscriber.py:148` says "any substantive item beyond the
  PR means the 8-K still publishes". The branch at `:122` turns an 8-K away as
  soon as a release names it as its source. The handler of a substantive 8-K
  links the release, commits, and fails before it stores the event; redelivered,
  the 8-K is turned away, and is never published.
- `fmp_retry`: `pipeline.py:460` says "a rate-limited release is retried until
  PR_MAX_LATE_MINUTES after it was first seen". Retrying is the poller's job, and
  it only looks at the rows FMP still lists.
- `reactions_holiday`: `reaction_worker.py:122` says an open row due on a holiday
  "simply waits for the next session's bars". The window of bars ends 24 hours
  past `measure_at`, so over a holiday and a weekend it never reaches them and
  the row is given up as `no_prints`.

Others were met and have no run. `models/price_reaction.py:63` calls the baseline
"last trade at/before filing time (shared across an event's intervals)", but it is
the close of a minute bar that began by then (`reaction_worker.py:243`), up to a minute
after the filing; and a "+1d" row that comes due alone takes
the last daily close (`:217`). `push.py:81` says "only mark the
notification failed if no browser got it": a row that vanishes under the send, or a call
that times out, raises out of the loop after others were reached, perhaps this one
too, which is the exception `SentMeansReached` makes (`cut`). An account stays
verified when its owner changes the address by `routes/users.py:44`, while the mail
of `routes/auth.py` would have proved it. `press_release/pipeline.py:375` says that
what is over the budget "stays unseen - next cycle picks it up": a cycle later the
feed answers 304 unless it has changed, and the same holds after an answer that did
not parse (`feeds.py:137`, `:173`), which is the hypothesis of `ListedIsJudged`. `models/feed_view.py:8` has saved filters always
accepted, but a view's industry that no company has any more is refused by
`parse_filters`. `fundamentals/sync.py:347`: the comment says "a period filed after
its earnings date", the code tests for a quarter that ended in the last 120 days.

### Fairness

`Subscriber`: the thread takes its steps and reconnects while the process runs
(`WF` on `Handle` and `Subscribe` per process). `AlertDispatcher`: each pool
thread runs (`WF` on `Run`). `FmpPipeline`: time passes, the poller polls, each
worker's step is taken; the LLM client and the article fetch have timeouts, so
no await lasts for ever. `ReactionWorker`: time passes and each process takes the
steps of its tick; the daemon thread ticks every minute and the FMP client's
calls time out. `Ingest`: each loop takes its steps and is restarted by its
supervisor, a back-off and a stand-down end, the tickers are read in the end. Of
the feeds it asks that each wire's goes on changing (`Touch`), as a wire that
publishes does: without it a release left for the next cycle may stay unjudged. `Fundamentals`: cron runs daily, days pass, each session's calls
return, Redis keys expire, an instance's pool takes up what waits, and a page
that shows "building" polls. `EveryoneIsTried` itself supposes that again and again a
run has room behind the never synced and the reported (`Room`); the code
does not ensure it, its limit of 6000 does in practice. No fairness is asked of failures, readers, FMP or
of what ingest publishes; `Library`, `Directory`, `Gates` and `Feeds` promise safety only.

## 4. Proofs

All theorems hold for every value of the constants that the modules' named
assumptions allow: any number of events, processes, readers, channels, releases
and workers, any windows and limits, any number of failures. The bounds on
counters are guards of the same actions, so a proof covers each of their values.

| Theorem | Property | Argument |
|---|---|---|
| `SubscriberProofs!TypeCorrect` | `TypeOK` | inductive |
| `SubscriberProofs!AnnouncedAtMostOnce` | `AnnouncedOnce` | one process at most is past the insert with an event whose fan-out has not happened, which the unique `edgar_id` gives |
| `SubscriberProofs!NoFreshCopyPosted` | `NoFreshCopy` | one process; between lookup and commit nobody else posts, so what was not fresh then is not fresh at the commit |
| `SubscriberProofs!LinksSound`, `LinksPermanent` | `OneReleasePerFiling`, `LinkPermanent` | one process; the release in hand has no link and the filing none to its name |
| `SubscriberProofs!ImplementsFeed` | `FeedSpec` | each step is a step of `Feed` or a stutter, by the invariants above |
| `AlertDispatcherProofs!TypeCorrect` | `TypeOK` | inductive |
| `AlertDispatcherProofs!HeardOnce`, `LedgerSettled` | `AlertedOnce`, `SettledOnce` | whoever inserted the row owns it until its outcome: no two threads are past the insert with the same row, and a message leaves under a pending row of one's own |
| `AlertDispatcherProofs!QuietHeld` | `QuietReaderHearsNothing` | a reader who is off and steady is in no thread's list past the query that reads that switch |
| `FmpPipelineProofs!TypeCorrect` | `TypeOK` | inductive, `held` and `seen` exclude each other |
| `FmpPipelineProofs!OwnedOnce` | `OneWorkerEach` | needs that no foreign row is ever in flight, or a poll could settle what a worker holds |
| `FmpPipelineProofs!PublishedAtMostOnce` | `PublishedOnce` | what was published and is not torn is in the seen set and in the mirror, or its worker is about to save it |
| `FmpPipelineProofs!CopiesAtMostOnce` | `CopiesPublishedOnce` | what was published and not missed has its fingerprint in memory, on disk or about to be; a worker past the gates holds no copy of one |
| `ReactionWorkerProofs!TypeCorrect` | `TypeOK` | inductive (`TypeInv`): every session's rows belong to an event that is filed, and carry no baseline of a later minute |
| `ReactionWorkerProofs!BaselineNotLate` | `NoLookahead` | the same invariant: baselines are bounded in the table, in every session's copy and in the reset's |
| `ReactionWorkerProofs!TradeIsRight`, `MeasuredInOneSession` | `ReadsRightTrade`, `OneSession` | `SaneInv`, below |
| `SubscriberProofs!DroppedAlwaysCovered` | `DroppedIsCovered` | `CoverInv`: whatever a release is linked to matches it, and so does the release in the hand of a handler that links; for any number of processes |
| `IngestProofs!NeverRepublished` | `RememberedIsNotRepublished` | `RememberInv`: from its load to its end, a loop has in memory what was published, but for what its load missed (`unanswered`) |
| `IngestProofs!OwedIsAlwaysKnown` | `OwedIsKnown`, in the module | `BeliefInv`: what memory believes the mirror holds and still handles is there, unless it was marked anew |
| `DeskProofs!FactsAreLast` | `FactsOnlyIsLastResort` | `ChainInv`: every model before the one at hand failed in a way that calls for the next |
| `DeskProofs!BreakerIsRight` | `BreakerSound` | `BreakerInv`: the counter is the run of failures at the end of the host's last fetches, the skip time that of the last one |
| `DeskProofs!EventsAreTheirs` | `EventIsTheirs` | `GatedInv`: what gets past the gates is whose it says; `IssuerFound`: each way to an issuer rests on a name that was read |
| `DeskProofs!EvidenceProves` | `EvidenceIsProof` | `EvidenceInv`; the lemmas on `Located` (enough of the quote is covered) and on the link (its first match is the passage) |
| `RegistryProofs!VerifiedIsProven` | `VerifiedForAReason` | `VerifiedInv`: a verified row's address is trusted (`RowsBacked`); a link that was mailed shows its address of the row it is for, or the row's is trusted (`MailBacked`); and so with what a request in progress was shown (`AskBacked`) |
| `RegistryProofs!LinksDie` | `DeadLinks` | `LinksInv`: links that did their work or were overtaken are used up; a request about to store a verification link saw the older ones used |
| `RegistryProofs!NoBacklogEver` | `NoBacklog` | `InboxInv`: a followed company has a read state no older than the following, and so has any a request is about to write |
| `RegistryProofs!MarksMoveByReading` | `MarkMovesOnlyWhenRead` | the same invariant: a mark moves to the time a reading began or a company was first added |
| `RegistryProofs!OutcomeIsTrue` | `SentMeansReached` | `SendsInv`: what was read is reached, refused, known gone or still to be tried; what is still to be tried was read and has counted for nothing yet; a send that was cut short has failed; settings that were accepted hold what their channel needs |
| `RegistryProofs!LinksAlwaysStay` | `LinksStay` | `DirectoryInv`: every row, alias and event is of the issuer its symbol has, in the tables and in what a commit of the session would leave; no step takes a row away or changes its issuer, nor what its symbol opens (`DirectoryMoves`) |
| `RegistryProofs!RunAlwaysReaches` | `RunReaches` | the same invariant: what the run is past opens something in the session, and after its last commit in the tables; what it opens is of the symbol's issuer |
| `CatalogueProofs!NoneSkipped` | `NothingSkipped` | `ScrollInv`: what was due is still in the view, and what stands above the end of the last page was shown; an event never moves up in a view none leaves (`PlaceGrows`) |
| `CatalogueProofs!PanelHonest` | `FacetsHonest` | `PanelInv` (rows are typed) and `CacheOK` (a kept answer was honest when counted); query by query: what is stored and read back means the same, a choice is accepted, a bucket and its clause agree (`BucketsAgree`), a group is the view of its option (`GroupIsView`); and readers with one key have one view (`KeyIsView`) |

Four of `SubscriberProofs` assume one process (`OneProcess`), as
`services/api/main.py:50` does ("One process => one subscriber"); the overlap of
a deploy breaks `NoFreshCopy` and is a hazard with no property.

`SaneInv` says what a row is at any moment: due where its label puts it or at
the settled open of the first session after the filing, done only with the right
trade, intraday only if the filing fell in a session. It says so of the table
and of the two copies a session holds (the rows as read, the rows as changed),
because two processes may merge their columns into the same row after a lock
expired with a commit; that the merge of two sane sessions is sane needs that
"open" is never undone (`MergeSane`), which is what a reset does, hence the
events in `crossed` are excluded. The facts about bars are separate lemmas: the
bars a tick asks for leave no gap after the filing (`MinuteBarsStretch`), so the
first bar it sees is the first trade (`FirstIs`); a holiday seen in the bars and
the weekday rule of `_next_open` lead to the same open (`HolidayOpen`,
`NextOpenDue`). `CalendarAssumption` is all that is asked of the calendar: trades
fall in sessions, a session does not cross midnight, dates follow the clock.

The memory of a loop is not inductive by itself: a save prunes and may stop half
way, and the next start has only what file and mirror hold. `RememberInv` says
nothing of a loop that has not loaded, and the history variable `unanswered`, set at
the load, says what that load missed. It is not all that was lost: a mirror that
survived a deploy and stands down just then is not asked a second time
(`seen.py:103`), so the theorem does not reach what it holds. `BeliefInv` came from a proof that failed: an
entry that expired and was handled again is in the belief, but under its old
date, so a save has to send it again, which the code does because it compares dates
(`seen.py:121`) and an earlier model did not (now `redated`).

`FactsAreLast` supposes that the chain lists its last model once (`LastModelOnce`).
The code asks whether a model is the last by its name (`briefing.py:522`), so a
configured chain `a,b,a` gives up after its first model; the default chain has no
such repetition. `EventsAreTheirs`, `BreakerIsRight` and `EvidenceProves` have no
hypothesis but the named assumptions: limits are positive, a filing's documents
are sequences of words.

`LinksInv` has to know what a request in progress saw, because a link is stored
after the older ones were marked as used: no link of that purpose that the request
has seen is still live, and one stored by an overlapping request is not one that
was replaced. `InboxInv` likewise bounds what an add, a mute or a read is about to
write by the time it read. `OutcomeIsTrue` is about `RegistrySpec`, sends next to
accounts, lists and the sync. `BegunAssumption` says that the settings readers begin with
were accepted by the same rules as later ones; without it a channel set up with
the wrong kind of data would count as sent and reach nobody.

The directory's two theorems suppose `OneIssuer`; for any data at all they are false,
and should be: when the exchanges give a symbol to another issuer, the code drops the
old alias on purpose (`_drop_alias`), and the symbol opens the new one. The theorems
are about the symbols that stay. `OneIssuer` says that whoever is asked names the same issuer for a symbol, so that no symbol is
given to another issuer while the old row lives; that a stock FMP has no CIK for
is of an issuer with no other symbol in the feed; and that what ingest sends with a ticker has a
CIK, as EDGAR's filings and the SEC's ticker index give it (`main.py:156`,
`press_release/pipeline.py:266`). Without the last, an event with no CIK would
insert a second row for a symbol that only earlier events carried. TLC evaluates
`OneIssuer` on the instance of `registry` (`MCRegistry!InstanceOneIssuer`). The daily
run reads its rows once and then works on them while the subscriber inserts others; so
the invariant speaks of three tables, the one committed, the session's, and
their `Mix`, which is what a commit would leave. That the `Mix` has each ticker once
rests on the unique column, by which a write that clashes fails and ends the run
(`Unique`, `Abort`); that two rows shown for one symbol are of one issuer is `OneOwner`.

`VerifiedIsProven` is about the address a row has, not about the account alone: a link
followed after the address it was mailed to was changed shows nothing of the new one, and
the account is verified all the same, because `update_user` took the new one on trust.

`PanelHonest` speaks of the time of counting: a cached answer may be a minute old, and
what a click returns now may differ by what came since. It rests on `WordsAssumption`
(an option and what a spelling means mean themselves) and `BucketsAssumption` (buckets do not meet, the last is open and above
zero); both are read off the tables of `feed_filters.py`. `NoneSkipped` needs that ids
break ties of the filing date (`FeedsAssumption`), as `order_by` does.

Only model-checked is liveness: `StoredIsAnnounced`, `FollowersHear`, `ListedIsSettled`,
`SeenIsSaved`, `DueIsSettled`, `JumpIsAlerted`, `MirrorCatchesUp`, `ListedIsPublished`,
`ListedIsJudged`, `EveryoneIsTried`, `BuildingLands`. The prover reaches neither
fairness nor ENABLED. Every invariant and action property of a passing run is a theorem.

The type invariants of the first four modules are proved and not part of a run;
those of the others are parts of the invariants above.

## 5. Plan

1. `Subscriber`, `AlertDispatcher`, `FmpPipeline`, `ReactionWorker`, with proofs -- done.
2. `SeenStore`, `EdgarLoop`, `WireLoop`, `Ingest`, with proofs -- done.
3. `Briefing`, `Gates`, `Evidence`, `Desk`, with proofs -- done.
4. `Accounts`, `Library`, `Channels`, `Directory`, `Registry`, with proofs -- done.
5. `Feeds`, `Fundamentals`, `Catalogue` -- done, `Feeds` with proofs; `Fundamentals`
   promises liveness only.
6. Theorems that several runs imply: that a loop over a perfect mirror publishes
   each entry once, that what `Feed` promises holds under a deploy's overlap but for
   freshness.

## 6. Not modelled

- `openapi.py`, migrations, templates, scripts, deployment: no state that changes.
- HTML and text: `parser.py`, `fetcher.build_filing`'s fields, prompts, amounts,
  mail and message bodies. What the gates read of a text is an input.
- The arithmetic of `fundamentals/{derive,rows,mapper,analysis}.py` and of ATR:
  recursion over periods, out of the prover's reach and of little use to TLC.
- The FMP client's token bucket: it delays calls and changes no outcome.
- Quote and bars endpoints, discovery's ranking, the share funnel, company search:
  queries and counters with no protocol.
- Socket.IO rooms and the replay of missed events (`socketio_setup.py`): a
  reader's own connection; the models count emits.
- Rate limits and the stateless tokens of sign-in.

## 7. Hazards beyond the list

Known, and not listed in PROJECT.json (most of the steps are in the models, without a
property of their own): a kill between commit and
fan-out leaves an event no one is told of (`subscriber.py:263`); a backfill that
fails still suppresses its wrapper (`:139`); an auto-created company outside the
insert's guard (`:169`); pub/sub keeps nothing for an API that reconnects (`:352`);
a kill between a notification's insert and its outcome (`dispatcher.py:281`), a
message sent whose commit fails (`:297`), an exception between deliveries (`:66`);
a worker that waits out a pause which was extended meanwhile (`pipeline.py:518`); a retry
dropped as backlog after a restart (`:636`); a daily bar read while it still forms
(`reaction_worker.py:163`), a done row failed by another process's error (`:369`), a
reset and a tick on the same rows (`:441`); an
evicted mirror that memory takes for current (`seen.py:126`); the race of two
creations for a view's last slot or name (`feed_views.py:112`), a view saved and
answered with 500 (`:157`); two spellings of an industry with one slug, which the panel
counts together and a click finds one of (`feed_filters.py:112`, `:444`);
caps computed from shares and prices of different days
(`market_data/sync.py:116`);
a link code replaced while the bot's webhook holds the row (`routes/alerts.py:399`);
two first sign-ins of one address (`routes/auth.py`); a symbol given to another
issuer while the old row lives (`company_loader.py`).
