---------------------------- MODULE Fundamentals ----------------------------
(***************************************************************************)
(* Who keeps a company's fundamentals fresh                                *)
(* (services/api/app/services/fundamentals/sync.py, routes/fundamentals.py)*)
(* The daily run works down a queue no longer than its limit; a page of a  *)
(* company never synced starts a backfill of its own. Both go through      *)
(* sync_company: the snapshot's row is inserted first and committed after  *)
(* a dozen calls to FMP. Days are counted from the last attempt.           *)
(***************************************************************************)
EXTENDS Naturals, FiniteSets, SequencesExt

CONSTANTS
  Stocks, ByCap,       \* companies with a ticker; in the order of their caps
  Delisted,            \* listed = FALSE
  Watched, Filers,     \* on a watchlist; of an event of the last 90 days
  Reporters,           \* in FMP's earnings calendar now and then
  Instances, Cron,     \* processes of the API; the daily run
  SyncLimit,           \* FUNDAMENTALS_SYNC_LIMIT
  RefreshDays,         \* FULL_REFRESH_DAYS
  RetryDays,           \* POST_EARNINGS_RETRY_DAYS
  MaxRetries,          \* MAX_RETRIES
  MaxBackfills,        \* MAX_CONCURRENT_BACKFILLS
  NoSnap, NoReport,
  MaxNudges, MaxSyncFaults   \* bounds: forced refreshes; failures beside FMP's

VARIABLES
  snap,        \* stock -> NoSnap or the days since its last_synced_at, committed
  order,       \* those with one, the oldest last_synced_at first
  reported,    \* stock -> days since its earnings date, or NoReport
  queue, ran,  \* of the daily run, and whether today's has started
  session,     \* who is in sync_company: Cron, or <<instance, stock>>
  building,    \* instance -> the stocks it backfills
  key,         \* the stocks with a key in Redis
  nudges, syncFaults

fundamentalsVars == <<snap, order, reported, queue, ran, session, building, key,
                      nudges, syncFaults>>

Sessions == {Cron} \cup (Instances \X Stocks)
Away == [pc |-> "away", new |-> FALSE]
StockOf(s) == IF s = Cron THEN Head(queue) ELSE s[2]
Goes(s, pc) == session' = [session EXCEPT ![s].pc = pc]
SyncFault == syncFaults < MaxSyncFaults /\ syncFaults' = syncFaults + 1

-----------------------------------------------------------------------------
\* FMPClient.get: tried again while FMP cannot be reached or is busy, then an error.
Transient == {"unreachable", "busy"}
Tried(replies) ==
  LET final == CHOOSE i \in 1 .. MaxRetries :
                 /\ i = MaxRetries \/ replies[i] \notin Transient
                 /\ \A k \in 1 .. i - 1 : replies[k] \in Transient
  IN IF replies[final] \in {"data", "missing"} THEN "store" ELSE "record"

Answers == {Tried(replies) : replies \in [1 .. MaxRetries ->
                                           Transient \cup {"data", "missing", "refused", "garbled"}]}

\* The company_fundamentals rows, and _priority_ids.
Snapshots == {c \in Stocks : snap[c] # NoSnap}
Priority == Watched \cup Filers

\* _recently_reported; synced since, a company is left out if it holds a quarter
\* that is recent enough, the new one or not.
Reported == {c \in Snapshots : reported[c] # NoReport}
Due == {due \in SUBSET Reported : \A c \in Reported \ due : snap[c] < reported[c]}

Never == Stocks \ Snapshots
Stale == {c \in Snapshots : /\ snap[c] >= RefreshDays
                            /\ c \notin Delisted \/ c \in Priority}
Among(list, S) == SelectSeq(list, LAMBDA c : c \in S)

\* run_sync as cron starts it; the calendar may not answer.
StartRun ==
  /\ ~ran /\ ran' = TRUE
  /\ \E due \in Due \cup {{}} : \E calendar \in SetToSeqs(due) :
       LET all == Among(ByCap, Never \cap Priority)
                    \o Among(ByCap, Never \ (Priority \cup Delisted))
                    \o calendar \o Among(order, Stale \ due)
       IN /\ queue' = SubSeq(all, 1, IF Len(all) < SyncLimit THEN Len(all) ELSE SyncLimit)
          /\ Goes(Cron, IF all = <<>> THEN "away" ELSE "look")
  /\ UNCHANGED <<snap, order, reported, building, key, nudges, syncFaults>>

\* _start_backfill, of a page without a snapshot or a forced refresh.
Ask(i, c) ==
  /\ c \notin building[i] /\ Cardinality(building[i]) < MaxBackfills
  /\ c \notin key
  /\ building' = [building EXCEPT ![i] = @ \cup {c}]
  /\ Goes(<<i, c>>, "claimed")
  /\ UNCHANGED <<snap, order, reported, queue, ran, key, syncFaults>>

Visit(i, c) == snap[c] = NoSnap /\ Ask(i, c) /\ UNCHANGED nudges
Refresh(i, c) == nudges < MaxNudges /\ nudges' = nudges + 1 /\ Ask(i, c)

\* Another instance may have read the key's absence meanwhile.
Launch(i, c) ==
  /\ session[<<i, c>>].pc = "claimed"
  /\ key' = key \cup {c}
  /\ Goes(<<i, c>>, "look")
  /\ UNCHANGED <<snap, order, reported, queue, ran, building, nudges, syncFaults>>

-----------------------------------------------------------------------------
\* Mutant: a backfill that raises keeps its place.
LeaveMutant(s) ==
  /\ session' = [session EXCEPT ![s] = IF s = Cron /\ Len(queue) > 1
                                       THEN [Away EXCEPT !.pc = "look"] ELSE Away]
  /\ queue' = IF s = Cron THEN Tail(queue) ELSE queue
  /\ building' = building

\* The run goes on to its next company, the backfill's thread ends.
Leave(s) ==
  /\ session' = [session EXCEPT ![s] = IF s = Cron /\ Len(queue) > 1
                                       THEN [Away EXCEPT !.pc = "look"] ELSE Away]
  /\ queue' = IF s = Cron THEN Tail(queue) ELSE queue
  /\ building' = IF s = Cron THEN building ELSE [building EXCEPT ![s[1]] = @ \ {s[2]}]

\* An exception that leaves sync_company ends the run, or the thread.
Raise(s) ==
  /\ session' = [session EXCEPT ![s] = Away]
  /\ queue' = IF s = Cron THEN <<>> ELSE queue
  /\ building' = IF s = Cron THEN building ELSE [building EXCEPT ![s[1]] = @ \ {s[2]}]
  /\ UNCHANGED <<snap, order>>

Inserting(c) == {s \in Sessions : session[s].new /\ StockOf(s) = c}

Look(s) ==
  /\ session[s].pc = "look"
  /\ Goes(s, IF snap[StockOf(s)] = NoSnap THEN "insert" ELSE "fetch")
  /\ UNCHANGED <<snap, order, queue, building, syncFaults>>

\* The flush waits for another's uncommitted row, and clashes with a committed one.
Insert(s) ==
  /\ session[s].pc = "insert"
  /\ Inserting(StockOf(s)) = {}
  /\ IF snap[StockOf(s)] = NoSnap
     THEN /\ session' = [session EXCEPT ![s].pc = "fetch", ![s].new = TRUE]
          /\ UNCHANGED <<snap, order, queue, building>>
     ELSE Raise(s)
  /\ UNCHANGED syncFaults

\* A dozen calls: FMP answers them, one fails, or FMP answers what the mapper cannot
\* read (each time it is asked, in the code: here MaxSyncFaults bounds these too).
Fetch(s) ==
  /\ session[s].pc = "fetch"
  /\ \/ \E pc \in Answers : Goes(s, pc)
        /\ UNCHANGED <<snap, order, queue, building, syncFaults>>
     \/ SyncFault /\ Raise(s)

Attempted(s) ==
  /\ snap' = [snap EXCEPT ![StockOf(s)] = 0]
  /\ order' = Append(Among(order, Stocks \ {StockOf(s)}), StockOf(s))

Store(s) ==
  /\ session[s].pc = "store"
  /\ \/ Attempted(s) /\ Leave(s) /\ UNCHANGED syncFaults
     \/ /\ SyncFault
        /\ session' = [session EXCEPT ![s].pc = "record", ![s].new = FALSE]
        /\ UNCHANGED <<snap, order, queue, building>>

\* Mutant: a failure is noted, the attempt is not.
RecordFailureMutant(s) ==
  /\ session[s].pc = "record"
  /\ Inserting(StockOf(s)) \subseteq {s}
  /\ IF snap[StockOf(s)] = NoSnap THEN Attempted(s) ELSE UNCHANGED <<snap, order>>
  /\ UNCHANGED syncFaults
  /\ Leave(s)

RecordFailure(s) ==
  /\ session[s].pc = "record"
  /\ Inserting(StockOf(s)) \subseteq {s}
  /\ \/ Attempted(s) /\ UNCHANGED syncFaults
     \/ SyncFault /\ UNCHANGED <<snap, order>>
  /\ Leave(s)

SyncCompany(s) ==
  /\ Look(s) \/ Insert(s) \/ Fetch(s) \/ Store(s) \/ RecordFailure(s)
  /\ UNCHANGED <<reported, ran, key, nudges>>

\* A deploy replaces the instance: its threads and its set are gone, the keys stay.
Restart(i) ==
  /\ SyncFault
  /\ session' = [s \in Sessions |-> IF s # Cron /\ s[1] = i THEN Away ELSE session[s]]
  /\ building' = [building EXCEPT ![i] = {}]
  /\ UNCHANGED <<snap, order, reported, queue, ran, key, nudges>>

-----------------------------------------------------------------------------
Expire(c) ==
  /\ c \in key /\ key' = key \ {c}
  /\ UNCHANGED <<snap, order, reported, queue, ran, session, building, nudges, syncFaults>>

\* The earnings calendar names a company, one quarter after the other.
Report(c) ==
  /\ c \in Reporters /\ reported[c] = NoReport
  /\ reported' = [reported EXCEPT ![c] = 0]
  /\ UNCHANGED <<snap, order, queue, ran, session, building, key, nudges, syncFaults>>

NewDay ==
  /\ ran /\ session[Cron] = Away /\ ran' = FALSE
  /\ snap' = [c \in Stocks |-> IF snap[c] \in {NoSnap, RefreshDays} THEN snap[c] ELSE snap[c] + 1]
  /\ reported' = [c \in Stocks |-> IF reported[c] \in {NoReport, RetryDays} THEN NoReport
                                   ELSE reported[c] + 1]
  /\ UNCHANGED <<order, queue, session, building, key, nudges, syncFaults>>

FundamentalsInit ==
  /\ snap = [c \in Stocks |-> NoSnap] /\ order = <<>>
  /\ reported = [c \in Stocks |-> NoReport]
  /\ queue = <<>> /\ ran = FALSE
  /\ session = [s \in Sessions |-> Away]
  /\ building = [i \in Instances |-> {}] /\ key = {}
  /\ nudges = 0 /\ syncFaults = 0

FundamentalsNext ==
  \/ StartRun \/ NewDay
  \/ \E s \in Sessions : SyncCompany(s)
  \/ \E i \in Instances : Restart(i)
  \/ \E c \in Stocks :
       \/ Expire(c) \/ Report(c)
       \/ \E i \in Instances : Visit(i, c) \/ Refresh(i, c) \/ Launch(i, c)

(***************************************************************************)
(* Cron runs daily; calls to FMP and to the database return; keys expire;  *)
(* a reader who is shown "building" polls the page.                        *)
(***************************************************************************)
FundamentalsFairness ==
  /\ WF_fundamentalsVars(StartRun) /\ WF_fundamentalsVars(NewDay)
  /\ \A s \in Sessions : WF_fundamentalsVars(SyncCompany(s))
  /\ \A c \in Stocks : WF_fundamentalsVars(Expire(c))
  /\ \A c \in Stocks, i \in Instances :
       WF_fundamentalsVars(Visit(i, c)) /\ WF_fundamentalsVars(Launch(i, c))

-----------------------------------------------------------------------------
\* The never synced and the reported are queued before the stale, and the queue is
\* cut: the stale are reached on days that leave room behind those.
Ahead == (Never \cap Priority) \cup (Never \ Delisted) \cup Reported
Room == Cardinality(Ahead) < SyncLimit

(***************************************************************************)
(* No listed company is left behind by others that fail: if again and      *)
(* again a day leaves room behind the calendar's, each is tried again and  *)
(* again, whatever FMP answers to how many companies every day: it is the  *)
(* attempt that counts, not its success (fundamentals/sync.py:33-35,       *)
(* 62-64, 252-256). A calendar as long as the queue, day after day, does   *)
(* starve the stale, and so would a company that ends every run with an    *)
(* exception (sync.py:86-95): the property supposes neither.               *)
(***************************************************************************)
EveryoneIsTried ==
  []<><<StartRun /\ Room>>_fundamentalsVars =>
    \A c \in Stocks \ Delisted : []<>(snap[c] = 0)

(***************************************************************************)
(* A page that says it is building gets its snapshot, also of a company no *)
(* run would queue, whatever slots, keys, deploys and clashes with the run *)
(* stand in the way, once backfills have stopped to raise: one that raises *)
(* each time is asked for each time (routes/fundamentals.py:8-10, 42-48).  *)
(***************************************************************************)
BuildingLands == \A c \in Stocks : <>(snap[c] # NoSnap)
=============================================================================
