--------------------------- MODULE ReactionWorker ---------------------------
(***************************************************************************)
(* The price-reaction worker of the API service                            *)
(* (services/api/app/services/market_data/reaction_worker.py): the rows of *)
(* price_reaction are the queue; a tick claims what is due, takes its      *)
(* events one by one (read, fetch bars, commit, emit, alert), and two      *)
(* processes may do so while a deploy overlaps.  `flask reset-reactions`   *)
(* runs beside them.  One ticker; a price is the time of its trade, and a  *)
(* bar of FMP's is the trades of one minute, stamped with its beginning.   *)
(***************************************************************************)
EXTENDS Naturals, FiniteSets, FiniteSetsExt

CONSTANTS
  Procs, Events,
  Intraday,          \* INTRADAY_INTERVALS, "5m" among them
  Delay,             \* INTERVALS: how long after the filing a row comes due
  Day(_),            \* the Eastern date of a time
  Stamp(_),          \* the beginning of its minute
  OpenAt(_), CloseAt(_),   \* SESSION_OPEN and SESSION_CLOSE of a date
  Weekdays,
  Tapes,             \* the times the ticker may have traded at
  Jumps,             \* trades two ATRs away from any baseline
  FilingTimes,
  OpenSettle,        \* OPEN_SETTLE
  Window,            \* the 24 hours of minute bars past measure_at
  Lookback,          \* 4 hours
  OffHoursLookback,  \* OFF_HOURS_LOOKBACK
  BarDelay,          \* how far FMP's minute bars may run behind the market
  WeekBars,          \* 5: the daily bar that is "1w"
  StaleAfter,        \* STALE_AFTER
  MaxAttempts,       \* MAX_ATTEMPTS
  ClaimLimit,        \* CLAIM_LIMIT
  Never, NoEvent,
  CanReset,          \* whether reset-reactions is run
  MaxTime, MaxLag, MaxFaults   \* bounds: the clock, how late an event is stored,
                     \* failures and resets

Ids == Intraday \cup {"1d", "1w"}    \* a row, by the interval it was made for
Kinds == Ids \cup {"open"}
InHours(t) == Day(t) \in Weekdays /\ OpenAt(Day(t)) <= t /\ t < CloseAt(Day(t))

ASSUME ReactionAssumption ==
  /\ "5m" \in Intraday /\ Intraday \cap {"open", "1d", "1w"} = {}
  /\ Delay \in [Ids -> Nat \ {0}]
  /\ FilingTimes \subseteq Nat /\ FilingTimes # {}
  /\ {OpenSettle, Window, Lookback, OffHoursLookback, BarDelay, StaleAfter} \subseteq Nat
  /\ Lookback <= OffHoursLookback
  /\ {WeekBars, MaxAttempts, ClaimLimit} \subseteq Nat \ {0}
  /\ Never \notin Nat /\ NoEvent \notin Events

\* Trades fall in sessions, sessions open on the minute and do not cross midnight,
\* dates and minutes follow the clock, the lookback is longer than a minute, and
\* there is always a next session.
ASSUME CalendarAssumption ==
  /\ \A d \in Weekdays : OpenAt(d) \in Nat
  /\ \A t \in FilingTimes :
       /\ Day(t) \in Nat /\ \E d \in Weekdays : OpenAt(d) > t
       /\ Stamp(t) \in Nat /\ t <= Stamp(t) + Lookback
  /\ \A trades \in Tapes :
       /\ \A t, u \in FilingTimes \cup trades :
            t <= u => Day(t) <= Day(u) /\ Stamp(t) <= Stamp(u)
       /\ \A s \in trades :
            /\ s \in Nat /\ Day(s) \in Nat /\ CloseAt(Day(s)) \in Nat /\ InHours(s)
            /\ Stamp(s) \in Nat /\ OpenAt(Day(s)) <= Stamp(s) /\ Stamp(s) <= s
            /\ \A t \in FilingTimes :
                 OpenAt(Day(s)) <= t /\ t <= s => Day(t) = Day(s)

VARIABLES
  now, tape,         \* the clock, and when the ticker trades
  filed,             \* filing_date of each stored event, or Never
  rows,              \* price_reaction, by event and row
  pc,                \* where a process is in its tick
  clock,             \* the tick's `now`
  batch,             \* the claimed rows whose event is not done yet
  locked,            \* those still locked
  event,             \* the event in hand
  loaded, working,   \* its rows as the session read them, and as it changed them
  cli,               \* reset-reactions: the rows as it read them
  alerted,           \* events passed to trigger_view_alerts
  cut,               \* events whose emit or alert failed
  crossed,           \* events a reset and a tick changed at once
  faults

market == <<now, tape>>
table == <<filed, rows>>
worker == <<pc, clock, batch, locked, event, loaded, working>>
counts == <<cut, crossed, faults>>
vars == <<market, table, worker, cli, alerted, counts>>

Row == [kind : Kinds, due : Nat,
        status : {"none", "pending", "done", "failed",
                  "off_hours", "after_close", "no_prints"},   \* skipped, why
        attempts : 0 .. MaxAttempts,
        base : Nat \cup {Never}, at : Nat \cup {Never}]

NewRow(i, due, status) ==
  [kind |-> i, due |-> due, status |-> status, attempts |-> 0,
   base |-> Never, at |-> Never]
NoRows == [i \in Ids |-> NewRow(i, 0, "none")]
Scheduled(t) == [i \in Ids |-> NewRow(i, t + Delay[i], "pending")]

\* Nothing happens before the first filing.
Init ==
  /\ now = Min(FilingTimes)
  /\ tape \in Tapes
  /\ filed = [e \in Events |-> Never]
  /\ rows = [e \in Events |-> NoRows]
  /\ pc = [p \in Procs |-> "sleep"]
  /\ clock = [p \in Procs |-> 0]
  /\ batch = [p \in Procs |-> {}]
  /\ locked = [p \in Procs |-> {}]
  /\ event = [p \in Procs |-> NoEvent]
  /\ loaded = [p \in Procs |-> NoRows]
  /\ working = [p \in Procs |-> NoRows]
  /\ cli = Never
  /\ alerted = {} /\ cut = {} /\ crossed = {}
  /\ faults = 0

-----------------------------------------------------------------------------
(* Time, the subscriber and the command line.                              *)

Elapse ==
  /\ now < MaxTime
  /\ now' = now + 1
  /\ UNCHANGED <<tape, table, worker, cli, alerted, counts>>

\* The subscriber stores an event, and its rows unless that commit fails.
File(e, t) ==
  /\ filed[e] = Never
  /\ t <= now /\ now <= t + MaxLag
  /\ filed' = [filed EXCEPT ![e] = t]
  /\ \/ /\ rows' = [rows EXCEPT ![e] = Scheduled(t)]
        /\ UNCHANGED faults
     \/ /\ faults < MaxFaults
        /\ faults' = faults + 1
        /\ UNCHANGED rows
  /\ UNCHANGED <<market, worker, cli, alerted, cut, crossed>>

\* backfill_reactions: the rows an event lacks.
Backfill(e) ==
  /\ filed[e] # Never
  /\ rows[e] = NoRows
  /\ rows' = [rows EXCEPT ![e] = Scheduled(filed[e])]
  /\ UNCHANGED <<market, filed, worker, cli, alerted, counts>>

\* A session updates the columns it has changed and no others.
Column(stored, before, after) == IF after = before THEN stored ELSE after
MergeRow(stored, before, after) ==
  [kind |-> Column(stored.kind, before.kind, after.kind),
   due |-> Column(stored.due, before.due, after.due),
   status |-> Column(stored.status, before.status, after.status),
   attempts |-> Column(stored.attempts, before.attempts, after.attempts),
   base |-> Column(stored.base, before.base, after.base),
   at |-> Column(stored.at, before.at, after.at)]
Merge(stored, before, after) ==
  [i \in Ids |-> MergeRow(stored[i], before[i], after[i])]

\* An update waits for the other sessions' locks.
Unlocked(e, before, after, holders) ==
  \A i \in Ids : before[i] # after[i] =>
    \A q \in holders : <<e, i>> \notin locked[q]

\* reset_intraday_reactions, row by row of an event.
ResetRows(t, rs) ==
  LET has5m == \E i \in Ids : rs[i].kind = "5m"
      again(r) == IF r.kind = "open" /\ ~has5m THEN "5m" ELSE r.kind
  IN [i \in Ids |-> IF rs[i].status # "none" /\ again(rs[i]) \in Intraday
                    THEN NewRow(again(rs[i]), t + Delay[again(rs[i])], "pending")
                    ELSE rs[i]]

ResetRead ==
  /\ CanReset
  /\ faults < MaxFaults
  /\ faults' = faults + 1
  /\ cli = Never
  /\ cli' = rows
  /\ UNCHANGED <<market, table, worker, alerted, cut, crossed>>

ResetCommit ==
  /\ cli # Never
  /\ \A e \in Events :
       Unlocked(e, cli[e], ResetRows(filed[e], cli[e]), Procs)
  /\ rows' = [e \in Events |->
                Merge(rows[e], cli[e], ResetRows(filed[e], cli[e]))]
  /\ cli' = Never
  /\ crossed' = crossed \cup {e \in Events :
                  rows[e] # cli[e] \/ \E p \in Procs : pc[p] = "fetch" /\ event[p] = e}
  /\ UNCHANGED <<market, filed, worker, alerted, cut, faults>>

-----------------------------------------------------------------------------
(* One event's rows.                                                       *)

Pending(r) == r.status = "pending"
StillDue(rs, ids, t) == {i \in ids : Pending(rs[i]) /\ rs[i].due <= t}

NextOpen(t) == Min({OpenAt(d) : d \in {w \in Weekdays : OpenAt(w) > t}})

ToOpen(r, open) == [r EXCEPT !.kind = "open", !.due = open + OpenSettle]
Skip(r, why) == [r EXCEPT !.status = why]

\* Mutant: the rows that are not kept for the open stay pending.
DeferToOpenMutant(rs, open) ==
  [i \in Ids |-> IF Pending(rs[i]) /\ rs[i].kind = "5m"
                 THEN ToOpen(rs[i], open)
                 ELSE rs[i]]

\* Every pending intraday row of the event, claimed or not: the 5m row waits for
\* the open, the others are given up.
DeferToOpen(rs, open) ==
  LET hasOpen == \E i \in Ids : rs[i].kind = "open"
  IN [i \in Ids |->
       IF ~Pending(rs[i]) \/ rs[i].kind \notin Intraday THEN rs[i]
       ELSE IF rs[i].kind = "5m" /\ ~hasOpen
            THEN ToOpen(rs[i], open)
            ELSE Skip(rs[i], "off_hours")]

AfterClose(rs, ids, close) ==
  [i \in Ids |-> IF i \in ids /\ rs[i].kind \in Intraday /\ rs[i].due >= close
                 THEN Skip(rs[i], "after_close") ELSE rs[i]]

AnyIntraday(rs, ids) == \E i \in ids : rs[i].kind \in Intraday

\* What needs no bars.
BeforeFetch(t0, rs, ids) ==
  IF InHours(t0) THEN AfterClose(rs, ids, CloseAt(Day(t0)))
  ELSE IF AnyIntraday(rs, ids) THEN DeferToOpen(rs, NextOpen(t0)) ELSE rs

\* What FMP may answer to the request for minute bars, if any row needs them: the
\* newest may not have landed, the one that forms has the trades so far.
MinuteRows(rs, ids, t) == {i \in StillDue(rs, ids, t) : rs[i].kind \notin {"1d", "1w"}}
WindowEnd(rs, ids, t) ==
  Min({Max({rs[i].due + Window : i \in MinuteRows(rs, ids, t)}), t})
MinuteBars(t0, rs, ids, t) ==
  LET back == IF InHours(t0) THEN Lookback ELSE OffHoursLookback
      bars == {s \in tape : Stamp(s) + back >= t0 /\ Stamp(s) <= WindowEnd(rs, ids, t)}
  IN IF MinuteRows(rs, ids, t) = {} THEN {{}}
     ELSE {{s \in bars : s <= now}, {s \in bars : s + BarDelay <= now}}

\* Weekday hours of a day without bars, though a later one has some.
Holiday(t0, rs, due, bars) ==
  /\ InHours(t0)
  /\ AnyIntraday(rs, due)
  /\ \A s \in bars : Day(s) # Day(t0)
  /\ \E s \in bars : Day(s) > Day(t0)
AfterHoliday(t0, rs, due, bars) ==
  IF Holiday(t0, rs, due, bars)
  THEN DeferToOpen(rs, OpenAt(Min({Day(s) : s \in {b \in bars : Day(b) > Day(t0)}})))
  ELSE rs

\* Daily bars: every past session's, and today's while it forms if FMP lists it.
DailyBars ==
  LET traded == {Day(s) : s \in {b \in tape : b <= now}}
  IN {traded, traded \ {Day(now)}}
CloseOf(d) == Max({s \in tape : Day(s) = d /\ s <= now})

\* Mutant: today's daily close counts whatever the hour of the filing.
BaselineMutant(t0, bars, days) ==
  LET before == {s \in bars : Stamp(s) <= t0}
      closed == {d \in days : d <= Day(t0)}
  IN IF before # {} THEN Max(before)
     ELSE IF closed # {} THEN CloseOf(Max(closed)) ELSE Never

\* The close of the last bar stamped no later than the filing, or a daily close.
Baseline(t0, bars, days) ==
  LET before == {s \in bars : Stamp(s) <= t0}
      closed == {d \in days : \/ d < Day(t0)
                              \/ d = Day(t0) /\ t0 >= CloseAt(d)}
  IN IF before # {} THEN Max(before)
     ELSE IF closed # {} THEN CloseOf(Max(closed)) ELSE Never

\* The trade a row reads, or Never.
Daily(t0, r, days, stale) ==
  LET after == {d \in days : d > Day(t0)}
      n == IF r.kind = "1d" THEN 1 ELSE WeekBars
      nth == {d \in after : Cardinality({c \in after : c <= d}) = n}
  IN IF nth # {} THEN CloseOf(Min(nth))
     ELSE IF stale /\ after # {} THEN CloseOf(Max(after)) ELSE Never
\* _measure_open: the open of the first bar stamped t or later; _measure_intraday:
\* its close.
First(bars, t) ==
  LET from == {s \in bars : Stamp(s) >= t}
  IN IF from = {} THEN Never ELSE Min(from)
CloseOfFirst(bars, t) ==
  LET first == First(bars, t)
  IN IF first = Never THEN Never ELSE Max({s \in bars : Stamp(s) = Stamp(first)})
\* Mutant: the open is read once it has settled.
ReadingMutant(t0, r, bars, days, stale) ==
  IF r.kind \in {"1d", "1w"} THEN Daily(t0, r, days, stale)
  ELSE IF r.kind = "open" THEN First(bars, r.due)
  ELSE CloseOfFirst(bars, r.due)

Reading(t0, r, bars, days, stale) ==
  IF r.kind \in {"1d", "1w"} THEN Daily(t0, r, days, stale)
  ELSE IF r.kind = "open" THEN First(bars, r.due - OpenSettle)
  ELSE CloseOfFirst(bars, r.due)

\* _finish_row.
Finish(r, at) == [r EXCEPT !.at = at, !.status = "done"]

Bump(n) == IF n < MaxAttempts THEN n + 1 ELSE n

\* Mutant: a row without a baseline is tried for ever.
MeasureRowStaleMutant(t0, r, bars, days, t) ==
  LET base == Baseline(t0, bars, days)
      stale == t > r.due + StaleAfter
      at == Reading(t0, r, bars, days, stale)
      based == [r EXCEPT !.base = base]
  IN IF base = Never THEN [r EXCEPT !.attempts = Bump(@)]
     ELSE IF r.kind \in Intraday /\ at # Never /\ Day(at) # Day(t0)
     THEN Skip(based, "after_close")
     ELSE IF at # Never THEN Finish(based, at)
     ELSE IF stale THEN Skip(based, "no_prints")
     ELSE based

\* The loop over the rows that are due.
MeasureRow(t0, r, bars, days, t) ==
  LET base == Baseline(t0, bars, days)
      stale == t > r.due + StaleAfter
      at == Reading(t0, r, bars, days, stale)
      based == [r EXCEPT !.base = base]
  IN IF base = Never
     THEN IF stale THEN Skip(r, "no_prints")
                   ELSE [r EXCEPT !.attempts = Bump(@)]
     ELSE IF r.kind \in Intraday /\ at # Never /\ Day(at) # Day(t0)
     THEN Skip(based, "after_close")
     ELSE IF at # Never THEN Finish(based, at)
     ELSE IF stale THEN Skip(based, "no_prints")
     ELSE based

Measured(t0, rs, due, t, bars, days) ==
  [i \in Ids |-> IF i \in StillDue(rs, due, t)
                 THEN MeasureRow(t0, rs[i], bars, days, t) ELSE rs[i]]

-----------------------------------------------------------------------------
(* The tick.                                                               *)

Claims(e, p) == {i \in Ids : <<e, i>> \in batch[p]}
RowOf(k) == rows[k[1]][k[2]]

\* SELECT ... FOR UPDATE SKIP LOCKED ORDER BY measure_at LIMIT.
Tick(p) ==
  LET free == {k \in Events \X Ids :
                 /\ Pending(RowOf(k)) /\ RowOf(k).due <= now
                 /\ \A q \in Procs : k \notin locked[q]}
  IN /\ pc[p] = "sleep"
     /\ \E claim \in SUBSET free :
          /\ claim # {}
          /\ Cardinality(claim) = Min({ClaimLimit, Cardinality(free)})
          /\ \A k \in claim, l \in free \ claim : RowOf(k).due <= RowOf(l).due
          /\ batch' = [batch EXCEPT ![p] = claim]
          /\ locked' = [locked EXCEPT ![p] = claim]
     /\ clock' = [clock EXCEPT ![p] = now]
     /\ pc' = [pc EXCEPT ![p] = "next"]
     /\ UNCHANGED <<market, table, event, loaded, working, cli, alerted, counts>>

\* Mutant: the event leaves the batch before it is emitted.
LeaveMutant(p, e, to) ==
  LET left == {k \in batch[p] : k[1] # e}
  IN /\ locked' = [locked EXCEPT ![p] = {}]
     /\ loaded' = [loaded EXCEPT ![p] = NoRows]
     /\ working' = [working EXCEPT ![p] = NoRows]
     /\ batch' = [batch EXCEPT ![p] = left]
     /\ event' = [event EXCEPT ![p] = IF to = "next" THEN NoEvent ELSE e]
     /\ pc' = [pc EXCEPT ![p] = IF to = "next" /\ left = {} THEN "sleep" ELSE to]
     /\ clock' = IF to = "next" /\ left = {} THEN [clock EXCEPT ![p] = 0] ELSE clock

\* A commit or a rollback ends the transaction, and with it every lock; then
\* comes the next event, or sleep.
Leave(p, e, to) ==
  LET left == {k \in batch[p] : k[1] # e}
  IN /\ locked' = [locked EXCEPT ![p] = {}]
     /\ loaded' = [loaded EXCEPT ![p] = NoRows]
     /\ working' = [working EXCEPT ![p] = NoRows]
     /\ IF to = "next"
        THEN /\ batch' = [batch EXCEPT ![p] = left]
             /\ event' = [event EXCEPT ![p] = NoEvent]
             /\ pc' = [pc EXCEPT ![p] = IF left = {} THEN "sleep" ELSE "next"]
             /\ clock' = IF left = {} THEN [clock EXCEPT ![p] = 0] ELSE clock
        ELSE /\ event' = [event EXCEPT ![p] = e]
             /\ pc' = [pc EXCEPT ![p] = to]
             /\ UNCHANGED <<batch, clock>>

\* The session reads the event's rows; if no bars are needed it commits.  The
\* code goes by the earliest row, the model in any order.
Begin(p, e) ==
  LET settled == BeforeFetch(filed[e], rows[e], Claims(e, p))
  IN /\ pc[p] = "next"
     /\ Claims(e, p) # {}
     /\ \/ /\ StillDue(settled, Claims(e, p), clock[p]) = {}
           /\ Unlocked(e, rows[e], settled, Procs \ {p})
           /\ rows' = [rows EXCEPT ![e] = settled]
           /\ Leave(p, e, "next")
        \/ /\ StillDue(settled, Claims(e, p), clock[p]) # {}
           /\ loaded' = [loaded EXCEPT ![p] = rows[e]]
           /\ working' = [working EXCEPT ![p] = settled]
           /\ event' = [event EXCEPT ![p] = e]
           /\ pc' = [pc EXCEPT ![p] = "fetch"]
           /\ UNCHANGED <<rows, clock, batch, locked>>
     /\ UNCHANGED <<market, filed, cli, alerted, counts>>

\* The rows as measured with the bars that come back.
Outcomes(p) ==
  LET t0 == filed[event[p]]
      due == StillDue(working[p], Claims(event[p], p), clock[p])
  IN UNION {{Measured(t0, rs, due, clock[p], bars, days) :
               rs \in {AfterHoliday(t0, working[p], due, bars)}, days \in DailyBars} :
             bars \in MinuteBars(t0, working[p], due, clock[p])}

\* Mutant: an event with rows still to measure is not emitted yet.
CompletedMutant(p, after) ==
  /\ \E i \in Claims(event[p], p) :
       Pending(working[p][i]) /\ after[i].status = "done"
  /\ \A i \in Ids : ~Pending(after[i])

Completed(p, after) ==
  \E i \in Claims(event[p], p) :
    Pending(working[p][i]) /\ after[i].status = "done"

Measure(p) ==
  /\ pc[p] = "fetch"
  /\ \E after \in Outcomes(p) :
       /\ Unlocked(event[p], loaded[p], after, Procs \ {p})
       /\ rows' = [rows EXCEPT ![event[p]] = Merge(@, loaded[p], after)]
       /\ Leave(p, event[p], IF Completed(p, after) THEN "emit" ELSE "next")
  /\ UNCHANGED <<market, filed, cli, alerted, counts>>

\* MarketDataError: rolled back, and every claimed row counts a failure.
CountFailure(r) ==
  [r EXCEPT !.attempts = Bump(@),
            !.status = IF Bump(r.attempts) >= MaxAttempts THEN "failed" ELSE @]
FetchFails(p) ==
  LET e == event[p]
      counted == [i \in Ids |-> IF i \in Claims(e, p) THEN CountFailure(rows[e][i])
                                                      ELSE rows[e][i]]
  IN /\ faults < MaxFaults
     /\ faults' = faults + 1
     /\ pc[p] = "fetch"
     /\ Unlocked(e, rows[e], counted, Procs \ {p})
     /\ rows' = [rows EXCEPT ![e] = counted]
     /\ Leave(p, e, "next")
     /\ UNCHANGED <<market, filed, cli, alerted, cut, crossed>>

Emit(p) ==
  /\ pc[p] = "emit"
  /\ IF \E i \in Claims(event[p], p) :
          rows[event[p]][i].status = "done" /\ rows[event[p]][i].at \in Jumps
     THEN /\ pc' = [pc EXCEPT ![p] = "alert"]
          /\ UNCHANGED <<clock, batch, locked, event, loaded, working>>
     ELSE Leave(p, event[p], "next")
  /\ UNCHANGED <<market, table, cli, alerted, counts>>

TriggerViewAlerts(p) ==
  /\ pc[p] = "alert"
  /\ alerted' = alerted \cup {event[p]}
  /\ Leave(p, event[p], "next")
  /\ UNCHANGED <<market, table, cli, counts>>

\* Any other exception: rolled back, on to the next event.
Abort(p) ==
  /\ faults < MaxFaults
  /\ faults' = faults + 1
  /\ pc[p] \in {"fetch", "emit", "alert"}
  /\ cut' = IF pc[p] = "fetch" THEN cut ELSE cut \cup {event[p]}
  /\ Leave(p, event[p], "next")
  /\ UNCHANGED <<market, table, cli, alerted, crossed>>

\* The process is killed; another starts its worker.
Crash(p) ==
  /\ faults < MaxFaults
  /\ faults' = faults + 1
  /\ pc[p] # "sleep"
  /\ cut' = IF pc[p] \in {"emit", "alert"} THEN cut \cup {event[p]} ELSE cut
  /\ pc' = [pc EXCEPT ![p] = "sleep"]
  /\ clock' = [clock EXCEPT ![p] = 0]
  /\ batch' = [batch EXCEPT ![p] = {}]
  /\ locked' = [locked EXCEPT ![p] = {}]
  /\ event' = [event EXCEPT ![p] = NoEvent]
  /\ loaded' = [loaded EXCEPT ![p] = NoRows]
  /\ working' = [working EXCEPT ![p] = NoRows]
  /\ UNCHANGED <<market, table, cli, alerted, crossed>>

Step(p) ==
  \/ Tick(p)
  \/ \E e \in Events : Begin(p, e)
  \/ Measure(p) \/ Emit(p) \/ TriggerViewAlerts(p)

Next ==
  \/ Elapse
  \/ \E e \in Events : Backfill(e) \/ \E t \in FilingTimes : File(e, t)
  \/ ResetRead \/ ResetCommit
  \/ \E p \in Procs : Step(p) \/ FetchFails(p) \/ Abort(p) \/ Crash(p)

\* Time passes and each worker ticks every minute for ever; the FMP client's
\* calls time out.
Fairness ==
  /\ WF_vars(Elapse)
  /\ \A p \in Procs : WF_vars(Step(p))

Spec == Init /\ [][Next]_vars /\ Fairness
-----------------------------------------------------------------------------
(* Properties.                                                             *)

Places == {"sleep", "next", "fetch", "emit", "alert"}

\* Every variable keeps its type, and a process past its claim has an event
\* some row of which it claimed.
TypeOK ==
  /\ now \in Nat /\ tape \in Tapes
  /\ filed \in [Events -> Nat \cup {Never}]
  /\ rows \in [Events -> [Ids -> Row]]
  /\ \A e \in Events : filed[e] = Never => rows[e] = NoRows
  /\ pc \in [Procs -> Places]
  /\ clock \in [Procs -> Nat]
  /\ \A p \in Procs : clock[p] <= now
  /\ batch \in [Procs -> SUBSET (Events \X Ids)]
  /\ locked \in [Procs -> SUBSET (Events \X Ids)]
  /\ event \in [Procs -> Events \cup {NoEvent}]
  /\ loaded \in [Procs -> [Ids -> Row]] /\ working \in [Procs -> [Ids -> Row]]
  /\ cli \in [Events -> [Ids -> Row]] \cup {Never}
  /\ alerted \subseteq Events /\ cut \subseteq Events /\ crossed \subseteq Events
  /\ faults \in Nat
  /\ \A p \in Procs : pc[p] \in {"fetch", "emit", "alert"}
                       => event[p] \in Events /\ Claims(event[p], p) # {}

\* Whatever ticks, restarts and second processes do, a reaction is read at the
\* trade its label promises: an interval in the first minute that begins that far
\* from the filing or later, and in its session, the open at the first trade after
\* the filing, a daily bar in a later session (reaction_worker.py:18-29).
RightTrade(t0, r) ==
  LET since(t) == {s \in tape : Stamp(s) >= t}
  IN IF r.kind \in {"1d", "1w"} THEN r.at \in tape /\ Day(r.at) > Day(t0)
     ELSE IF r.kind = "open"
     THEN /\ r.at = Min({s \in tape : s >= t0})
          /\ InHours(t0) => Day(r.at) # Day(t0)
     ELSE /\ Stamp(r.at) = Stamp(Min(since(t0 + Delay[r.kind])))
          /\ Day(r.at) = Day(t0)

ReadsRightTrade ==
  \A e \in Events \ crossed, i \in Ids :
    rows[e][i].status = "done" => RightTrade(filed[e], rows[e][i])

\* The baseline of a reaction is of a minute that had begun when the filing was made:
\* neither later bars nor today's daily close may leak the move into it
\* (reaction_worker.py:16-17).  A trade of that minute may follow the filing, for a
\* bar is stamped with its beginning; the comment at price_reaction.py:63, "last
\* trade at/before filing time", promises more than this.
NoLookahead ==
  \A e \in Events, i \in Ids :
    rows[e][i].base # Never => Stamp(rows[e][i].base) <= filed[e]

\* An event is measured in its session or at the open, never both.
OneSession ==
  \A e \in Events \ crossed, i, j \in Ids :
    ~(/\ rows[e][i].kind \in Intraday /\ rows[e][i].status = "done"
      /\ rows[e][j].kind = "open")

\* Each row is settled in the end, by a measurement or a reason, though a tick claims
\* the oldest rows up to a limit and rows without prices are claimed again and
\* again (CLAIM_LIMIT, reaction_worker.py:41), unless an event raises for ever.
Unsettled(e) == \E i \in Ids : Pending(rows[e][i])
DueIsSettled == \A e \in Events : Unsettled(e) ~> ~Unsettled(e)

\* A jump reaches the saved views, unless the emit or the submission failed
\* after the rows were committed.
Jumped(e) == \E i \in Ids : rows[e][i].status = "done" /\ rows[e][i].at \in Jumps
JumpIsAlerted == \A e \in Events : Jumped(e) ~> e \in alerted \cup cut

\* An "open" row waits for the next session's bars (_next_open says so of a row
\* due on a holiday): it is given up only if nothing has traded since the
\* filing.  The code asks for no bars later than a day past measure_at.
OpenWaits ==
  \A e \in Events, i \in Ids :
    rows[e][i].kind = "open" /\ rows[e][i].status = "no_prints"
      => \A s \in tape : s <= filed[e] \/ s > now
=============================================================================
