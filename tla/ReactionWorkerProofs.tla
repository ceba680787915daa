------------------------ MODULE ReactionWorkerProofs ------------------------
(***************************************************************************)
(* What the reaction worker guarantees for any number of processes and     *)
(* events, any calendar, tape, delays and limits, whatever fails or is     *)
(* reset: the types, a baseline of no minute after the filing's, and the   *)
(* right trade under each label.                                           *)
(***************************************************************************)
EXTENDS ReactionWorker, WellFoundedInduction, TLAPS

LEMMA MinOf ==
  ASSUME NEW S \in SUBSET Nat, S # {}
  PROVE  Min(S) \in S /\ \A y \in S : Min(S) <= y
  <1> DEFINE R == {ss \in Nat \X Nat : ss[1] < ss[2]}
  <1>1. PICK x \in S : \A y \in S : ~(<<y, x>> \in R)
    <2>1. IsWellFoundedOn(R, Nat)
      BY NatLessThanWellFounded, Zenon DEF OpToRel
    <2> HIDE DEF R
    <2>2. QED
      BY <2>1, WFMin, Zenon
  <1>2. ASSUME NEW y \in S PROVE x <= y
    <2>1. x \in Nat /\ y \in Nat /\ <<y, x>> \in Nat \X Nat
      OBVIOUS
    <2>2. ~(<<y, x>>[1] < <<y, x>>[2])
      BY <1>1, <2>1
    <2>3. QED
      BY <2>1, <2>2
  <1>3. QED
    BY <1>2 DEF Min

LEMMA MaxOf ==
  ASSUME NEW S \in SUBSET Nat, S # {}, NEW b \in Nat, \A s \in S : s <= b
  PROVE  Max(S) \in S /\ \A y \in S : y <= Max(S)
  <1> DEFINE T == {d \in Nat : \E s \in S : d = b - s}
  <1>1. PICK s0 \in S : TRUE
    OBVIOUS
  <1>2. b - s0 \in T
    OBVIOUS
  <1>3. Min(T) \in T /\ \A y \in T : Min(T) <= y
    BY <1>2, MinOf
  <1>4. PICK m \in S : Min(T) = b - m
    BY <1>3
  <1>5. \A y \in S : m >= y
    <2> TAKE y \in S
    <2>1. b - y \in T
      OBVIOUS
    <2>2. QED
      BY <2>1, <1>3, <1>4
  <1>6. Max(S) \in S /\ \A y \in S : Max(S) >= y
    BY <1>5 DEF Max
  <1>7. QED
    BY <1>6

-----------------------------------------------------------------------------
(* The calendar and the bars.                                              *)

Shown == {s \in tape : s <= now}
Traded == {d \in {Day(s) : s \in tape} : \E s \in tape : Day(s) = d /\ s <= now}

LEMMA Trade ==
  ASSUME tape \in Tapes, NEW s \in tape
  PROVE  /\ s \in Nat /\ Day(s) \in Nat /\ CloseAt(Day(s)) \in Nat /\ OpenAt(Day(s)) \in Nat
         /\ Day(s) \in Weekdays /\ OpenAt(Day(s)) <= s /\ s < CloseAt(Day(s))
         /\ Stamp(s) \in Nat /\ OpenAt(Day(s)) <= Stamp(s) /\ Stamp(s) <= s
         /\ \A t \in FilingTimes \cup tape :
              (t <= s => Day(t) <= Day(s)) /\ (s <= t => Day(s) <= Day(t))
         /\ \A t \in FilingTimes : OpenAt(Day(s)) <= t /\ t <= s => Day(t) = Day(s)
  BY CalendarAssumption DEF InHours

LEMMA CloseIs ==
  ASSUME tape \in Tapes, now \in Nat, NEW d \in Traded
  PROVE  CloseOf(d) \in tape /\ Day(CloseOf(d)) = d
  <1> DEFINE S == {s \in tape : Day(s) = d /\ s <= now}
  <1>1. S \in SUBSET Nat /\ S # {} /\ \A s \in S : s <= now
    BY Trade DEF Traded
  <1>2. Max(S) \in S
    BY <1>1, MaxOf
  <1>3. QED
    BY <1>2 DEF CloseOf

LEMMA TradedBounded ==
  ASSUME tape \in Tapes, now \in Nat, Traded # {}
  PROVE  \E b \in Nat : \A d \in Traded : d <= b
  <1> DEFINE S == {s \in tape : s <= now}
  <1>1. S \in SUBSET Nat /\ S # {} /\ \A s \in S : s <= now
    BY Trade DEF Traded
  <1>2. Max(S) \in S /\ \A s \in S : s <= Max(S)
    BY <1>1, MaxOf
  <1> HIDE DEF S
  <1>3. Max(S) \in tape /\ Day(Max(S)) \in Nat
    BY <1>2, Trade DEF S
  <1>4. ASSUME NEW d \in Traded PROVE d <= Day(Max(S))
    <2>1. PICK s \in tape : Day(s) = d /\ s <= now
      BY DEF Traded
    <2>2. s <= Max(S)
      BY <2>1, <1>2 DEF S
    <2>3. QED
      BY <2>1, <2>2, <1>3, Trade
  <1>5. QED
    BY <1>3, <1>4

LEMMA DailyBarsTraded ==
  ASSUME NEW days \in DailyBars
  PROVE  days \subseteq Traded
  BY DEF DailyBars, Traded

\* No baseline is of a minute after the filing.
LEMMA BaselineIs ==
  ASSUME tape \in Tapes, now \in Nat, NEW t0 \in FilingTimes,
         NEW bars \in SUBSET Shown, NEW days \in SUBSET Traded
  PROVE  LET b == Baseline(t0, bars, days)
         IN  b = Never \/ (b \in Nat /\ Stamp(b) <= t0)
  <1> DEFINE before == {s \in bars : Stamp(s) <= t0}
             closed == {d \in days : \/ d < Day(t0)
                                     \/ d = Day(t0) /\ t0 >= CloseAt(d)}
  <1>0. t0 \in Nat /\ Day(t0) \in Nat
    BY ReactionAssumption, CalendarAssumption
  <1>1. CASE before # {}
    <2>1. before \in SUBSET Nat /\ \A s \in before : s <= now
      BY Trade DEF Shown
    <2>2. Max(before) \in before
      <3> HIDE DEF before
      <3>1. QED
        BY <2>1, <1>1, MaxOf
    <2>3. QED
      BY <2>1, <2>2, <1>1 DEF Baseline
  <1>2. CASE before = {} /\ closed # {}
    <2>1. closed \in SUBSET Nat /\ \A d \in closed : d <= Day(t0)
      BY <1>0, Trade DEF Traded
    <2>2. Max(closed) \in closed
      BY <2>1, <1>0, <1>2, MaxOf
    <2> DEFINE d == Max(closed)
    <2>3. d \in Traded /\ (d < Day(t0) \/ (d = Day(t0) /\ t0 >= CloseAt(d)))
      BY <2>2
    <2> HIDE DEF d
    <2>4. CloseOf(d) \in tape /\ Day(CloseOf(d)) = d
      BY <2>3, CloseIs
    <2>5. CloseOf(d) \in Nat /\ Stamp(CloseOf(d)) <= t0
      <3>1. CloseOf(d) <= t0
        BY <2>3, <2>4, <1>0, Trade
      <3>2. QED
        BY <3>1, <2>4, <1>0, Trade
    <2>6. QED
      BY <2>5, <1>2 DEF Baseline, d
  <1>3. CASE before = {} /\ closed = {}
    BY <1>3 DEF Baseline
  <1>4. QED
    BY <1>1, <1>2, <1>3

\* A daily reading is the close of a later session.
LEMMA DailyIs ==
  ASSUME tape \in Tapes, now \in Nat, NEW t0 \in FilingTimes, NEW r,
         NEW days \in SUBSET Traded, NEW stale \in BOOLEAN
  PROVE  LET s == Daily(t0, r, days, stale)
         IN  s = Never \/ (s \in tape /\ Day(s) > Day(t0))
  <1> DEFINE after == {d \in days : d > Day(t0)}
             n == IF r.kind = "1d" THEN 1 ELSE WeekBars
             nth == {d \in after : Cardinality({c \in after : c <= d}) = n}
  <1>1. after \in SUBSET Nat
    BY Trade DEF Traded
  <1>2. ASSUME NEW d \in after PROVE CloseOf(d) \in tape /\ Day(CloseOf(d)) > Day(t0)
    BY CloseIs
  <1>3. CASE nth # {}
    <2>1. Min(nth) \in nth
      <3>1. nth \in SUBSET Nat
        BY <1>1
      <3> HIDE DEF nth
      <3>2. QED
        BY <3>1, <1>3, MinOf
    <2>2. Min(nth) \in after
      BY <2>1
    <2>3. QED
      BY <2>2, <1>2, <1>3 DEF Daily
  <1>4. CASE nth = {} /\ stale /\ after # {}
    <2>1. Traded # {}
      BY <1>4
    <2>2. PICK b \in Nat : \A d \in Traded : d <= b
      BY <2>1, TradedBounded
    <2>3. \A d \in after : d <= b
      BY <2>2
    <2>4. Max(after) \in after
      <3> HIDE DEF after
      <3>1. QED
        BY <2>3, <1>1, <1>4, MaxOf
    <2>5. QED
      BY <2>4, <1>2, <1>4 DEF Daily
  <1>5. CASE nth = {} /\ ~(stale /\ after # {})
    BY <1>5 DEF Daily
  <1>6. QED
    BY <1>3, <1>4, <1>5

\* The bars FMP answers with are the trades of a stretch of time, up to now.
Stretch(t0, bars) ==
  /\ bars \subseteq Shown
  /\ \A s \in tape, u \in bars : s >= t0 /\ s <= u => s \in bars

Since(t) == {s \in tape : Stamp(s) >= t}

LEMMA FirstIs ==
  ASSUME tape \in Tapes, NEW t0 \in Nat, NEW bars, Stretch(t0, bars),
         NEW t \in Nat, t >= t0
  PROVE  LET s == First(bars, t)
         IN  s = Never \/ (s \in bars /\ Stamp(s) >= t /\ s = Min(Since(t)))
  <1> DEFINE from == {s \in bars : Stamp(s) >= t}
  <1>1. CASE from = {}
    BY <1>1 DEF First
  <1>2. CASE from # {}
    <2>1. from \in SUBSET Nat /\ Since(t) \in SUBSET Nat /\ Since(t) # {}
      BY <1>2, Trade DEF Stretch, Shown, Since
    <2>2. Min(from) \in from /\ \A s \in from : Min(from) <= s
      <3> HIDE DEF from
      <3>1. QED
        BY <2>1, <1>2, MinOf
    <2>3. Min(Since(t)) \in Since(t) /\ \A s \in Since(t) : Min(Since(t)) <= s
      BY <2>1, MinOf
    <2> DEFINE a == Min(from)
               b == Min(Since(t))
    <2>4. /\ a \in Nat /\ b \in Nat /\ a \in bars /\ Stamp(a) >= t
          /\ b \in tape /\ Stamp(b) >= t
      BY <2>1, <2>2, <2>3 DEF Since
    <2>5. a \in Since(t)
      BY <2>4 DEF Stretch, Shown, Since
    <2>6. b <= a
      BY <2>3, <2>5
    <2> HIDE DEF a, b
    <2>7. b >= t0
      BY <2>4, Trade
    <2>8. b \in from
      BY <2>4, <2>6, <2>7 DEF Stretch
    <2>9. a = b
      BY <2>2, <2>4, <2>6, <2>8 DEF a
    <2>10. First(bars, t) = a
      BY <1>2 DEF First, a
    <2>11. QED
      BY <2>4, <2>9, <2>10 DEF b
  <1>3. QED
    BY <1>1, <1>2

\* The close of a bar is a trade of its minute.
LEMMA CloseOfFirstIs ==
  ASSUME tape \in Tapes, now \in Nat, NEW bars \in SUBSET Shown, NEW t
  PROVE  LET f == First(bars, t)
             c == CloseOfFirst(bars, t)
         IN  \/ c = Never
             \/ f \in bars /\ c \in bars /\ Stamp(c) = Stamp(f)
  <1> DEFINE f == First(bars, t)
             from == {s \in bars : Stamp(s) >= t}
             same == {s \in bars : Stamp(s) = Stamp(f)}
  <1>1. f = Never \/ f \in bars
    <2>1. CASE from = {}
      BY <2>1 DEF First
    <2>2. CASE from # {}
      <3>1. from \in SUBSET Nat
        BY Trade DEF Shown
      <3>2. Min(from) \in from
        <4> HIDE DEF from
        <4>1. QED
          BY <3>1, <2>2, MinOf
      <3>3. QED
        BY <3>2, <2>2 DEF First
    <2>3. QED
      BY <2>1, <2>2
  <1>2. CloseOfFirst(bars, t) = IF f = Never THEN Never ELSE Max(same)
    BY DEF CloseOfFirst
  <1>3. ASSUME f # Never PROVE Max(same) \in same
    <2>1. same \in SUBSET Nat /\ same # {} /\ \A s \in same : s <= now
      BY <1>1, <1>3, Trade DEF Shown
    <2> HIDE DEF same
    <2>2. QED
      BY <2>1, MaxOf
  <1> HIDE DEF f
  <1>4. QED
    BY <1>1, <1>2, <1>3 DEF f

LEMMA WindowEndIs ==
  ASSUME NEW rs \in [Ids -> Row], NEW ids \in SUBSET Ids, NEW t \in Nat,
         MinuteRows(rs, ids, t) # {}
  PROVE  WindowEnd(rs, ids, t) \in Nat /\ WindowEnd(rs, ids, t) <= t
  <1> DEFINE ends == {rs[i].due + Window : i \in MinuteRows(rs, ids, t)}
  <1>1. Window \in Nat
    BY ReactionAssumption
  <1>2. \A x \in ends : x \in Nat /\ x <= t + Window
    BY <1>1 DEF MinuteRows, StillDue, Row
  <1>3. ends # {}
    OBVIOUS
  <1>4. Max(ends) \in Nat
    <2> HIDE DEF ends
    <2>1. ends \in SUBSET Nat /\ t + Window \in Nat
      BY <1>1, <1>2
    <2>2. Max(ends) \in ends
      BY <2>1, <1>2, <1>3, MaxOf
    <2>3. QED
      BY <2>1, <2>2
  <1>5. Min({Max(ends), t}) \in {Max(ends), t} /\ Min({Max(ends), t}) <= t
    <2> HIDE DEF ends
    <2>1. {Max(ends), t} \in SUBSET Nat /\ {Max(ends), t} # {}
      BY <1>4
    <2>2. QED
      BY <2>1, MinOf
  <1>6. QED
    BY <1>4, <1>5 DEF WindowEnd

\* The request ends where the code caps it; what comes back is a stretch.
LEMMA MinuteBarsStretch ==
  ASSUME tape \in Tapes, NEW t0 \in FilingTimes, NEW rs \in [Ids -> Row],
         NEW ids \in SUBSET Ids, NEW t \in Nat, now \in Nat, t <= now,
         NEW bars \in MinuteBars(t0, rs, ids, t)
  PROVE  Stretch(t0, bars)
  <1> DEFINE end == WindowEnd(rs, ids, t)
             back == IF InHours(t0) THEN Lookback ELSE OffHoursLookback
             all == {s \in tape : Stamp(s) + back >= t0 /\ Stamp(s) <= end}
  <1>1. /\ back \in Nat /\ Lookback \in Nat /\ Lookback <= back /\ BarDelay \in Nat
        /\ t0 \in Nat /\ Stamp(t0) \in Nat /\ t0 <= Stamp(t0) + Lookback
    BY ReactionAssumption, CalendarAssumption
  <1>2. \A s \in tape : /\ s \in Nat /\ Stamp(s) \in Nat
                        /\ \A u \in tape \cup {t0} : u <= s => Stamp(u) <= Stamp(s)
    BY CalendarAssumption
  <1>3. CASE MinuteRows(rs, ids, t) = {}
    BY <1>3 DEF MinuteBars, Stretch
  <1>4. CASE MinuteRows(rs, ids, t) # {}
    <2>1. end \in Nat /\ end <= t
      BY <1>4, WindowEndIs
    <2>2. bars = {s \in all : s <= now} \/ bars = {s \in all : s + BarDelay <= now}
      BY <1>4 DEF MinuteBars
    <2> HIDE DEF end, back
    <2>3. bars \subseteq Shown
      BY <2>2, <1>1, <1>2 DEF Shown
    <2>4. ASSUME NEW s \in tape, NEW u \in bars, s >= t0, s <= u
          PROVE  s \in bars
      <3>1. u \in tape /\ Stamp(u) <= end
        BY <2>2
      <3>2. Stamp(s) <= Stamp(u) /\ Stamp(t0) <= Stamp(s)
        BY <2>4, <3>1, <1>2
      <3>3. s \in all
        BY <3>1, <3>2, <2>1, <1>1, <1>2
      <3>4. (u <= now => s <= now) /\ (u + BarDelay <= now => s + BarDelay <= now)
        BY <2>4, <3>1, <1>1, <1>2
      <3>5. QED
        BY <2>2, <3>3, <3>4
    <2>5. QED
      BY <2>3, <2>4 DEF Stretch
  <1>5. QED
    BY <1>3, <1>4

-----------------------------------------------------------------------------
(* The inductive invariants.                                               *)

\* The rows of an event filed at t, as to types and baselines.
RowsAt(t) == {rs \in [Ids -> Row] : \A i \in Ids : rs[i].base = Never \/ Stamp(rs[i].base) <= t}
Known(e, rs) == rs = NoRows \/ (filed[e] # Never /\ rs \in RowsAt(filed[e]))

StoreInv ==
  /\ now \in Nat /\ tape \in Tapes /\ faults \in Nat
  /\ filed \in [Events -> FilingTimes \cup {Never}]
  /\ rows \in [Events -> [Ids -> Row]]
  /\ cli \in [Events -> [Ids -> Row]] \cup {Never}
  /\ alerted \subseteq Events /\ cut \subseteq Events /\ crossed \subseteq Events
  /\ \A e \in Events : Known(e, rows[e]) /\ (cli # Never => Known(e, cli[e]))
ProcInv(p) ==
  /\ clock[p] <= now
  /\ \A e \in Events, i \in Ids : <<e, i>> \in batch[p] => filed[e] # Never
  /\ pc[p] \in {"fetch", "emit", "alert"} =>
       event[p] \in Events /\ Claims(event[p], p) # {}
  /\ pc[p] = "fetch" => /\ loaded[p] \in RowsAt(filed[event[p]])
                        /\ working[p] \in RowsAt(filed[event[p]])
WorkerTypes ==
  /\ pc \in [Procs -> Places]
  /\ clock \in [Procs -> Nat]
  /\ batch \in [Procs -> SUBSET (Events \X Ids)]
  /\ locked \in [Procs -> SUBSET (Events \X Ids)]
  /\ event \in [Procs -> Events \cup {NoEvent}]
  /\ loaded \in [Procs -> [Ids -> Row]] /\ working \in [Procs -> [Ids -> Row]]
WorkerInv == WorkerTypes /\ \A p \in Procs : ProcInv(p)
TypeInv == StoreInv /\ WorkerInv

\* The first session after t begins at an open row's time, and is not the one t
\* falls in.
OpenDue(t, due) ==
  \E o \in Nat : o >= t /\ due = o + OpenSettle /\ \A s \in tape : s >= t <=> Stamp(s) >= o
LaterSession(t) == InHours(t) => \A s \in tape : s >= t => Day(s) # Day(t)

\* What holds of row i of an event filed at t, in the table or in a session.
Sane(t, i, r) ==
  /\ r.kind = i \/ (i = "5m" /\ r.kind = "open")
  /\ r.kind = i => r.due = t + Delay[i]
  /\ r.kind = "open" => OpenDue(t, r.due) /\ LaterSession(t)
  /\ r.status # "none"
  /\ r.status = "pending" => r.at = Never
  /\ r.status = "done" =>
       /\ r.at \in tape /\ RightTrade(t, r)
       /\ r.kind \in Intraday => InHours(t) /\ r.at >= t
SaneRows(e) == \A i \in Ids : Sane(filed[e], i, rows[e][i])

\* What a session may do to a row before it has the bars, and by its commit.
SameOrOpen(before, after) ==
  \/ after.kind = before.kind /\ after.due = before.due
  \/ before.kind = "5m" /\ after.kind = "open"
Kept(before, after) ==
  /\ SameOrOpen(before, after)
  /\ after.at = before.at
  /\ after.status = before.status \/ after.status \in {"off_hours", "after_close"}

Moved(before, after) ==
  /\ SameOrOpen(before, after)
  /\ after.at # before.at => before.status = "pending" /\ after.status = "done"
  /\ after.status = "done" => before.status \in {"done", "pending"}
  /\ after.status = "pending" => before.status = "pending"

RowsSane == \A e \in Events \ crossed : rows[e] = NoRows \/ SaneRows(e)
BatchSane(p) ==
  \A e \in Events \ crossed, i \in Ids : <<e, i>> \in batch[p] => SaneRows(e)
FetchSane(p) ==
  pc[p] = "fetch" /\ event[p] \notin crossed =>
    \A i \in Ids :
      /\ Sane(filed[event[p]], i, loaded[p][i])
      /\ Sane(filed[event[p]], i, working[p][i])
      /\ Kept(loaded[p][i], working[p][i])
      /\ loaded[p][i].kind = "open" => rows[event[p]][i].kind = "open"
      /\ i \in Claims(event[p], p) /\ Pending(working[p][i])
           /\ working[p][i].kind \in Intraday => InHours(filed[event[p]])
SaneInv == RowsSane /\ \A p \in Procs : BatchSane(p) /\ FetchSane(p)


-----------------------------------------------------------------------------
(* The operators on rows keep their types and their baselines.             *)

LEMMA Constants ==
  /\ Intraday \subseteq Ids /\ "5m" \in Ids /\ "5m" \in Intraday
  /\ Ids \subseteq Kinds /\ "open" \in Kinds /\ "open" \notin Ids
  /\ "1d" \notin Intraday /\ "1w" \notin Intraday /\ "open" \notin Intraday
  /\ \A i \in Ids : Delay[i] \in Nat
  /\ \A t \in FilingTimes : t \in Nat /\ t # Never
  /\ OpenSettle \in Nat /\ MaxAttempts \in Nat /\ MaxAttempts > 0
  BY ReactionAssumption DEF Ids, Kinds

LEMMA NewRowTyped ==
  ASSUME NEW i \in Ids, NEW due \in Nat, NEW status \in {"none", "pending"}
  PROVE  /\ NewRow(i, due, status) \in Row
         /\ NewRow(i, due, status).base = Never
  BY Constants DEF NewRow, Row

LEMMA NoRowsTyped == NoRows \in [Ids -> Row]
  BY NewRowTyped DEF NoRows

LEMMA ScheduledTyped ==
  ASSUME NEW t \in FilingTimes
  PROVE  Scheduled(t) \in RowsAt(t)
  <1>1. ASSUME NEW i \in Ids
        PROVE  NewRow(i, t + Delay[i], "pending") \in Row
               /\ NewRow(i, t + Delay[i], "pending").base = Never
    BY Constants, NewRowTyped
  <1>2. QED
    BY <1>1 DEF Scheduled, RowsAt

LEMMA ResetTyped ==
  ASSUME NEW t \in FilingTimes, NEW rs \in RowsAt(t)
  PROVE  ResetRows(t, rs) \in RowsAt(t)
  <1>0. rs \in [Ids -> Row] /\ \A i \in Ids : rs[i].base = Never \/ Stamp(rs[i].base) <= t
    BY DEF RowsAt
  <1> DEFINE has5m == \E i \in Ids : rs[i].kind = "5m"
             again(r) == IF r.kind = "open" /\ ~has5m THEN "5m" ELSE r.kind
             new(i) == IF rs[i].status # "none" /\ again(rs[i]) \in Intraday
                       THEN NewRow(again(rs[i]), t + Delay[again(rs[i])], "pending")
                       ELSE rs[i]
  <1>1. ASSUME NEW i \in Ids PROVE new(i) \in Row /\ (new(i).base = Never \/ Stamp(new(i).base) <= t)
    <2>1. CASE rs[i].status # "none" /\ again(rs[i]) \in Intraday
      <3> DEFINE k == again(rs[i])
      <3>1. k \in Ids
        BY <2>1, Constants
      <3> HIDE DEF k
      <3>2. t + Delay[k] \in Nat
        BY <3>1, Constants
      <3>3. NewRow(k, t + Delay[k], "pending") \in Row
            /\ NewRow(k, t + Delay[k], "pending").base = Never
        BY <3>1, <3>2, NewRowTyped
      <3>4. QED
        BY <3>3, <2>1 DEF k
    <2>2. CASE ~(rs[i].status # "none" /\ again(rs[i]) \in Intraday)
      BY <2>2, <1>0
    <2>3. QED
      BY <2>1, <2>2
  <1>2. ResetRows(t, rs) = [i \in Ids |-> new(i)]
    BY DEF ResetRows
  <1> HIDE DEF new
  <1>3. QED
    BY <1>1, <1>2 DEF RowsAt

LEMMA ResetNothing ==
  ASSUME NEW t
  PROVE  ResetRows(t, NoRows) = NoRows
  <1>1. \A i \in Ids : NoRows[i].status = "none"
    BY DEF NoRows, NewRow
  <1>2. QED
    BY <1>1 DEF ResetRows, NoRows

LEMMA MergeTyped ==
  ASSUME NEW t, NEW stored \in RowsAt(t), NEW before \in RowsAt(t), NEW after \in RowsAt(t)
  PROVE  Merge(stored, before, after) \in RowsAt(t)
  <1>1. ASSUME NEW i \in Ids
        PROVE  /\ MergeRow(stored[i], before[i], after[i]) \in Row
               /\ \/ MergeRow(stored[i], before[i], after[i]).base = Never
                  \/ Stamp(MergeRow(stored[i], before[i], after[i]).base) <= t
    <2>1. /\ stored[i] \in Row /\ after[i] \in Row
          /\ stored[i].base = Never \/ Stamp(stored[i].base) <= t
          /\ after[i].base = Never \/ Stamp(after[i].base) <= t
      BY DEF RowsAt
    <2>2. QED
      BY <2>1 DEF MergeRow, Column, Row
  <1>2. QED
    BY <1>1 DEF Merge, RowsAt

LEMMA MergeNothing ==
  ASSUME NEW stored \in [Ids -> Row], NEW before
  PROVE  Merge(stored, before, before) = stored
  <1>1. ASSUME NEW i \in Ids PROVE MergeRow(stored[i], before[i], before[i]) = stored[i]
    BY DEF MergeRow, Column, Row
  <1>2. QED
    BY <1>1 DEF Merge

LEMMA ToOpenIs ==
  ASSUME NEW r \in Row, NEW open \in Nat
  PROVE  /\ ToOpen(r, open) \in Row
         /\ ToOpen(r, open).kind = "open" /\ ToOpen(r, open).due = open + OpenSettle
         /\ ToOpen(r, open).status = r.status /\ ToOpen(r, open).at = r.at
         /\ ToOpen(r, open).base = r.base
  <1> DEFINE r1 == [r EXCEPT !.kind = "open"]
  <1>1. /\ r1 \in Row
        /\ r1.kind = "open" /\ r1.status = r.status /\ r1.at = r.at /\ r1.base = r.base
    BY Constants DEF Row
  <1> HIDE DEF r1
  <1>2. open + OpenSettle \in Nat
    BY Constants
  <1> DEFINE r2 == [r1 EXCEPT !.due = open + OpenSettle]
  <1>3. /\ r2 \in Row
        /\ r2.kind = r1.kind /\ r2.status = r1.status /\ r2.at = r1.at /\ r2.base = r1.base
        /\ r2.due = open + OpenSettle
    BY <1>1, <1>2 DEF Row
  <1>4. ToOpen(r, open) = r2
    BY DEF ToOpen, r1
  <1> HIDE DEF r2
  <1>5. QED
    BY <1>1, <1>3, <1>4

LEMMA SkipIs ==
  ASSUME NEW r \in Row, NEW why \in {"off_hours", "after_close", "no_prints"}
  PROVE  /\ Skip(r, why) \in Row
         /\ Skip(r, why).status = why
         /\ Skip(r, why).kind = r.kind /\ Skip(r, why).due = r.due
         /\ Skip(r, why).at = r.at /\ Skip(r, why).base = r.base
  BY DEF Skip, Row

LEMMA DeferTyped ==
  ASSUME NEW t, NEW rs \in RowsAt(t), NEW open \in Nat
  PROVE  DeferToOpen(rs, open) \in RowsAt(t)
  <1> DEFINE hasOpen == \E i \in Ids : rs[i].kind = "open"
             new(i) == IF ~Pending(rs[i]) \/ rs[i].kind \notin Intraday THEN rs[i]
                       ELSE IF rs[i].kind = "5m" /\ ~hasOpen
                            THEN ToOpen(rs[i], open)
                            ELSE Skip(rs[i], "off_hours")
  <1>1. ASSUME NEW i \in Ids PROVE new(i) \in Row /\ (new(i).base = Never \/ Stamp(new(i).base) <= t)
    <2>1. rs[i] \in Row /\ (rs[i].base = Never \/ Stamp(rs[i].base) <= t)
      BY DEF RowsAt
    <2> HIDE DEF hasOpen
    <2>2. QED
      BY <2>1, ToOpenIs, SkipIs
  <1>2. DeferToOpen(rs, open) = [i \in Ids |-> new(i)]
    BY DEF DeferToOpen
  <1> HIDE DEF new
  <1>3. QED
    BY <1>1, <1>2 DEF RowsAt

LEMMA AfterCloseTyped ==
  ASSUME NEW t, NEW rs \in RowsAt(t), NEW ids, NEW close
  PROVE  AfterClose(rs, ids, close) \in RowsAt(t)
  <1> DEFINE new(i) == IF i \in ids /\ rs[i].kind \in Intraday /\ rs[i].due >= close
                       THEN Skip(rs[i], "after_close") ELSE rs[i]
  <1>1. ASSUME NEW i \in Ids PROVE new(i) \in Row /\ (new(i).base = Never \/ Stamp(new(i).base) <= t)
    <2>1. rs[i] \in Row /\ (rs[i].base = Never \/ Stamp(rs[i].base) <= t)
      BY DEF RowsAt
    <2>2. QED
      BY <2>1, SkipIs
  <1>2. AfterClose(rs, ids, close) = [i \in Ids |-> new(i)]
    BY DEF AfterClose
  <1> HIDE DEF new
  <1>3. QED
    BY <1>1, <1>2 DEF RowsAt

LEMMA NextOpenIs ==
  ASSUME NEW t \in FilingTimes
  PROVE  /\ NextOpen(t) \in Nat /\ NextOpen(t) > t
         /\ \A d \in Weekdays : OpenAt(d) > t => NextOpen(t) <= OpenAt(d)
  <1> DEFINE S == {OpenAt(d) : d \in {w \in Weekdays : OpenAt(w) > t}}
  <1>1. S \in SUBSET Nat /\ S # {} /\ \A x \in S : x > t
    BY CalendarAssumption
  <1>2. \A d \in Weekdays : OpenAt(d) > t => OpenAt(d) \in S
    OBVIOUS
  <1>3. Min(S) \in S /\ \A x \in S : Min(S) <= x
    <2> HIDE DEF S
    <2>1. QED
      BY <1>1, MinOf
  <1>4. NextOpen(t) = Min(S)
    BY DEF NextOpen
  <1> HIDE DEF S
  <1>5. QED
    BY <1>1, <1>2, <1>3, <1>4

LEMMA BeforeFetchTyped ==
  ASSUME NEW t \in FilingTimes, NEW rs \in RowsAt(t), NEW ids
  PROVE  BeforeFetch(t, rs, ids) \in RowsAt(t)
  BY AfterCloseTyped, DeferTyped, NextOpenIs DEF BeforeFetch

LEMMA FinishIs ==
  ASSUME NEW r \in Row, NEW at \in Nat
  PROVE  /\ Finish(r, at) \in Row
         /\ Finish(r, at).status = "done" /\ Finish(r, at).at = at
         /\ Finish(r, at).kind = r.kind /\ Finish(r, at).due = r.due
         /\ Finish(r, at).base = r.base
  <1> DEFINE r1 == [r EXCEPT !.at = at]
  <1>1. /\ r1 \in Row /\ r1.at = at
        /\ r1.kind = r.kind /\ r1.due = r.due /\ r1.base = r.base
    BY DEF Row
  <1> HIDE DEF r1
  <1> DEFINE r2 == [r1 EXCEPT !.status = "done"]
  <1>2. /\ r2 \in Row /\ r2.status = "done"
        /\ r2.kind = r1.kind /\ r2.due = r1.due /\ r2.base = r1.base /\ r2.at = r1.at
    BY <1>1 DEF Row
  <1>3. Finish(r, at) = r2
    BY DEF Finish, r1
  <1> HIDE DEF r2
  <1>4. QED
    BY <1>1, <1>2, <1>3

LEMMA BumpIs ==
  ASSUME NEW n \in 0 .. MaxAttempts
  PROVE  Bump(n) \in 0 .. MaxAttempts
  BY Constants DEF Bump

LEMMA ReadingIs ==
  ASSUME tape \in Tapes, now \in Nat, NEW t0 \in FilingTimes, NEW r \in Row,
         NEW bars \in SUBSET Shown, NEW days \in SUBSET Traded, NEW stale \in BOOLEAN
  PROVE  Reading(t0, r, bars, days, stale) \in tape \cup {Never}
  <1>1. \A t : First(bars, t) \in tape \cup {Never}
    <2> TAKE t
    <2> DEFINE from == {s \in bars : Stamp(s) >= t}
    <2>1. CASE from = {}
      BY <2>1 DEF First
    <2>2. CASE from # {}
      <3>1. from \in SUBSET Nat
        BY Trade DEF Shown
      <3>2. Min(from) \in from
        <4> HIDE DEF from
        <4>1. QED
          BY <3>1, <2>2, MinOf
      <3>3. QED
        BY <3>2, <2>2 DEF First, Shown
    <2>3. QED
      BY <2>1, <2>2
  <1>2. \A t : CloseOfFirst(bars, t) \in tape \cup {Never}
    BY CloseOfFirstIs DEF Shown
  <1>3. Daily(t0, r, days, stale) \in tape \cup {Never}
    BY DailyIs
  <1>4. QED
    BY <1>1, <1>2, <1>3 DEF Reading

\* A due row is counted, given up, left with its baseline or finished.
LEMMA MeasureRowIs ==
  ASSUME tape \in Tapes, now \in Nat, NEW t0 \in FilingTimes,
         NEW r \in Row, Pending(r), r.base = Never \/ Stamp(r.base) <= t0,
         NEW bars \in SUBSET Shown, NEW days \in SUBSET Traded, NEW t \in Nat
  PROVE  LET m == MeasureRow(t0, r, bars, days, t)
             at == Reading(t0, r, bars, days, t > r.due + StaleAfter)
         IN  /\ m \in Row /\ (m.base = Never \/ Stamp(m.base) <= t0)
             /\ m.kind = r.kind /\ m.due = r.due
             /\ \/ m.at = r.at /\ m.status \in {"pending", "no_prints", "after_close"}
                \/ /\ m.status = "done" /\ m.at = at /\ at \in tape
                   /\ r.kind \in Intraday => Day(at) = Day(t0)
  <1> DEFINE base == Baseline(t0, bars, days)
             stale == t > r.due + StaleAfter
             at == Reading(t0, r, bars, days, stale)
             based == [r EXCEPT !.base = base]
             tried == [r EXCEPT !.attempts = Bump(@)]
             m == MeasureRow(t0, r, bars, days, t)
  <1>1. base = Never \/ (base \in Nat /\ Stamp(base) <= t0)
    BY BaselineIs
  <1>2. at \in tape \cup {Never}
    <2>1. stale \in BOOLEAN
      OBVIOUS
    <2> HIDE DEF stale
    <2>2. QED
      BY <2>1, ReadingIs
  <1>3. /\ based \in Row /\ based.base = base /\ based.kind = r.kind
        /\ based.due = r.due /\ based.at = r.at /\ based.status = r.status
    <2> HIDE DEF base
    <2>1. QED
      BY <1>1 DEF Row
  <1>4. /\ tried \in Row /\ tried.base = r.base /\ tried.kind = r.kind
        /\ tried.due = r.due /\ tried.at = r.at /\ tried.status = r.status
    <2>1. r.attempts \in 0 .. MaxAttempts
      BY DEF Row
    <2>2. Bump(r.attempts) \in 0 .. MaxAttempts
      BY <2>1, BumpIs
    <2>3. QED
      BY <2>2 DEF Row
  <1>5. \A s \in tape : s \in Nat /\ s # Never
    BY Trade, ReactionAssumption
  <1>6. m = IF base = Never
            THEN IF stale THEN Skip(r, "no_prints") ELSE tried
            ELSE IF r.kind \in Intraday /\ at # Never /\ Day(at) # Day(t0)
            THEN Skip(based, "after_close")
            ELSE IF at # Never THEN Finish(based, at)
            ELSE IF stale THEN Skip(based, "no_prints") ELSE based
    BY DEF MeasureRow
  <1>7. r.status = "pending"
    BY DEF Pending
  <1> DEFINE Right ==
        /\ m \in Row /\ (m.base = Never \/ Stamp(m.base) <= t0)
        /\ m.kind = r.kind /\ m.due = r.due
        /\ \/ m.at = r.at /\ m.status \in {"pending", "no_prints", "after_close"}
           \/ /\ m.status = "done" /\ m.at = at /\ at \in tape
              /\ r.kind \in Intraday => Day(at) = Day(t0)
  <1> SUFFICES Right
    OBVIOUS
  <1> HIDE DEF base, stale, at, based, tried, m
  <1>8. CASE base = Never
    BY <1>8, <1>4, <1>6, <1>7, SkipIs
  <1>9. CASE base # Never /\ r.kind \in Intraday /\ at # Never /\ Day(at) # Day(t0)
    BY <1>9, <1>1, <1>3, <1>6, <1>7, SkipIs
  <1>10. CASE base # Never /\ ~(r.kind \in Intraday /\ at # Never /\ Day(at) # Day(t0))
              /\ at # Never
    <2>1. m = Finish(based, at) /\ at \in Nat
      BY <1>10, <1>2, <1>5, <1>6
    <2>2. QED
      BY <2>1, <1>10, <1>1, <1>2, <1>3, FinishIs
  <1>11. CASE base # Never /\ at = Never
    <2>1. m = Skip(based, "no_prints") \/ m = based
      BY <1>11, <1>6
    <2>2. QED
      BY <2>1, <1>1, <1>11, <1>3, <1>7, SkipIs
  <1>12. QED
    BY <1>8, <1>9, <1>10, <1>11

-----------------------------------------------------------------------------
(* The operators on rows keep them sane.                                   *)

LEMMA NextOpenDue ==
  ASSUME tape \in Tapes, NEW t \in FilingTimes, ~InHours(t)
  PROVE  \A s \in tape : s >= t <=> Stamp(s) >= NextOpen(t)
  <1>0. t \in Nat /\ NextOpen(t) \in Nat /\ NextOpen(t) > t
    BY Constants, NextOpenIs
  <1>1. ASSUME NEW s \in tape, s >= t PROVE Stamp(s) >= NextOpen(t)
    <2>1. CASE OpenAt(Day(s)) > t
      BY <2>1, <1>0, Trade, NextOpenIs
    <2>2. CASE ~(OpenAt(Day(s)) > t)
      <3>1. Day(t) = Day(s)
        BY <2>2, <1>0, <1>1, Trade
      <3>2. InHours(t)
        BY <3>1, <2>2, <1>0, <1>1, Trade DEF InHours
      <3>3. QED
        BY <3>2
    <2>3. QED
      BY <2>1, <2>2
  <1>2. QED
    BY <1>0, <1>1, Trade

LEMMA HolidayOpen ==
  ASSUME tape \in Tapes, NEW t \in FilingTimes, NEW bars, Stretch(t, bars),
         NEW rs, NEW due, Holiday(t, rs, due, bars)
  PROVE  LET o == OpenAt(Min({Day(s) : s \in {b \in bars : Day(b) > Day(t)}}))
         IN  /\ o \in Nat /\ o >= t /\ \A s \in tape : s >= t <=> Stamp(s) >= o
             /\ LaterSession(t)
  <1> DEFINE S == {Day(s) : s \in {b \in bars : Day(b) > Day(t)}}
             D == Min(S)
             o == OpenAt(D)
  <1>0. t \in Nat /\ Day(t) \in Nat /\ bars \subseteq tape
    BY CalendarAssumption, Constants DEF Stretch, Shown
  <1>1. S \in SUBSET Nat /\ S # {}
    BY <1>0, Trade DEF Holiday
  <1>2. D \in S /\ \A d \in S : D <= d
    <2> HIDE DEF S
    <2>1. QED
      BY <1>1, MinOf
  <1>3. PICK u \in bars : D = Day(u) /\ Day(u) > Day(t)
    BY <1>2
  <1>4. \A s \in bars : Day(s) > Day(t) => D <= Day(s)
    BY <1>2
  <1> HIDE DEF S, D
  <1>5. /\ u \in tape /\ u \in Nat /\ D \in Nat /\ o \in Nat /\ o <= u
        /\ Stamp(u) \in Nat /\ o <= Stamp(u)
    BY <1>0, <1>3, Trade
  <1>6. u > t /\ \A s \in tape : s <= t => Day(s) <= Day(t)
    BY <1>0, <1>3, <1>5, Trade
  <1>7. o > t
    BY <1>0, <1>3, <1>5, <1>6, Trade
  <1>8. ASSUME NEW s \in tape, s >= t
        PROVE  Stamp(s) >= o /\ (InHours(t) => Day(s) # Day(t))
    <2>0. /\ s \in Nat /\ Day(s) \in Nat /\ OpenAt(Day(s)) \in Nat
          /\ Stamp(s) \in Nat /\ OpenAt(Day(s)) <= Stamp(s)
          /\ u <= s => Stamp(u) <= Stamp(s)
      BY <1>5, Trade, CalendarAssumption
    <2>1. CASE s <= u
      <3>1. s \in bars
        BY <2>1, <1>8 DEF Stretch
      <3>2. Day(s) # Day(t) /\ Day(s) >= Day(t) /\ Day(s) <= Day(u)
        BY <3>1, <2>0, <2>1, <1>0, <1>5, <1>8, Trade DEF Holiday
      <3>3. Day(s) = D
        BY <3>1, <3>2, <2>0, <1>0, <1>3, <1>4, <1>5
      <3>4. QED
        BY <3>2, <3>3, <2>0
    <2>2. CASE s > u
      <3>1. Day(s) >= Day(u)
        BY <2>0, <2>2, <1>5, Trade
      <3>2. QED
        BY <3>1, <2>0, <2>2, <1>0, <1>3, <1>5
    <2>3. QED
      BY <2>0, <2>1, <2>2, <1>5
  <1>9. \A s \in tape : s >= t <=> Stamp(s) >= o
    BY <1>0, <1>5, <1>7, <1>8, Trade
  <1>10. LaterSession(t)
    BY <1>8 DEF LaterSession
  <1>11. o \in Nat /\ o >= t
    BY <1>0, <1>5, <1>7
  <1> HIDE DEF o
  <1>12. QED
    BY <1>9, <1>10, <1>11 DEF o, D, S

LEMMA DeferSane ==
  ASSUME NEW t \in Nat, NEW rs \in [Ids -> Row], NEW open \in Nat, open >= t,
         \A s \in tape : s >= t <=> Stamp(s) >= open, LaterSession(t),
         NEW i \in Ids, Sane(t, i, rs[i])
  PROVE  LET r == DeferToOpen(rs, open)[i]
         IN  /\ Sane(t, i, r) /\ Kept(rs[i], r)
             /\ Pending(r) => r.kind \notin Intraday
  <1> DEFINE hasOpen == \E j \in Ids : rs[j].kind = "open"
             r == DeferToOpen(rs, open)[i]
  <1>1. r = IF ~Pending(rs[i]) \/ rs[i].kind \notin Intraday THEN rs[i]
            ELSE IF rs[i].kind = "5m" /\ ~hasOpen THEN ToOpen(rs[i], open)
            ELSE Skip(rs[i], "off_hours")
    BY DEF DeferToOpen
  <1>2. rs[i] \in Row /\ i # "open"
    BY Constants
  <1> DEFINE Right == /\ Sane(t, i, r) /\ Kept(rs[i], r)
                      /\ Pending(r) => r.kind \notin Intraday
  <1> SUFFICES Right
    OBVIOUS
  <1> HIDE DEF hasOpen, r
  <1>3. CASE ~Pending(rs[i]) \/ rs[i].kind \notin Intraday
    <2>1. r = rs[i]
      BY <1>1, <1>3
    <2>2. QED
      BY <2>1, <1>3 DEF Kept, SameOrOpen
  <1>4. CASE Pending(rs[i]) /\ rs[i].kind \in Intraday /\ rs[i].kind = "5m" /\ ~hasOpen
    <2>1. r = ToOpen(rs[i], open)
      BY <1>1, <1>4
    <2>2. /\ r.kind = "open" /\ r.due = open + OpenSettle
          /\ r.status = "pending" /\ r.at = rs[i].at
      BY <2>1, <1>2, <1>4, ToOpenIs DEF Pending
    <2>3. OpenDue(t, r.due)
      BY <2>2 DEF OpenDue
    <2>4. Sane(t, i, r)
      BY <2>2, <2>3, <1>2, <1>4 DEF Sane, Pending
    <2>5. QED
      BY <2>2, <2>4, <1>4, Constants DEF Kept, SameOrOpen, Pending
  <1>5. CASE Pending(rs[i]) /\ rs[i].kind \in Intraday /\ ~(rs[i].kind = "5m" /\ ~hasOpen)
    <2>1. r = Skip(rs[i], "off_hours")
      BY <1>1, <1>5
    <2>2. /\ r.kind = rs[i].kind /\ r.due = rs[i].due
          /\ r.status = "off_hours" /\ r.at = rs[i].at
      BY <2>1, <1>2, SkipIs
    <2>3. QED
      BY <2>2 DEF Sane, Kept, SameOrOpen, Pending
  <1>6. QED
    BY <1>3, <1>4, <1>5

LEMMA AfterCloseSane ==
  ASSUME NEW t, NEW rs \in [Ids -> Row], NEW ids, NEW close, NEW i \in Ids,
         Sane(t, i, rs[i])
  PROVE  LET r == AfterClose(rs, ids, close)[i]
         IN  Sane(t, i, r) /\ Kept(rs[i], r)
  <1> DEFINE r == AfterClose(rs, ids, close)[i]
  <1>1. r = rs[i] \/ r = Skip(rs[i], "after_close")
    BY DEF AfterClose
  <1> HIDE DEF r
  <1>2. Sane(t, i, r) /\ Kept(rs[i], r)
    <2>1. CASE r = rs[i]
      BY <2>1 DEF Kept, SameOrOpen
    <2>2. CASE r = Skip(rs[i], "after_close")
      <3>1. /\ r.kind = rs[i].kind /\ r.due = rs[i].due
            /\ r.status = "after_close" /\ r.at = rs[i].at
        BY <2>2, SkipIs
      <3>2. QED
        BY <3>1 DEF Sane, Kept, SameOrOpen
    <2>3. QED
      BY <1>1, <2>1, <2>2
  <1>3. QED
    BY <1>2 DEF r

LEMMA BeforeFetchSane ==
  ASSUME tape \in Tapes, NEW t \in FilingTimes, NEW rs \in [Ids -> Row],
         NEW ids, \A i \in Ids : Sane(t, i, rs[i]), NEW i \in Ids
  PROVE  LET r == BeforeFetch(t, rs, ids)[i]
         IN  /\ Sane(t, i, r) /\ Kept(rs[i], r)
             /\ i \in ids /\ Pending(r) /\ r.kind \in Intraday => InHours(t)
  <1>0. t \in Nat /\ Sane(t, i, rs[i])
    BY Constants
  <1>1. CASE InHours(t)
    BY <1>0, <1>1, AfterCloseSane DEF BeforeFetch
  <1>2. CASE ~InHours(t) /\ AnyIntraday(rs, ids)
    <2>1. LaterSession(t)
      BY <1>2 DEF LaterSession
    <2>2. NextOpen(t) \in Nat /\ NextOpen(t) >= t /\ \A s \in tape : s >= t <=> Stamp(s) >= NextOpen(t)
      BY <1>0, <1>2, NextOpenIs, NextOpenDue
    <2> DEFINE r == DeferToOpen(rs, NextOpen(t))[i]
    <2>3. Sane(t, i, r) /\ Kept(rs[i], r) /\ (Pending(r) => r.kind \notin Intraday)
      BY <2>1, <2>2, <1>0, DeferSane
    <2>4. BeforeFetch(t, rs, ids)[i] = r
      BY <1>2 DEF BeforeFetch
    <2> HIDE DEF r
    <2>5. QED
      BY <2>3, <2>4
  <1>3. CASE ~InHours(t) /\ ~AnyIntraday(rs, ids)
    <2>1. BeforeFetch(t, rs, ids)[i] = rs[i]
      BY <1>3 DEF BeforeFetch
    <2>2. i \in ids => rs[i].kind \notin Intraday
      BY <1>3 DEF AnyIntraday
    <2>3. QED
      BY <2>1, <2>2, <1>0 DEF Kept, SameOrOpen
  <1>4. QED
    BY <1>1, <1>2, <1>3

LEMMA KeptThenMoved ==
  ASSUME NEW a, NEW b, NEW c, Kept(a, b), Kept(b, c) \/ Moved(b, c)
  PROVE  Moved(a, c)
  BY DEF Kept, Moved, SameOrOpen

LEMMA KeptThenKept ==
  ASSUME NEW a, NEW b, NEW c, Kept(a, b), Kept(b, c)
  PROVE  Kept(a, c)
  BY DEF Kept, SameOrOpen

\* What a commit leaves of two sessions' changes to a row is sane as well.
LEMMA MergeSane ==
  ASSUME tape \in Tapes, NEW t, NEW i \in Ids,
         NEW stored, NEW before, NEW after,
         Sane(t, i, stored), Sane(t, i, before), Sane(t, i, after),
         Moved(before, after), before.kind = "open" => stored.kind = "open"
  PROVE  LET m == MergeRow(stored, before, after)
         IN  Sane(t, i, m) /\ (stored.kind = "open" => m.kind = "open")
  <1> DEFINE m == MergeRow(stored, before, after)
  <1>1. /\ m.kind = Column(stored.kind, before.kind, after.kind)
        /\ m.due = Column(stored.due, before.due, after.due)
        /\ m.status = Column(stored.status, before.status, after.status)
        /\ m.at = Column(stored.at, before.at, after.at)
    BY DEF MergeRow
  <1> HIDE DEF m
  <1>2. i # "open" /\ \A s \in tape : s # Never
    BY Constants, Trade, ReactionAssumption
  <1>3. stored.kind = "open" => m.kind = "open"
    BY <1>1 DEF Column, Moved, SameOrOpen
  <1>4. m.kind = i \/ (i = "5m" /\ m.kind = "open")
    BY <1>1 DEF Column, Sane
  <1>5. m.kind = i => m.due = t + Delay[i]
    BY <1>1, <1>2 DEF Column, Moved, SameOrOpen, Sane
  <1>6. m.kind = "open" => OpenDue(t, m.due) /\ LaterSession(t)
    BY <1>1, <1>2 DEF Column, Moved, SameOrOpen, Sane
  <1>7. m.status # "none"
    BY <1>1 DEF Column, Sane
  <1>8. m.status = "pending" => m.at = Never
    BY <1>1 DEF Column, Moved, Sane
  <1>9. ASSUME m.status = "done"
        PROVE  /\ m.at \in tape /\ RightTrade(t, m)
               /\ m.kind \in Intraday => InHours(t) /\ m.at >= t
    <2>1. CASE after.status = "done" /\ before.status # "done"
      <3>1. before.at = Never /\ after.at \in tape /\ m.at = after.at
        BY <2>1, <1>1, <1>2 DEF Column, Moved, Sane
      <3>2. m.kind = after.kind
        <4>1. CASE after.kind # before.kind \/ stored.kind = before.kind
          BY <4>1, <1>1 DEF Column
        <4>2. CASE after.kind = before.kind /\ stored.kind # before.kind
          <5>1. i = "5m" /\ stored.kind = "open" /\ after.kind = "5m"
            BY <4>2 DEF Sane
          <5>2. LaterSession(t) /\ InHours(t) /\ after.at >= t
            BY <5>1, <2>1, Constants DEF Sane
          <5>3. Day(after.at) = Day(t)
            BY <5>1, <2>1 DEF Sane, RightTrade
          <5>4. QED
            BY <5>2, <5>3, <3>1 DEF LaterSession
        <4>3. QED
          BY <4>1, <4>2
      <3>3. RightTrade(t, m)
        BY <3>1, <3>2, <2>1 DEF Sane, RightTrade
      <3>4. QED
        BY <3>1, <3>2, <3>3, <2>1 DEF Sane
    <2>2. CASE ~(after.status = "done" /\ before.status # "done")
      <3>1. after.status = before.status /\ stored.status = "done"
        BY <2>2, <1>1, <1>9 DEF Column
      <3>2. m.at = stored.at
        BY <3>1, <1>1 DEF Column, Moved
      <3>3. m.kind = stored.kind
        <4>1. CASE after.kind = before.kind \/ stored.kind = "open"
          BY <4>1, <1>1, <1>3 DEF Column
        <4>2. CASE after.kind # before.kind /\ stored.kind # "open"
          <5>1. i = "5m" /\ stored.kind = "5m" /\ after.kind = "open"
            BY <4>2 DEF Sane, Moved, SameOrOpen
          <5>2. LaterSession(t) /\ InHours(t) /\ stored.at >= t /\ stored.at \in tape
            BY <5>1, <3>1, Constants DEF Sane
          <5>3. Day(stored.at) = Day(t)
            BY <5>1, <3>1 DEF Sane, RightTrade
          <5>4. QED
            BY <5>2, <5>3 DEF LaterSession
        <4>3. QED
          BY <4>1, <4>2
      <3>4. RightTrade(t, m)
        BY <3>1, <3>2, <3>3 DEF Sane, RightTrade
      <3>5. QED
        BY <3>1, <3>2, <3>3, <3>4 DEF Sane
    <2>3. QED
      BY <2>1, <2>2
  <1>10. Sane(t, i, m)
    BY <1>4, <1>5, <1>6, <1>7, <1>8, <1>9 DEF Sane
  <1>11. QED
    BY <1>3, <1>10 DEF m

LEMMA MeasureRowSane ==
  ASSUME tape \in Tapes, now \in Nat, NEW t0 \in FilingTimes, NEW i \in Ids,
         NEW r \in Row, Pending(r), r.base = Never \/ Stamp(r.base) <= t0, Sane(t0, i, r),
         r.kind \in Intraday => InHours(t0),
         NEW bars, Stretch(t0, bars), NEW days \in SUBSET Traded, NEW t \in Nat
  PROVE  LET m == MeasureRow(t0, r, bars, days, t)
         IN  Sane(t0, i, m) /\ Moved(r, m)
  <1> DEFINE m == MeasureRow(t0, r, bars, days, t)
             stale == t > r.due + StaleAfter
             at == Reading(t0, r, bars, days, stale)
  <1>1. /\ m.kind = r.kind /\ m.due = r.due
        /\ \/ m.at = r.at /\ m.status \in {"pending", "no_prints", "after_close"}
           \/ /\ m.status = "done" /\ m.at = at /\ at \in tape
              /\ r.kind \in Intraday => Day(at) = Day(t0)
    BY MeasureRowIs DEF Stretch
  <1>2. r.status = "pending"
    BY DEF Pending
  <1>3. t0 \in Nat /\ stale \in BOOLEAN /\ i # "open"
    BY Constants
  <1> HIDE DEF m, stale
  <1>4. CASE m.at = r.at /\ m.status \in {"pending", "no_prints", "after_close"}
    <2>1. Sane(t0, i, m)
      BY <1>1, <1>2, <1>4 DEF Sane
    <2>2. Moved(r, m)
      BY <1>1, <1>2, <1>4 DEF Moved, SameOrOpen
    <2>3. QED
      BY <2>1, <2>2 DEF m
  <1>5. CASE /\ m.status = "done" /\ m.at = at /\ at \in tape
             /\ r.kind \in Intraday => Day(at) = Day(t0)
    <2>0. at # Never /\ at \in Nat
      BY <1>5, Trade, ReactionAssumption
    <2> DEFINE Told == /\ RightTrade(t0, m)
                       /\ m.kind \in Intraday => InHours(t0) /\ m.at >= t0
    <2>1. ASSUME r.kind \in {"1d", "1w"} PROVE Told
      <3>1. at = Daily(t0, r, days, stale)
        BY <2>1 DEF Reading
      <3>2. Day(at) > Day(t0)
        BY <3>1, <2>0, <1>3, DailyIs
      <3>3. QED
        BY <3>2, <2>1, <1>1, <1>5, Constants DEF RightTrade
    <2>2. ASSUME r.kind = "open" PROVE Told
      <3>1. PICK o \in Nat : /\ o >= t0 /\ r.due = o + OpenSettle
                             /\ \A s \in tape : s >= t0 <=> Stamp(s) >= o
        BY <2>2 DEF Sane, OpenDue
      <3>2. r.due - OpenSettle = o
        BY <3>1, Constants
      <3>3. at = First(bars, o)
        BY <2>2, <3>2 DEF Reading
      <3>4. Stamp(at) >= o /\ at = Min(Since(o))
        BY <3>1, <3>3, <2>0, <1>3, FirstIs
      <3>5. Since(o) = {s \in tape : s >= t0}
        BY <3>1 DEF Since
      <3>6. at = Min({s \in tape : s >= t0}) /\ at >= t0
        BY <3>1, <3>4, <3>5, <1>5
      <3>7. InHours(t0) => Day(at) # Day(t0)
        BY <3>6, <2>2, <1>5 DEF Sane, LaterSession
      <3>8. QED
        BY <3>6, <3>7, <2>2, <1>1, <1>5, Constants DEF RightTrade
    <2>3. ASSUME r.kind \notin {"1d", "1w", "open"} PROVE Told
      <3>1. r.kind = i /\ i \in Intraday /\ r.due = t0 + Delay[i]
        BY <2>3 DEF Sane, Ids
      <3>2. r.due \in Nat /\ r.due >= t0
        BY <3>1, <1>3, Constants
      <3>3. at = CloseOfFirst(bars, r.due)
        BY <2>3 DEF Reading
      <3>4. /\ First(bars, r.due) \in bars /\ at \in bars
            /\ Stamp(at) = Stamp(First(bars, r.due))
        BY <3>3, <2>0, CloseOfFirstIs DEF Stretch
      <3>5. First(bars, r.due) # Never
        BY <3>4, Trade, ReactionAssumption DEF Stretch, Shown
      <3>6. /\ Stamp(First(bars, r.due)) >= r.due
            /\ First(bars, r.due) = Min(Since(r.due))
        BY <3>2, <3>5, <1>3, FirstIs
      <3>7. at >= t0
        BY <3>2, <3>4, <3>6, <2>0, <1>3, <1>5, Trade
      <3>8. Stamp(at) = Stamp(Min({s \in tape : Stamp(s) >= t0 + Delay[m.kind]}))
        BY <3>1, <3>4, <3>6, <1>1 DEF Since
      <3>9. QED
        BY <3>1, <3>7, <3>8, <2>3, <1>1, <1>5 DEF RightTrade
    <2>4. Told
      BY <2>1, <2>2, <2>3
    <2>5. Sane(t0, i, m)
      BY <2>4, <1>1, <1>5 DEF Sane
    <2>6. Moved(r, m)
      BY <1>1, <1>2, <1>5 DEF Moved, SameOrOpen
    <2>7. QED
      BY <2>5, <2>6 DEF m
  <1>6. QED
    BY <1>1, <1>4, <1>5

\* The rows as a tick measures them, put off first if the day was a holiday.
Settled(t0, rs, ids, t, bars, days) ==
  LET due == StillDue(rs, ids, t)
  IN  Measured(t0, AfterHoliday(t0, rs, due, bars), due, t, bars, days)

LEMMA MeasuredIs ==
  ASSUME tape \in Tapes, now \in Nat, NEW t0 \in FilingTimes, NEW rs \in RowsAt(t0),
         NEW ids, NEW t \in Nat, NEW bars, Stretch(t0, bars), NEW days \in SUBSET Traded
  PROVE  LET m == Settled(t0, rs, ids, t, bars, days)
         IN  /\ m \in RowsAt(t0)
             /\ (\A i \in Ids :
                   /\ Sane(t0, i, rs[i])
                   /\ i \in ids /\ Pending(rs[i]) /\ rs[i].kind \in Intraday => InHours(t0))
                => \A i \in Ids : Sane(t0, i, m[i]) /\ Moved(rs[i], m[i])
  <1> DEFINE due == StillDue(rs, ids, t)
             known == AfterHoliday(t0, rs, due, bars)
             m == Settled(t0, rs, ids, t, bars, days)
             Fits == \A i \in Ids :
                       /\ Sane(t0, i, rs[i])
                       /\ i \in ids /\ Pending(rs[i]) /\ rs[i].kind \in Intraday
                          => InHours(t0)
  <1>0. t0 \in Nat /\ rs \in [Ids -> Row]
    BY Constants DEF RowsAt
  <1>1. known \in RowsAt(t0)
    BY DeferTyped, HolidayOpen DEF AfterHoliday
  <1>2. ASSUME Fits, NEW i \in Ids
        PROVE  /\ Sane(t0, i, known[i]) /\ Kept(rs[i], known[i])
               /\ i \in due /\ Pending(known[i]) /\ known[i].kind \in Intraday => InHours(t0)
    <2>1. CASE Holiday(t0, rs, due, bars)
      <3> DEFINE o == OpenAt(Min({Day(s) : s \in {b \in bars : Day(b) > Day(t0)}}))
      <3>1. /\ o \in Nat /\ o >= t0 /\ \A s \in tape : s >= t0 <=> Stamp(s) >= o
            /\ LaterSession(t0)
        BY <2>1, HolidayOpen
      <3>2. known = DeferToOpen(rs, o)
        BY <2>1 DEF AfterHoliday
      <3> HIDE DEF o, known
      <3>3. QED
        BY <3>1, <3>2, <1>0, <1>2, DeferSane
    <2>2. CASE ~Holiday(t0, rs, due, bars)
      <3>1. known = rs
        BY <2>2 DEF AfterHoliday
      <3> HIDE DEF known
      <3>2. QED
        BY <3>1, <1>2 DEF Kept, SameOrOpen, StillDue
    <2>3. QED
      BY <2>1, <2>2
  <1>3. m = [i \in Ids |-> IF i \in StillDue(known, due, t)
                           THEN MeasureRow(t0, known[i], bars, days, t) ELSE known[i]]
    BY DEF Measured, Settled
  <1>4. \A i \in StillDue(known, due, t) : i \in due /\ Pending(known[i])
    BY DEF StillDue
  <1> HIDE DEF known, due, m
  <1>5. ASSUME NEW i \in Ids
        PROVE  m[i] \in Row /\ (m[i].base = Never \/ Stamp(m[i].base) <= t0)
    <2>1. known[i] \in Row /\ (known[i].base = Never \/ Stamp(known[i].base) <= t0)
      BY <1>1 DEF RowsAt
    <2>2. CASE i \in StillDue(known, due, t)
      BY <2>1, <2>2, <1>3, <1>4, MeasureRowIs DEF Stretch
    <2>3. CASE i \notin StillDue(known, due, t)
      BY <2>1, <2>3, <1>3
    <2>4. QED
      BY <2>2, <2>3
  <1>6. m \in RowsAt(t0)
    BY <1>3, <1>5 DEF RowsAt
  <1>7. ASSUME Fits, NEW i \in Ids PROVE Sane(t0, i, m[i]) /\ Moved(rs[i], m[i])
    <2>1. known[i] \in Row /\ (known[i].base = Never \/ Stamp(known[i].base) <= t0)
      BY <1>1 DEF RowsAt
    <2>2. Sane(t0, i, known[i]) /\ Kept(rs[i], known[i])
      BY <1>2, <1>7
    <2>3. CASE i \in StillDue(known, due, t)
      <3>1. Pending(known[i]) /\ (known[i].kind \in Intraday => InHours(t0))
        BY <2>3, <1>2, <1>4, <1>7
      <3>2. Sane(t0, i, m[i]) /\ Moved(known[i], m[i])
        BY <3>1, <2>1, <2>2, <2>3, <1>3, MeasureRowSane
      <3>3. QED
        BY <3>2, <2>2, KeptThenMoved
    <2>4. CASE i \notin StillDue(known, due, t)
      <3>1. m[i] = known[i] /\ Kept(known[i], m[i])
        BY <2>4, <1>3 DEF Kept, SameOrOpen
      <3>2. QED
        BY <3>1, <2>2, KeptThenMoved
    <2>5. QED
      BY <2>3, <2>4
  <1>8. QED
    BY <1>6, <1>7 DEF m

-----------------------------------------------------------------------------
(* Types and baselines are kept by every step.                             *)

LEMMA KnownRows ==
  ASSUME StoreInv, NEW e \in Events, rows[e] # NoRows
  PROVE  filed[e] \in FilingTimes /\ rows[e] \in RowsAt(filed[e])
  BY DEF StoreInv, Known

LEMMA TypeInit ==
  Init => TypeInv
  <1> SUFFICES ASSUME Init PROVE TypeInv
    OBVIOUS
  <1>1. now \in Nat
    <2>1. FilingTimes \in SUBSET Nat /\ FilingTimes # {}
      BY ReactionAssumption
    <2>2. Min(FilingTimes) \in Nat
      BY <2>1, MinOf
    <2>3. QED
      BY <2>2 DEF Init
  <1>2. StoreInv
    BY <1>1, NoRowsTyped DEF Init, StoreInv, Known
  <1>3. WorkerInv
    BY <1>1, NoRowsTyped DEF Init, WorkerInv, WorkerTypes, ProcInv, Places
  <1>4. QED
    BY <1>2, <1>3 DEF TypeInv

\* A process that a step leaves alone.
LEMMA ProcFrame ==
  ASSUME NEW q \in Procs, ProcInv(q), now \in Nat, now' \in Nat, clock[q] \in Nat,
         now' >= now, \A e \in Events : filed[e] # Never => filed'[e] = filed[e],
         batch[q] \subseteq Events \X Ids,
         clock'[q] = clock[q], batch'[q] = batch[q], pc'[q] = pc[q], event'[q] = event[q],
         loaded'[q] = loaded[q], working'[q] = working[q]
  PROVE  ProcInv(q)'
  <1>1. Claims(event[q], q)' = Claims(event[q], q)
    BY DEF Claims
  <1>2. ASSUME pc[q] \in {"fetch", "emit", "alert"} PROVE filed'[event[q]] = filed[event[q]]
    BY <1>2 DEF ProcInv, Claims
  <1>3. clock'[q] <= now'
    BY DEF ProcInv
  <1>4. \A e \in Events, i \in Ids : <<e, i>> \in batch'[q] => filed'[e] # Never
    BY DEF ProcInv
  <1>5. RowsAt(filed'[event'[q]]) = RowsAt(filed'[event[q]])
    OBVIOUS
  <1>6. pc'[q] = "fetch" => /\ loaded'[q] \in RowsAt(filed'[event'[q]])
                            /\ working'[q] \in RowsAt(filed'[event'[q]])
    BY <1>2 DEF ProcInv
  <1>7. pc'[q] \in {"fetch", "emit", "alert"} =>
           event'[q] \in Events /\ Claims(event[q], q)' # {}
    BY <1>1 DEF ProcInv
  <1>8. RowsAt(filed[event[q]])' = RowsAt(filed'[event'[q]])
    BY DEF RowsAt
  <1>9. QED
    BY <1>3, <1>4, <1>6, <1>7, <1>8 DEF ProcInv

LEMMA WorkerFrame ==
  ASSUME WorkerInv, UNCHANGED worker, now \in Nat, now' \in Nat, now' >= now,
         \A e \in Events : filed[e] # Never => filed'[e] = filed[e]
  PROVE  WorkerInv'
  <1>1. /\ pc' = pc /\ clock' = clock /\ batch' = batch /\ locked' = locked
        /\ event' = event /\ loaded' = loaded /\ working' = working
    BY DEF worker
  <1>2. WorkerTypes'
    BY <1>1 DEF WorkerInv, WorkerTypes
  <1>3. ASSUME NEW q \in Procs PROVE ProcInv(q)'
    <2>1. ProcInv(q) /\ clock[q] \in Nat /\ batch[q] \subseteq Events \X Ids
      BY DEF WorkerInv, WorkerTypes
    <2>2. QED
      BY <2>1, <1>1, ProcFrame
  <1>4. QED
    BY <1>2, <1>3 DEF WorkerInv

\* A step of process p, as to the others.
LEMMA OtherProcs ==
  ASSUME WorkerInv, NEW p \in Procs, now \in Nat, now' = now, filed' = filed,
         \A q \in Procs \ {p} :
           /\ clock'[q] = clock[q] /\ batch'[q] = batch[q] /\ pc'[q] = pc[q]
           /\ event'[q] = event[q] /\ loaded'[q] = loaded[q] /\ working'[q] = working[q],
         ProcInv(p)', WorkerTypes'
  PROVE  WorkerInv'
  <1>1. ASSUME NEW q \in Procs PROVE ProcInv(q)'
    <2>1. CASE q = p
      BY <2>1
    <2>2. CASE q # p
      <3>1. ProcInv(q) /\ clock[q] \in Nat /\ batch[q] \subseteq Events \X Ids
        BY DEF WorkerInv, WorkerTypes
      <3>2. QED
        BY <3>1, <2>2, ProcFrame
    <2>3. QED
      BY <2>1, <2>2
  <1>2. QED
    BY <1>1 DEF WorkerInv

LEMMA LeaveWorker ==
  ASSUME StoreInv, WorkerInv, NEW p \in Procs, NEW e \in Events,
         NEW to \in {"next", "emit"}, to = "emit" => Claims(e, p) # {},
         Leave(p, e, to), now' = now, filed' = filed
  PROVE  WorkerInv'
  <1> DEFINE left == {k \in batch[p] : k[1] # e}
  <1>1. /\ locked' = [locked EXCEPT ![p] = {}]
        /\ loaded' = [loaded EXCEPT ![p] = NoRows]
        /\ working' = [working EXCEPT ![p] = NoRows]
    BY DEF Leave
  <1>2. \/ /\ batch' = [batch EXCEPT ![p] = left]
           /\ event' = [event EXCEPT ![p] = NoEvent]
           /\ pc' = [pc EXCEPT ![p] = "sleep"] \/ pc' = [pc EXCEPT ![p] = "next"]
           /\ clock' = [clock EXCEPT ![p] = 0] \/ clock' = clock
        \/ /\ batch' = batch /\ clock' = clock
           /\ event' = [event EXCEPT ![p] = e]
           /\ pc' = [pc EXCEPT ![p] = "emit"]
           /\ to = "emit"
    <2>1. CASE to = "next"
      BY <2>1 DEF Leave
    <2>2. CASE to = "emit"
      BY <2>2 DEF Leave
    <2>3. QED
      BY <2>1, <2>2
  <1>3. left \subseteq batch[p] /\ batch[p] \subseteq Events \X Ids /\ clock[p] \in Nat
    BY DEF WorkerInv, WorkerTypes
  <1>4. WorkerTypes /\ ProcInv(p) /\ now \in Nat
    BY DEF WorkerInv, StoreInv
  <1> HIDE DEF left
  <1>5. \A q \in Procs \ {p} :
           /\ clock'[q] = clock[q] /\ batch'[q] = batch[q] /\ pc'[q] = pc[q]
           /\ event'[q] = event[q] /\ loaded'[q] = loaded[q] /\ working'[q] = working[q]
    BY <1>1, <1>2, <1>4 DEF WorkerTypes
  <1>6. WorkerTypes'
    <2>1. /\ locked' \in [Procs -> SUBSET (Events \X Ids)]
          /\ loaded' \in [Procs -> [Ids -> Row]] /\ working' \in [Procs -> [Ids -> Row]]
      BY <1>1, <1>4, NoRowsTyped DEF WorkerTypes
    <2>2. pc' \in [Procs -> Places]
      <3>1. pc \in [Procs -> Places] /\ {"sleep", "next", "emit"} \subseteq Places
        BY <1>4 DEF WorkerTypes, Places
      <3>2. \E x \in {"sleep", "next", "emit"} : pc' = [pc EXCEPT ![p] = x]
        BY <1>2
      <3>3. QED
        BY <3>1, <3>2
    <2>6. clock' \in [Procs -> Nat]
      <3>1. clock \in [Procs -> Nat]
        BY <1>4 DEF WorkerTypes
      <3>2. clock' = [clock EXCEPT ![p] = 0] \/ clock' = clock
        BY <1>2
      <3>3. QED
        BY <3>1, <3>2
    <2>3. batch' \in [Procs -> SUBSET (Events \X Ids)]
      BY <1>2, <1>3, <1>4 DEF WorkerTypes
    <2>4. event' \in [Procs -> Events \cup {NoEvent}]
      BY <1>2, <1>4 DEF WorkerTypes
    <2>5. QED
      BY <2>1, <2>2, <2>3, <2>4, <2>6 DEF WorkerTypes
  <1>7. ProcInv(p)'
    <2>1. clock'[p] <= now'
      BY <1>2, <1>3, <1>4 DEF ProcInv, WorkerTypes
    <2>2. batch'[p] \subseteq batch[p]
      BY <1>2, <1>3, <1>4 DEF WorkerTypes
    <2>3. \A d \in Events, i \in Ids : <<d, i>> \in batch'[p] => filed'[d] # Never
      BY <2>2, <1>4 DEF ProcInv
    <2>4. pc'[p] # "fetch"
      BY <1>2, <1>4 DEF WorkerTypes
    <2>5. pc'[p] \in {"fetch", "emit", "alert"} =>
            event'[p] = e /\ batch'[p] = batch[p] /\ to = "emit"
      BY <1>2, <1>4 DEF WorkerTypes
    <2>6. ASSUME pc'[p] \in {"fetch", "emit", "alert"}
          PROVE  event'[p] \in Events /\ Claims(event[p], p)' # {}
      BY <2>5, <2>6 DEF Claims
    <2>7. QED
      BY <2>1, <2>3, <2>4, <2>6 DEF ProcInv
  <1>8. QED
    BY <1>4, <1>5, <1>6, <1>7, OtherProcs

-----------------------------------------------------------------------------
(* The store, action by action.                                            *)

LEMMA CountFailureIs ==
  ASSUME NEW r \in Row
  PROVE  LET m == CountFailure(r)
         IN  /\ m \in Row /\ m.kind = r.kind /\ m.due = r.due /\ m.base = r.base
             /\ m.at = r.at /\ m.status \in {r.status, "failed"}
  <1> DEFINE tried == [r EXCEPT !.attempts = Bump(@)]
  <1>1. /\ tried \in Row /\ tried.kind = r.kind /\ tried.due = r.due
        /\ tried.base = r.base /\ tried.at = r.at /\ tried.status = r.status
    <2>1. r.attempts \in 0 .. MaxAttempts
      BY DEF Row
    <2>2. Bump(r.attempts) \in 0 .. MaxAttempts
      BY <2>1, BumpIs
    <2>3. QED
      BY <2>2 DEF Row
  <1> HIDE DEF tried
  <1> DEFINE why == IF Bump(r.attempts) >= MaxAttempts THEN "failed" ELSE r.status
             m == [tried EXCEPT !.status = why]
  <1>2. why \in {r.status, "failed"}
    OBVIOUS
  <1>3. CountFailure(r) = m
    BY <1>1 DEF CountFailure, tried
  <1> HIDE DEF why
  <1>4. /\ m \in Row /\ m.kind = tried.kind /\ m.due = tried.due /\ m.base = tried.base
        /\ m.at = tried.at /\ m.status = why
    BY <1>1, <1>2 DEF Row
  <1> HIDE DEF m
  <1>5. QED
    BY <1>1, <1>2, <1>3, <1>4

LEMMA StoredRows ==
  ASSUME StoreInv, NEW e \in Events, filed[e] # Never
  PROVE  /\ filed[e] \in FilingTimes /\ rows[e] \in RowsAt(filed[e])
         /\ rows[e] \in [Ids -> Row]
         /\ cli # Never => cli[e] \in RowsAt(filed[e])
  <1>1. NoRows \in RowsAt(filed[e])
    <2>1. \A i \in Ids : NoRows[i].base = Never
      BY DEF NoRows, NewRow
    <2>2. QED
      BY <2>1, NoRowsTyped DEF RowsAt
  <1>2. QED
    BY <1>1 DEF StoreInv, Known

\* A step that writes one event's rows.
LEMMA StoreWrite ==
  ASSUME StoreInv, NEW e \in Events, filed[e] # Never,
         NEW rs \in RowsAt(filed[e]), rows' = [rows EXCEPT ![e] = rs],
         now' = now, tape' = tape, filed' = filed, cli' = cli, faults' \in Nat,
         alerted' \subseteq Events, cut' \subseteq Events, crossed' \subseteq Events
  PROVE  StoreInv'
  <1>1. rs \in [Ids -> Row]
    BY DEF RowsAt
  <1>2. rows' \in [Events -> [Ids -> Row]]
    BY <1>1 DEF StoreInv
  <1>3. ASSUME NEW d \in Events
        PROVE  Known(d, rows[d])' /\ (cli' # Never => Known(d, cli[d])')
    BY DEF StoreInv, Known, RowsAt
  <1>4. QED
    BY <1>2, <1>3 DEF StoreInv

LEMMA StoreFrame ==
  ASSUME StoreInv, rows' = rows, now' \in Nat,
         tape' = tape, filed' = filed, cli' = cli, faults' \in Nat,
         alerted' \subseteq Events, cut' \subseteq Events, crossed' \subseteq Events
  PROVE  StoreInv'
  BY DEF StoreInv, Known, RowsAt

LEMMA TypeFile ==
  ASSUME TypeInv, NEW e \in Events, NEW t \in FilingTimes, File(e, t)
  PROVE  TypeInv'
  <1>1. /\ filed[e] = Never /\ filed' = [filed EXCEPT ![e] = t]
        /\ rows' = [rows EXCEPT ![e] = Scheduled(t)] \/ rows' = rows
        /\ now' = now /\ tape' = tape /\ cli' = cli /\ faults' \in Nat
        /\ alerted' = alerted /\ cut' = cut /\ crossed' = crossed /\ UNCHANGED worker
    BY DEF File, market, TypeInv, StoreInv
  <1>2. t \in Nat /\ t # Never /\ Scheduled(t) \in RowsAt(t) /\ now \in Nat
    BY Constants, ScheduledTyped DEF TypeInv, StoreInv
  <1>3. filed' \in [Events -> FilingTimes \cup {Never}] /\ filed'[e] = t
    BY <1>1 DEF TypeInv, StoreInv
  <1>4. rows' \in [Events -> [Ids -> Row]]
    BY <1>1, <1>2 DEF TypeInv, StoreInv, RowsAt
  <1>5. ASSUME NEW d \in Events
        PROVE  Known(d, rows[d])' /\ (cli' # Never => Known(d, cli[d])')
    <2>1. CASE d = e
      BY <2>1, <1>1, <1>2, <1>3 DEF TypeInv, StoreInv, Known, RowsAt
    <2>2. CASE d # e
      BY <2>2, <1>1 DEF TypeInv, StoreInv, Known, RowsAt
    <2>3. QED
      BY <2>1, <2>2
  <1>6. StoreInv'
    BY <1>1, <1>3, <1>4, <1>5 DEF TypeInv, StoreInv
  <1>7. \A d \in Events : filed[d] # Never => filed'[d] = filed[d]
    BY <1>1 DEF TypeInv, StoreInv
  <1>8. WorkerInv'
    BY <1>1, <1>2, <1>7, WorkerFrame DEF TypeInv
  <1>9. QED
    BY <1>6, <1>8 DEF TypeInv

LEMMA TypeBackfill ==
  ASSUME TypeInv, NEW e \in Events, Backfill(e)
  PROVE  TypeInv'
  <1>1. filed[e] # Never /\ rows' = [rows EXCEPT ![e] = Scheduled(filed[e])]
    BY DEF Backfill
  <1>2. Scheduled(filed[e]) \in RowsAt(filed[e])
    BY <1>1, StoredRows, ScheduledTyped DEF TypeInv
  <1>3. StoreInv'
    BY <1>1, <1>2, StoreWrite DEF Backfill, market, counts, TypeInv, StoreInv
  <1>4. WorkerInv'
    BY WorkerFrame DEF Backfill, market, TypeInv, StoreInv
  <1>5. QED
    BY <1>3, <1>4 DEF TypeInv

LEMMA TypeReset ==
  ASSUME TypeInv, ResetCommit
  PROVE  TypeInv'
  <1> DEFINE new(e) == ResetRows(filed[e], cli[e])
             merged(e) == Merge(rows[e], cli[e], new(e))
  <1>1. /\ cli # Never /\ cli' = Never /\ rows' = [e \in Events |-> merged(e)]
        /\ now' = now /\ tape' = tape /\ filed' = filed /\ UNCHANGED worker
        /\ alerted' = alerted /\ cut' = cut /\ faults' = faults
        /\ crossed' \subseteq Events
    BY DEF ResetCommit, market, TypeInv, StoreInv
  <1>2. ASSUME NEW e \in Events PROVE Known(e, merged(e)) /\ merged(e) \in [Ids -> Row]
    <2>1. CASE filed[e] = Never
      <3>1. rows[e] = NoRows /\ cli[e] = NoRows
        BY <2>1, <1>1 DEF TypeInv, StoreInv, Known
      <3>2. merged(e) = NoRows
        BY <3>1, ResetNothing, MergeNothing, NoRowsTyped
      <3>3. QED
        BY <3>2, NoRowsTyped DEF Known
    <2>2. CASE filed[e] # Never
      <3>1. /\ filed[e] \in FilingTimes /\ rows[e] \in RowsAt(filed[e])
            /\ cli[e] \in RowsAt(filed[e])
        BY <2>2, <1>1, StoredRows DEF TypeInv
      <3>2. new(e) \in RowsAt(filed[e])
        BY <3>1, ResetTyped
      <3> HIDE DEF new
      <3>3. merged(e) \in RowsAt(filed[e])
        BY <3>1, <3>2, MergeTyped
      <3>4. QED
        BY <2>2, <3>3 DEF Known, RowsAt
    <2>3. QED
      BY <2>1, <2>2
  <1> HIDE DEF merged
  <1>3. rows' \in [Events -> [Ids -> Row]]
    BY <1>1, <1>2
  <1>4. \A e \in Events : Known(e, rows[e])'
    BY <1>1, <1>2 DEF Known, RowsAt
  <1>5. StoreInv'
    BY <1>1, <1>3, <1>4 DEF TypeInv, StoreInv
  <1>6. WorkerInv'
    BY <1>1, WorkerFrame DEF TypeInv, StoreInv
  <1>7. QED
    BY <1>5, <1>6 DEF TypeInv

-----------------------------------------------------------------------------
(* Types, action by action.                                                *)

LEMMA TypeTick ==
  ASSUME TypeInv, NEW p \in Procs, Tick(p)
  PROVE  TypeInv'
  <1>1. PICK claim \in SUBSET {k \in Events \X Ids : Pending(RowOf(k))} :
          /\ batch' = [batch EXCEPT ![p] = claim]
          /\ locked' = [locked EXCEPT ![p] = claim]
    BY DEF Tick
  <1>2. /\ clock' = [clock EXCEPT ![p] = now] /\ pc' = [pc EXCEPT ![p] = "next"]
        /\ now' = now /\ tape' = tape /\ filed' = filed /\ rows' = rows /\ cli' = cli
        /\ event' = event /\ loaded' = loaded /\ working' = working
        /\ alerted' = alerted /\ cut' = cut /\ crossed' = crossed /\ faults' = faults
    BY DEF Tick, market, table, counts
  <1>3. StoreInv'
    BY <1>2, StoreFrame DEF TypeInv, StoreInv
  <1>4. WorkerTypes /\ now \in Nat /\ claim \in SUBSET (Events \X Ids)
    BY DEF TypeInv, StoreInv, WorkerInv
  <1>5. WorkerTypes'
    <2>1. pc' \in [Procs -> Places]
      BY <1>2, <1>4 DEF WorkerTypes, Places
    <2>2. clock' \in [Procs -> Nat]
      BY <1>2, <1>4 DEF WorkerTypes
    <2>3. /\ batch' \in [Procs -> SUBSET (Events \X Ids)]
          /\ locked' \in [Procs -> SUBSET (Events \X Ids)]
      BY <1>1, <1>4 DEF WorkerTypes
    <2>4. QED
      BY <2>1, <2>2, <2>3, <1>2, <1>4 DEF WorkerTypes
  <1>6. clock'[p] = now /\ batch'[p] = claim /\ pc'[p] = "next"
    BY <1>1, <1>2, <1>4 DEF WorkerTypes
  <1>7. ASSUME NEW e \in Events, NEW i \in Ids, <<e, i>> \in batch'[p]
        PROVE  filed'[e] # Never
    <2>1. rows[e][i].status = "pending"
      BY <1>6, <1>7 DEF Pending, RowOf
    <2>2. rows[e] # NoRows
      BY <2>1 DEF NoRows, NewRow
    <2>3. QED
      BY <2>2, <1>2 DEF TypeInv, StoreInv, Known
  <1>8. ProcInv(p)'
    BY <1>2, <1>4, <1>6, <1>7 DEF ProcInv
  <1>9. \A q \in Procs \ {p} :
           /\ clock'[q] = clock[q] /\ batch'[q] = batch[q] /\ pc'[q] = pc[q]
           /\ event'[q] = event[q] /\ loaded'[q] = loaded[q] /\ working'[q] = working[q]
    BY <1>1, <1>2, <1>4 DEF WorkerTypes
  <1>10. WorkerInv'
    BY <1>2, <1>4, <1>5, <1>8, <1>9, OtherProcs DEF TypeInv
  <1>11. QED
    BY <1>3, <1>10 DEF TypeInv

LEMMA Claimed ==
  ASSUME TypeInv, NEW p \in Procs, NEW e \in Events, Claims(e, p) # {}
  PROVE  filed[e] # Never
  BY DEF TypeInv, WorkerInv, ProcInv, Claims

LEMMA TypeBegin ==
  ASSUME TypeInv, NEW p \in Procs, NEW e \in Events, Begin(p, e)
  PROVE  TypeInv'
  <1> DEFINE settled == BeforeFetch(filed[e], rows[e], Claims(e, p))
  <1>1. /\ now' = now /\ tape' = tape /\ filed' = filed /\ cli' = cli
        /\ alerted' = alerted /\ cut' = cut /\ crossed' = crossed /\ faults' = faults
        /\ Claims(e, p) # {} /\ filed[e] # Never
    BY Claimed DEF Begin, market, counts
  <1>2. /\ filed[e] \in FilingTimes /\ rows[e] \in RowsAt(filed[e])
        /\ rows[e] \in [Ids -> Row]
    BY <1>1, StoredRows DEF TypeInv
  <1>3. settled \in RowsAt(filed[e]) /\ settled \in [Ids -> Row]
    BY <1>2, BeforeFetchTyped DEF RowsAt
  <1>4. \/ rows' = [rows EXCEPT ![e] = settled] /\ Leave(p, e, "next")
        \/ /\ loaded' = [loaded EXCEPT ![p] = rows[e]]
           /\ working' = [working EXCEPT ![p] = settled]
           /\ event' = [event EXCEPT ![p] = e]
           /\ pc' = [pc EXCEPT ![p] = "fetch"]
           /\ UNCHANGED <<rows, clock, batch, locked>>
    BY DEF Begin
  <1> HIDE DEF settled
  <1>5. CASE rows' = [rows EXCEPT ![e] = settled] /\ Leave(p, e, "next")
    <2>1. StoreInv'
      BY <1>5, <1>1, <1>3, StoreWrite DEF TypeInv, StoreInv
    <2>2. WorkerInv'
      BY <1>5, <1>1, LeaveWorker DEF TypeInv
    <2>3. QED
      BY <2>1, <2>2 DEF TypeInv
  <1>6. CASE /\ loaded' = [loaded EXCEPT ![p] = rows[e]]
             /\ working' = [working EXCEPT ![p] = settled]
             /\ event' = [event EXCEPT ![p] = e]
             /\ pc' = [pc EXCEPT ![p] = "fetch"]
             /\ UNCHANGED <<rows, clock, batch, locked>>
    <2>1. StoreInv'
      BY <1>6, <1>1, StoreFrame DEF TypeInv, StoreInv
    <2>2. WorkerTypes /\ ProcInv(p) /\ now \in Nat
      BY DEF TypeInv, StoreInv, WorkerInv
    <2>3. WorkerTypes'
      <3>1. pc' \in [Procs -> Places]
        BY <1>6, <2>2 DEF WorkerTypes, Places
      <3>2. loaded' \in [Procs -> [Ids -> Row]] /\ working' \in [Procs -> [Ids -> Row]]
        BY <1>6, <1>2, <1>3, <2>2 DEF WorkerTypes
      <3>3. event' \in [Procs -> Events \cup {NoEvent}]
        BY <1>6, <2>2 DEF WorkerTypes
      <3>4. QED
        BY <1>6, <2>2, <3>1, <3>2, <3>3 DEF WorkerTypes
    <2>4. event'[p] = e /\ loaded'[p] = rows[e] /\ working'[p] = settled
      BY <1>6, <2>2 DEF WorkerTypes
    <2>5. Claims(event[p], p)' = Claims(e, p)
      BY <1>6, <2>4 DEF Claims
    <2>6. RowsAt(filed[event[p]])' = RowsAt(filed[e])
      BY <1>1, <2>4 DEF RowsAt
    <2>7. ProcInv(p)'
      BY <1>1, <1>2, <1>3, <1>6, <2>2, <2>4, <2>5, <2>6 DEF ProcInv
    <2>8. \A q \in Procs \ {p} :
             /\ clock'[q] = clock[q] /\ batch'[q] = batch[q] /\ pc'[q] = pc[q]
             /\ event'[q] = event[q] /\ loaded'[q] = loaded[q] /\ working'[q] = working[q]
      BY <1>6, <2>2 DEF WorkerTypes
    <2>9. WorkerInv'
      BY <1>1, <2>2, <2>3, <2>7, <2>8, OtherProcs DEF TypeInv
    <2>10. QED
      BY <2>1, <2>9 DEF TypeInv
  <1>7. QED
    BY <1>4, <1>5, <1>6

\* What a process in the fetch knows.
LEMMA Fetching ==
  ASSUME TypeInv, NEW p \in Procs, pc[p] = "fetch"
  PROVE  /\ event[p] \in Events /\ filed[event[p]] \in FilingTimes
         /\ rows[event[p]] \in RowsAt(filed[event[p]])
         /\ loaded[p] \in RowsAt(filed[event[p]]) /\ working[p] \in RowsAt(filed[event[p]])
         /\ clock[p] \in Nat /\ clock[p] <= now /\ now \in Nat /\ tape \in Tapes
         /\ Claims(event[p], p) \subseteq Ids
  <1>1. /\ event[p] \in Events /\ Claims(event[p], p) # {}
        /\ loaded[p] \in RowsAt(filed[event[p]]) /\ working[p] \in RowsAt(filed[event[p]])
        /\ clock[p] \in Nat /\ clock[p] <= now /\ now \in Nat /\ tape \in Tapes
    BY DEF TypeInv, WorkerInv, ProcInv, WorkerTypes, StoreInv
  <1>2. filed[event[p]] # Never
    BY <1>1, Claimed
  <1>3. QED
    BY <1>1, <1>2, StoredRows DEF TypeInv, Claims

LEMMA Outcome ==
  ASSUME TypeInv, NEW p \in Procs, pc[p] = "fetch", NEW after \in Outcomes(p)
  PROVE  \E bars \in SUBSET Shown, days \in SUBSET Traded :
           /\ Stretch(filed[event[p]], bars)
           /\ after = Settled(filed[event[p]], working[p], Claims(event[p], p),
                              clock[p], bars, days)
  <1> DEFINE t0 == filed[event[p]]
             rs == working[p]
             ids == Claims(event[p], p)
             due == StillDue(rs, ids, clock[p])
  <1>1. PICK bars \in MinuteBars(t0, rs, due, clock[p]), days \in DailyBars :
          after = Settled(t0, rs, ids, clock[p], bars, days)
    BY DEF Outcomes, Settled
  <1>2. /\ t0 \in FilingTimes /\ due \in SUBSET Ids /\ rs \in [Ids -> Row] /\ ids \in SUBSET Ids
        /\ clock[p] \in Nat /\ clock[p] <= now /\ now \in Nat /\ tape \in Tapes
    BY Fetching DEF RowsAt, StillDue
  <1> HIDE DEF t0, rs, ids, due
  <1>3. Stretch(t0, bars)
    BY <1>2, MinuteBarsStretch
  <1>4. days \in SUBSET Traded
    BY DailyBarsTraded
  <1>5. QED
    BY <1>1, <1>3, <1>4 DEF Stretch, t0, rs, ids

LEMMA TypeMeasure ==
  ASSUME TypeInv, NEW p \in Procs, Measure(p)
  PROVE  TypeInv'
  <1> DEFINE e == event[p]
  <1>1. /\ pc[p] = "fetch" /\ now' = now /\ tape' = tape /\ filed' = filed /\ cli' = cli
        /\ alerted' = alerted /\ cut' = cut /\ crossed' = crossed /\ faults' = faults
    BY DEF Measure, market, counts
  <1>2. PICK after \in Outcomes(p) :
          /\ rows' = [rows EXCEPT ![e] = Merge(@, loaded[p], after)]
          /\ Leave(p, e, IF Completed(p, after) THEN "emit" ELSE "next")
    BY DEF Measure
  <1>3. /\ e \in Events /\ filed[e] \in FilingTimes /\ rows[e] \in RowsAt(filed[e])
        /\ loaded[p] \in RowsAt(filed[e]) /\ working[p] \in RowsAt(filed[e])
        /\ clock[p] \in Nat /\ now \in Nat /\ tape \in Tapes
    BY <1>1, Fetching
  <1>4. filed[e] # Never
    BY <1>3, Constants
  <1>5. after \in RowsAt(filed[e])
    <2>1. PICK bars \in SUBSET Shown, days \in SUBSET Traded :
            /\ Stretch(filed[e], bars)
            /\ after = Settled(filed[e], working[p], Claims(e, p), clock[p], bars, days)
      BY <1>1, Outcome
    <2>2. QED
      BY <2>1, <1>3, MeasuredIs
  <1>6. Merge(rows[e], loaded[p], after) \in RowsAt(filed[e])
    BY <1>3, <1>5, MergeTyped
  <1> DEFINE to == IF Completed(p, after) THEN "emit" ELSE "next"
  <1>7. to \in {"next", "emit"} /\ (to = "emit" => Claims(e, p) # {})
    BY <1>1 DEF TypeInv, WorkerInv, ProcInv
  <1>8. Leave(p, e, to)
    BY <1>2
  <1>9. rows' = [rows EXCEPT ![e] = Merge(rows[e], loaded[p], after)]
    BY <1>2
  <1> HIDE DEF e, to
  <1>10. StoreInv'
    BY <1>1, <1>3, <1>4, <1>6, <1>9, StoreWrite DEF TypeInv, StoreInv
  <1>11. WorkerInv'
    BY <1>1, <1>3, <1>7, <1>8, LeaveWorker DEF TypeInv
  <1>12. QED
    BY <1>10, <1>11 DEF TypeInv

LEMMA TypeFetchFails ==
  ASSUME TypeInv, NEW p \in Procs, FetchFails(p)
  PROVE  TypeInv'
  <1> DEFINE e == event[p]
             counted == [i \in Ids |-> IF i \in Claims(e, p) THEN CountFailure(rows[e][i])
                                                             ELSE rows[e][i]]
  <1>1. /\ pc[p] = "fetch" /\ now' = now /\ tape' = tape /\ filed' = filed /\ cli' = cli
        /\ alerted' = alerted /\ cut' = cut /\ crossed' = crossed /\ faults' = faults + 1
        /\ rows' = [rows EXCEPT ![e] = counted] /\ Leave(p, e, "next")
    BY DEF FetchFails, market
  <1>2. e \in Events /\ filed[e] \in FilingTimes /\ rows[e] \in RowsAt(filed[e])
    BY <1>1, Fetching
  <1>3. filed[e] # Never
    BY <1>2, Constants
  <1>4. counted \in RowsAt(filed[e])
    <2>1. ASSUME NEW i \in Ids
          PROVE  counted[i] \in Row /\ counted[i].base = rows[e][i].base
      <3>1. rows[e][i] \in Row
        BY <1>2 DEF RowsAt
      <3>2. QED
        BY <3>1, CountFailureIs
    <2> HIDE DEF e
    <2>2. counted \in [Ids -> Row]
      BY <2>1
    <2> HIDE DEF counted
    <2>3. QED
      BY <1>2, <2>1, <2>2 DEF RowsAt
  <1> HIDE DEF e, counted
  <1>5. StoreInv'
    <2>1. /\ faults' \in Nat /\ alerted' \subseteq Events /\ cut' \subseteq Events
          /\ crossed' \subseteq Events /\ StoreInv
      BY <1>1 DEF TypeInv, StoreInv
    <2>2. QED
      BY <2>1, <1>1, <1>2, <1>3, <1>4, StoreWrite
  <1>6. WorkerInv'
    BY <1>1, <1>2, LeaveWorker DEF TypeInv
  <1>7. QED
    BY <1>5, <1>6 DEF TypeInv

\* A step that only ends a session.
LEMMA TypeLeave ==
  ASSUME TypeInv, NEW p \in Procs, event[p] \in Events, Leave(p, event[p], "next"),
         now' = now, tape' = tape, filed' = filed, rows' = rows, cli' = cli,
         faults' \in Nat, alerted' \subseteq Events, cut' \subseteq Events,
         crossed' \subseteq Events
  PROVE  TypeInv'
  <1>1. StoreInv'
    BY StoreFrame DEF TypeInv, StoreInv
  <1>2. WorkerInv'
    BY LeaveWorker DEF TypeInv
  <1>3. QED
    BY <1>1, <1>2 DEF TypeInv

LEMMA TypeEmit ==
  ASSUME TypeInv, NEW p \in Procs, Emit(p) \/ TriggerViewAlerts(p) \/ Abort(p)
  PROVE  TypeInv'
  <1>1. /\ pc[p] \in {"fetch", "emit", "alert"}
        /\ now' = now /\ tape' = tape /\ filed' = filed /\ rows' = rows /\ cli' = cli
        /\ faults' = faults \/ faults' = faults + 1
        /\ alerted' \subseteq alerted \cup {event[p]} /\ cut' \subseteq cut \cup {event[p]}
        /\ crossed' = crossed
    BY DEF Emit, TriggerViewAlerts, Abort, market, table, counts
  <1>2. /\ event[p] \in Events /\ Claims(event[p], p) # {}
        /\ faults' \in Nat /\ alerted' \subseteq Events /\ cut' \subseteq Events
        /\ crossed' \subseteq Events
    BY <1>1 DEF TypeInv, WorkerInv, ProcInv, StoreInv
  <1>3. \/ Leave(p, event[p], "next")
        \/ /\ pc[p] = "emit" /\ pc' = [pc EXCEPT ![p] = "alert"]
           /\ UNCHANGED <<clock, batch, locked, event, loaded, working>>
    BY DEF Emit, TriggerViewAlerts, Abort
  <1>4. CASE Leave(p, event[p], "next")
    BY <1>1, <1>2, <1>4, TypeLeave
  <1>5. CASE /\ pc[p] = "emit" /\ pc' = [pc EXCEPT ![p] = "alert"]
             /\ UNCHANGED <<clock, batch, locked, event, loaded, working>>
    <2>1. StoreInv'
      BY <1>1, <1>2, StoreFrame DEF TypeInv, StoreInv
    <2>2. WorkerTypes /\ ProcInv(p) /\ now \in Nat
      BY DEF TypeInv, StoreInv, WorkerInv
    <2>3. WorkerTypes'
      BY <1>5, <2>2 DEF WorkerTypes, Places
    <2>4. pc'[p] = "alert"
      BY <1>5, <2>2 DEF WorkerTypes
    <2>5. Claims(event[p], p)' = Claims(event[p], p)
      BY <1>5 DEF Claims
    <2>6. ProcInv(p)'
      BY <1>1, <1>2, <1>5, <2>2, <2>4, <2>5 DEF ProcInv
    <2>7. \A q \in Procs \ {p} :
             /\ clock'[q] = clock[q] /\ batch'[q] = batch[q] /\ pc'[q] = pc[q]
             /\ event'[q] = event[q] /\ loaded'[q] = loaded[q] /\ working'[q] = working[q]
      BY <1>5, <2>2 DEF WorkerTypes
    <2>8. WorkerInv'
      BY <1>1, <2>2, <2>3, <2>6, <2>7, OtherProcs DEF TypeInv
    <2>9. QED
      BY <2>1, <2>8 DEF TypeInv
  <1>6. QED
    BY <1>3, <1>4, <1>5

LEMMA TypeCrash ==
  ASSUME TypeInv, NEW p \in Procs, Crash(p)
  PROVE  TypeInv'
  <1>1. /\ pc[p] # "sleep"
        /\ now' = now /\ tape' = tape /\ filed' = filed /\ rows' = rows /\ cli' = cli
        /\ faults' = faults + 1 /\ alerted' = alerted /\ crossed' = crossed
        /\ cut' = cut \/ (pc[p] \in {"emit", "alert"} /\ cut' = cut \cup {event[p]})
    BY DEF Crash, market, table
  <1>2. /\ pc' = [pc EXCEPT ![p] = "sleep"] /\ clock' = [clock EXCEPT ![p] = 0]
        /\ batch' = [batch EXCEPT ![p] = {}] /\ locked' = [locked EXCEPT ![p] = {}]
        /\ event' = [event EXCEPT ![p] = NoEvent]
        /\ loaded' = [loaded EXCEPT ![p] = NoRows]
        /\ working' = [working EXCEPT ![p] = NoRows]
    BY DEF Crash
  <1>3. /\ faults' \in Nat /\ cut' \subseteq Events
        /\ alerted' \subseteq Events /\ crossed' \subseteq Events
    BY <1>1 DEF TypeInv, StoreInv, WorkerInv, ProcInv
  <1>4. StoreInv'
    BY <1>1, <1>3, StoreFrame DEF TypeInv, StoreInv
  <1>5. WorkerTypes /\ ProcInv(p) /\ now \in Nat
    BY DEF TypeInv, StoreInv, WorkerInv
  <1>6. WorkerTypes'
    <2>1. /\ loaded' \in [Procs -> [Ids -> Row]] /\ working' \in [Procs -> [Ids -> Row]]
      BY <1>2, <1>5, NoRowsTyped DEF WorkerTypes
    <2>2. clock' \in [Procs -> Nat] /\ event' \in [Procs -> Events \cup {NoEvent}]
      BY <1>2, <1>5 DEF WorkerTypes
    <2>3. /\ batch' \in [Procs -> SUBSET (Events \X Ids)]
          /\ locked' \in [Procs -> SUBSET (Events \X Ids)]
      BY <1>2, <1>5 DEF WorkerTypes
    <2>4. pc' \in [Procs -> Places]
      BY <1>2, <1>5 DEF WorkerTypes, Places
    <2>5. QED
      BY <2>1, <2>2, <2>3, <2>4 DEF WorkerTypes
  <1>7. pc'[p] = "sleep" /\ clock'[p] = 0 /\ batch'[p] = {}
    BY <1>2, <1>5 DEF WorkerTypes
  <1>8. ProcInv(p)'
    BY <1>1, <1>5, <1>7 DEF ProcInv
  <1>9. \A q \in Procs \ {p} :
           /\ clock'[q] = clock[q] /\ batch'[q] = batch[q] /\ pc'[q] = pc[q]
           /\ event'[q] = event[q] /\ loaded'[q] = loaded[q] /\ working'[q] = working[q]
    BY <1>2, <1>5 DEF WorkerTypes
  <1>10. WorkerInv'
    BY <1>1, <1>5, <1>6, <1>8, <1>9, OtherProcs DEF TypeInv
  <1>11. QED
    BY <1>4, <1>10 DEF TypeInv

LEMMA TypeStep ==
  TypeInv /\ [Next]_vars => TypeInv'
  <1> SUFFICES ASSUME TypeInv, [Next]_vars PROVE TypeInv'
    OBVIOUS
  <1>0. now \in Nat
    BY DEF TypeInv, StoreInv
  <1>1. CASE Elapse
    <2>1. /\ now' = now + 1 /\ now' \in Nat /\ now' >= now /\ UNCHANGED worker
          /\ tape' = tape /\ filed' = filed /\ rows' = rows /\ cli' = cli
          /\ faults' = faults /\ alerted' = alerted /\ cut' = cut /\ crossed' = crossed
      BY <1>0, <1>1 DEF Elapse, table, counts
    <2>2. StoreInv'
      BY <2>1, StoreFrame DEF TypeInv, StoreInv
    <2>3. WorkerInv'
      BY <1>0, <2>1, WorkerFrame DEF TypeInv
    <2>4. QED
      BY <2>2, <2>3 DEF TypeInv
  <1>2. CASE \E e \in Events : Backfill(e) \/ \E t \in FilingTimes : File(e, t)
    BY <1>2, TypeBackfill, TypeFile
  <1>3. CASE ResetRead
    <2>1. /\ now' = now /\ now' >= now /\ UNCHANGED worker
          /\ tape' = tape /\ filed' = filed /\ rows' = rows /\ cli' = rows
          /\ faults' = faults + 1 /\ alerted' = alerted /\ cut' = cut /\ crossed' = crossed
      BY <1>0, <1>3 DEF ResetRead, market, table
    <2>2. StoreInv'
      BY <2>1 DEF TypeInv, StoreInv, Known, RowsAt
    <2>3. WorkerInv'
      BY <1>0, <2>1, WorkerFrame DEF TypeInv
    <2>4. QED
      BY <2>2, <2>3 DEF TypeInv
  <1>4. CASE ResetCommit
    BY <1>4, TypeReset
  <1>5. CASE \E p \in Procs : Step(p) \/ FetchFails(p) \/ Abort(p) \/ Crash(p)
    BY <1>5, TypeTick, TypeBegin, TypeMeasure, TypeEmit, TypeFetchFails, TypeCrash DEF Step
  <1>6. CASE UNCHANGED vars
    <2>1. /\ now' = now /\ now' >= now /\ UNCHANGED worker
          /\ tape' = tape /\ filed' = filed /\ rows' = rows /\ cli' = cli
          /\ faults' = faults /\ alerted' = alerted /\ cut' = cut /\ crossed' = crossed
      BY <1>0, <1>6 DEF vars, market, table, counts
    <2>2. StoreInv'
      BY <2>1, StoreFrame DEF TypeInv, StoreInv
    <2>3. WorkerInv'
      BY <1>0, <2>1, WorkerFrame DEF TypeInv
    <2>4. QED
      BY <2>2, <2>3 DEF TypeInv
  <1>7. QED
    BY <1>1, <1>2, <1>3, <1>4, <1>5, <1>6 DEF Next

-----------------------------------------------------------------------------
(* Sane rows, action by action.                                            *)

\* The tape is one behaviour's for good, so what a row promised it still does.
LEMMA RowPrime ==
  ASSUME tape' = tape, NEW e \in Events, NEW i \in Ids,
         Sane(filed'[e], i, rows'[e][i])
  PROVE  Sane(filed[e], i, rows[e][i])'
  BY DEF Sane, OpenDue, LaterSession, RightTrade

LEMMA SessionPrime ==
  ASSUME tape' = tape, NEW p \in Procs, NEW i \in Ids,
         Sane(filed'[event'[p]], i, loaded'[p][i]),
         Sane(filed'[event'[p]], i, working'[p][i])
  PROVE  /\ Sane(filed[event[p]], i, loaded[p][i])'
         /\ Sane(filed[event[p]], i, working[p][i])'
  <1>1. Sane(filed[event[p]], i, loaded[p][i])'
    BY DEF Sane, OpenDue, LaterSession, RightTrade
  <1>2. Sane(filed[event[p]], i, working[p][i])'
    BY DEF Sane, OpenDue, LaterSession, RightTrade
  <1>3. QED
    BY <1>1, <1>2

LEMMA SaneRowsPrime ==
  ASSUME tape' = tape, NEW e \in Events,
         \A i \in Ids : Sane(filed'[e], i, rows'[e][i])
  PROVE  SaneRows(e)'
  <1>1. \A i \in Ids : Sane(filed[e], i, rows[e][i])'
    BY RowPrime
  <1>2. QED
    BY <1>1 DEF SaneRows

LEMMA NotNoRows ==
  ASSUME NEW e \in Events, NEW i \in Ids, rows[e][i].status # "none"
  PROVE  rows[e] # NoRows
  BY DEF NoRows, NewRow

\* What a step does to the rows outside `crossed`.
Steady ==
  /\ tape' = tape /\ crossed \subseteq crossed'
  /\ \A e \in Events \ crossed' :
       \/ rows'[e] = rows[e] /\ filed'[e] = filed[e]
       \/ rows'[e] = NoRows /\ filed[e] = Never
       \/ \A i \in Ids : Sane(filed'[e], i, rows'[e][i])

LEMMA RowsSaneStep ==
  ASSUME RowsSane, Steady
  PROVE  RowsSane'
  <1> SUFFICES ASSUME NEW e \in Events \ crossed', rows'[e] # NoRows
               PROVE  SaneRows(e)'
    BY DEF RowsSane
  <1>1. CASE rows'[e] = rows[e] /\ filed'[e] = filed[e]
    <2>1. e \in Events \ crossed /\ rows[e] # NoRows
      BY <1>1 DEF Steady
    <2>2. \A i \in Ids : Sane(filed'[e], i, rows'[e][i])
      BY <1>1, <2>1 DEF RowsSane, SaneRows
    <2>3. QED
      BY <2>2, SaneRowsPrime DEF Steady
  <1>2. CASE \A i \in Ids : Sane(filed'[e], i, rows'[e][i])
    BY <1>2, SaneRowsPrime DEF Steady
  <1>3. QED
    BY <1>1, <1>2 DEF Steady

LEMMA BatchSaneStep ==
  ASSUME TypeInv, NEW q \in Procs, BatchSane(q), Steady, batch'[q] \subseteq batch[q]
  PROVE  BatchSane(q)'
  <1> SUFFICES ASSUME NEW e \in Events \ crossed', NEW i \in Ids, <<e, i>> \in batch'[q]
               PROVE  SaneRows(e)'
    BY DEF BatchSane
  <1>1. e \in Events \ crossed /\ SaneRows(e) /\ filed[e] # Never
    BY DEF BatchSane, Steady, TypeInv, WorkerInv, ProcInv
  <1>2. CASE rows'[e] = rows[e] /\ filed'[e] = filed[e]
    <2>1. \A j \in Ids : Sane(filed'[e], j, rows'[e][j])
      BY <1>1, <1>2 DEF SaneRows
    <2>2. QED
      BY <2>1, SaneRowsPrime DEF Steady
  <1>3. CASE \A j \in Ids : Sane(filed'[e], j, rows'[e][j])
    BY <1>3, SaneRowsPrime DEF Steady
  <1>4. QED
    BY <1>1, <1>2, <1>3 DEF Steady

LEMMA FetchSaneStep ==
  ASSUME TypeInv, NEW q \in Procs, FetchSane(q), Steady,
         pc'[q] = "fetch" =>
           /\ pc[q] = "fetch" /\ event'[q] = event[q] /\ batch'[q] = batch[q]
           /\ loaded'[q] = loaded[q] /\ working'[q] = working[q]
           /\ filed'[event[q]] = filed[event[q]]
           /\ event[q] \notin crossed' => \A i \in Ids :
                rows[event[q]][i].kind = "open" => rows'[event[q]][i].kind = "open"
  PROVE  FetchSane(q)'
  <1> SUFFICES ASSUME pc'[q] = "fetch", event'[q] \notin crossed'
               PROVE  \A i \in Ids :
                        /\ Sane(filed[event[q]], i, loaded[q][i])'
                        /\ Sane(filed[event[q]], i, working[q][i])'
                        /\ Kept(loaded[q][i], working[q][i])'
                        /\ loaded'[q][i].kind = "open" => rows'[event'[q]][i].kind = "open"
                        /\ i \in Claims(event[q], q)' /\ Pending(working[q][i])'
                             /\ working'[q][i].kind \in Intraday
                             => InHours(filed[event[q]])'
    BY DEF FetchSane
  <1> TAKE i \in Ids
  <1>1. /\ pc[q] = "fetch" /\ event[q] \notin crossed
        /\ event'[q] = event[q] /\ batch'[q] = batch[q]
        /\ loaded'[q] = loaded[q] /\ working'[q] = working[q]
        /\ filed'[event[q]] = filed[event[q]]
    BY DEF Steady
  <1>2. /\ Sane(filed[event[q]], i, loaded[q][i]) /\ Sane(filed[event[q]], i, working[q][i])
        /\ Kept(loaded[q][i], working[q][i])
        /\ loaded[q][i].kind = "open" => rows[event[q]][i].kind = "open"
        /\ i \in Claims(event[q], q) /\ Pending(working[q][i])
             /\ working[q][i].kind \in Intraday => InHours(filed[event[q]])
    BY <1>1 DEF FetchSane
  <1>3. Sane(filed[event[q]], i, loaded[q][i])' /\ Sane(filed[event[q]], i, working[q][i])'
    BY <1>1, <1>2, SessionPrime DEF Steady
  <1>4. Kept(loaded[q][i], working[q][i])'
    BY <1>1, <1>2 DEF Kept, SameOrOpen
  <1>5. loaded'[q][i].kind = "open" => rows'[event'[q]][i].kind = "open"
    BY <1>1, <1>2
  <1>6. /\ Claims(event[q], q)' = Claims(event[q], q)
        /\ Pending(working[q][i])' <=> Pending(working[q][i])
        /\ InHours(filed[event[q]])' <=> InHours(filed[event[q]])
    BY <1>1 DEF Claims, Pending, InHours
  <1>7. i \in Claims(event[q], q)' /\ Pending(working[q][i])'
             /\ working'[q][i].kind \in Intraday => InHours(filed[event[q]])'
    BY <1>1, <1>2, <1>6
  <1>8. QED
    BY <1>3, <1>4, <1>5, <1>7

\* A session that ends, having written rs.
LEMMA SaneLeave ==
  ASSUME TypeInv, SaneInv, NEW p \in Procs, NEW e \in Events,
         NEW to \in {"next", "emit"}, Leave(p, e, to), NEW rs,
         tape' = tape, filed' = filed, crossed' = crossed,
         rows' = [rows EXCEPT ![e] = rs],
         e \notin crossed => \/ rs = rows[e]
                             \/ \A i \in Ids :
                                  /\ Sane(filed[e], i, rs[i])
                                  /\ rows[e][i].kind = "open" => rs[i].kind = "open"
  PROVE  SaneInv'
  <1>1. /\ rows'[e] = rs /\ \A d \in Events \ {e} : rows'[d] = rows[d]
        /\ WorkerTypes
    BY DEF TypeInv, StoreInv, WorkerInv
  <1>2. Steady
    <2> SUFFICES ASSUME NEW d \in Events \ crossed
                 PROVE  \/ rows'[d] = rows[d] /\ filed'[d] = filed[d]
                        \/ \A i \in Ids : Sane(filed'[d], i, rows'[d][i])
      BY DEF Steady
    <2>1. CASE d = e
      BY <2>1, <1>1
    <2>2. CASE d # e
      BY <2>2, <1>1
    <2>3. QED
      BY <2>1, <2>2
  <1>3. RowsSane'
    BY <1>2, RowsSaneStep DEF SaneInv
  <1>4. ASSUME NEW q \in Procs PROVE BatchSane(q)' /\ FetchSane(q)'
    <2>1. CASE q = p
      <3>1. batch'[p] \subseteq batch[p] /\ pc'[p] # "fetch"
        <4>1. CASE to = "next"
          BY <4>1, <1>1 DEF Leave, WorkerTypes
        <4>2. CASE to = "emit"
          BY <4>2, <1>1 DEF Leave, WorkerTypes
        <4>3. QED
          BY <4>1, <4>2
      <3>2. QED
        BY <2>1, <3>1, <1>2, BatchSaneStep, FetchSaneStep DEF SaneInv
    <2>2. CASE q # p
      <3>1. /\ batch'[q] = batch[q] /\ pc'[q] = pc[q]
            /\ event'[q] = event[q] /\ loaded'[q] = loaded[q] /\ working'[q] = working[q]
        BY <2>2, <1>1 DEF Leave, WorkerTypes
      <3>2. BatchSane(q)'
        BY <3>1, <1>2, BatchSaneStep DEF SaneInv
      <3>3. ASSUME pc'[q] = "fetch", event[q] \notin crossed', NEW i \in Ids,
                   rows[event[q]][i].kind = "open"
            PROVE  rows'[event[q]][i].kind = "open"
        <4>1. event[q] \in Events
          BY <3>1, <3>3, Fetching
        <4>2. CASE event[q] = e
          BY <4>2, <3>3, <1>1
        <4>3. CASE event[q] # e
          BY <4>1, <4>3, <3>3, <1>1
        <4>4. QED
          BY <4>2, <4>3
      <3>4. FetchSane(q)'
        BY <3>1, <3>3, <1>2, FetchSaneStep DEF SaneInv
      <3>5. QED
        BY <3>2, <3>4
    <2>3. QED
      BY <2>1, <2>2
  <1>5. QED
    BY <1>3, <1>4 DEF SaneInv

\* A step that leaves the rows and the other processes alone.
LEMMA SaneFrame ==
  ASSUME TypeInv, SaneInv, tape' = tape, filed' = filed, crossed' = crossed, rows' = rows,
         NEW S \in SUBSET Procs,
         \A q \in Procs \ S :
           /\ batch'[q] \subseteq batch[q]
           /\ pc'[q] = "fetch" => /\ pc[q] = "fetch" /\ event'[q] = event[q]
                                  /\ batch'[q] = batch[q] /\ loaded'[q] = loaded[q]
                                  /\ working'[q] = working[q],
         \A q \in S : BatchSane(q)' /\ FetchSane(q)'
  PROVE  SaneInv'
  <1>1. Steady
    BY DEF Steady
  <1>2. RowsSane'
    BY <1>1, RowsSaneStep DEF SaneInv
  <1>3. ASSUME NEW q \in Procs \ S PROVE BatchSane(q)' /\ FetchSane(q)'
    <2>1. BatchSane(q) /\ FetchSane(q)
      BY DEF SaneInv
    <2>2. BatchSane(q)'
      BY <2>1, <1>1, BatchSaneStep
    <2>3. FetchSane(q)'
      BY <2>1, <1>1, FetchSaneStep
    <2>4. QED
      BY <2>2, <2>3
  <1>4. QED
    BY <1>2, <1>3 DEF SaneInv

LEMMA ClaimedSane ==
  ASSUME SaneInv, NEW p \in Procs, NEW e \in Events \ crossed, Claims(e, p) # {}
  PROVE  SaneRows(e)
  BY DEF SaneInv, BatchSane, Claims

LEMMA SaneInit ==
  Init => SaneInv
  BY DEF Init, SaneInv, RowsSane, BatchSane, FetchSane

LEMMA SaneTick ==
  ASSUME TypeInv, SaneInv, NEW p \in Procs, Tick(p)
  PROVE  SaneInv'
  <1>1. PICK claim \in SUBSET {k \in Events \X Ids : Pending(RowOf(k))} :
          batch' = [batch EXCEPT ![p] = claim]
    BY DEF Tick
  <1>2. /\ pc' = [pc EXCEPT ![p] = "next"] /\ tape' = tape /\ filed' = filed
        /\ rows' = rows /\ crossed' = crossed
        /\ event' = event /\ loaded' = loaded /\ working' = working
    BY DEF Tick, market, table, counts
  <1>3. WorkerTypes
    BY DEF TypeInv, WorkerInv
  <1>4. pc'[p] = "next" /\ batch'[p] = claim
    BY <1>1, <1>2, <1>3 DEF WorkerTypes
  <1>5. BatchSane(p)'
    <2> SUFFICES ASSUME NEW e \in Events \ crossed', NEW i \in Ids, <<e, i>> \in batch'[p]
                 PROVE  SaneRows(e)'
      BY DEF BatchSane
    <2>1. rows[e][i].status = "pending"
      BY <1>4 DEF Pending, RowOf
    <2>2. rows[e] # NoRows
      BY <2>1, NotNoRows
    <2>3. SaneRows(e)
      BY <2>2, <1>2 DEF SaneInv, RowsSane
    <2>4. \A j \in Ids : Sane(filed'[e], j, rows'[e][j])
      BY <2>3, <1>2 DEF SaneRows
    <2>5. QED
      BY <2>4, <1>2, SaneRowsPrime
  <1>6. FetchSane(p)'
    BY <1>4 DEF FetchSane
  <1>7. \A q \in Procs \ {p} :
           /\ batch'[q] = batch[q] /\ pc'[q] = pc[q]
           /\ event'[q] = event[q] /\ loaded'[q] = loaded[q] /\ working'[q] = working[q]
    BY <1>1, <1>2, <1>3 DEF WorkerTypes
  <1>8. QED
    <2> DEFINE S == {p}
    <2>1. S \in SUBSET Procs /\ \A q \in S : BatchSane(q)' /\ FetchSane(q)'
      BY <1>5, <1>6
    <2>2. QED
      BY <2>1, <1>2, <1>7, SaneFrame

LEMMA SaneBegin ==
  ASSUME TypeInv, SaneInv, NEW p \in Procs, NEW e \in Events, Begin(p, e)
  PROVE  SaneInv'
  <1> DEFINE t == filed[e]
             ids == Claims(e, p)
             settled == BeforeFetch(t, rows[e], ids)
  <1>1. /\ tape' = tape /\ filed' = filed /\ crossed' = crossed
        /\ Claims(e, p) # {} /\ filed[e] # Never
    BY Claimed DEF Begin, market, counts
  <1>2. /\ t \in FilingTimes /\ rows[e] \in [Ids -> Row] /\ tape \in Tapes
    BY <1>1, StoredRows DEF TypeInv, StoreInv
  <1>3. ASSUME e \notin crossed, NEW i \in Ids
        PROVE  /\ Sane(t, i, rows[e][i]) /\ Sane(t, i, settled[i])
               /\ Kept(rows[e][i], settled[i])
               /\ i \in ids /\ Pending(settled[i]) /\ settled[i].kind \in Intraday
                    => InHours(t)
    <2>1. \A j \in Ids : Sane(t, j, rows[e][j])
      BY <1>1, <1>3, ClaimedSane DEF SaneRows
    <2> HIDE DEF t, ids
    <2>2. QED
      BY <1>2, <1>3, <2>1, BeforeFetchSane
  <1>4. \/ rows' = [rows EXCEPT ![e] = settled] /\ Leave(p, e, "next")
        \/ /\ loaded' = [loaded EXCEPT ![p] = rows[e]]
           /\ working' = [working EXCEPT ![p] = settled]
           /\ event' = [event EXCEPT ![p] = e]
           /\ pc' = [pc EXCEPT ![p] = "fetch"]
           /\ UNCHANGED <<rows, clock, batch, locked>>
    BY DEF Begin
  <1> HIDE DEF settled
  <1>5. CASE rows' = [rows EXCEPT ![e] = settled] /\ Leave(p, e, "next")
    <2>1. ASSUME e \notin crossed, NEW i \in Ids
          PROVE  /\ Sane(filed[e], i, settled[i])
                 /\ rows[e][i].kind = "open" => settled[i].kind = "open"
      BY <1>3, <2>1 DEF Kept, SameOrOpen
    <2>2. QED
      BY <1>5, <1>1, <2>1, SaneLeave
  <1>6. CASE /\ loaded' = [loaded EXCEPT ![p] = rows[e]]
             /\ working' = [working EXCEPT ![p] = settled]
             /\ event' = [event EXCEPT ![p] = e]
             /\ pc' = [pc EXCEPT ![p] = "fetch"]
             /\ UNCHANGED <<rows, clock, batch, locked>>
    <2>1. WorkerTypes
      BY DEF TypeInv, WorkerInv
    <2>2. event'[p] = e /\ loaded'[p] = rows[e] /\ working'[p] = settled
      BY <1>6, <2>1 DEF WorkerTypes
    <2>3. FetchSane(p)'
      <3> SUFFICES ASSUME e \notin crossed
                   PROVE  \A i \in Ids :
                            /\ Sane(filed[event[p]], i, loaded[p][i])'
                            /\ Sane(filed[event[p]], i, working[p][i])'
                            /\ Kept(loaded[p][i], working[p][i])'
                            /\ loaded'[p][i].kind = "open"
                                 => rows'[event'[p]][i].kind = "open"
                            /\ i \in Claims(event[p], p)' /\ Pending(working[p][i])'
                                 /\ working'[p][i].kind \in Intraday
                                 => InHours(filed[event[p]])'
        BY <1>1, <2>2 DEF FetchSane
      <3> TAKE i \in Ids
      <3>1. /\ Sane(filed[event[p]], i, loaded[p][i])'
            /\ Sane(filed[event[p]], i, working[p][i])'
        BY <1>1, <1>3, <2>2, SessionPrime
      <3>2. Kept(loaded[p][i], working[p][i])'
        BY <1>3, <2>2 DEF Kept, SameOrOpen
      <3>3. loaded'[p][i].kind = "open" => rows'[event'[p]][i].kind = "open"
        BY <1>6, <2>2
      <3>4. /\ Claims(event[p], p)' = Claims(e, p)
            /\ Pending(working[p][i])' <=> Pending(settled[i])
            /\ InHours(filed[event[p]])' <=> InHours(filed[e])
        BY <1>1, <1>6, <2>2 DEF Claims, Pending, InHours
      <3>5. i \in Claims(event[p], p)' /\ Pending(working[p][i])'
              /\ working'[p][i].kind \in Intraday => InHours(filed[event[p]])'
        BY <1>3, <2>2, <3>4
      <3>6. QED
        BY <3>1, <3>2, <3>3, <3>5
    <2>4. BatchSane(p)'
      <3>1. Steady
        BY <1>1, <1>6 DEF Steady
      <3>2. QED
        BY <1>6, <3>1, BatchSaneStep DEF SaneInv
    <2>5. \A q \in Procs \ {p} :
             /\ batch'[q] = batch[q] /\ pc'[q] = pc[q]
             /\ event'[q] = event[q] /\ loaded'[q] = loaded[q] /\ working'[q] = working[q]
      BY <1>6, <2>1 DEF WorkerTypes
    <2>6. QED
      <3> DEFINE S == {p}
      <3>1. S \in SUBSET Procs /\ \A q \in S : BatchSane(q)' /\ FetchSane(q)'
        BY <2>3, <2>4
      <3>2. QED
        BY <3>1, <1>1, <1>6, <2>5, SaneFrame
  <1>7. QED
    BY <1>4, <1>5, <1>6

LEMMA SaneMeasure ==
  ASSUME TypeInv, SaneInv, NEW p \in Procs, Measure(p)
  PROVE  SaneInv'
  <1> DEFINE e == event[p]
             t == filed[e]
             rs == working[p]
             ids == Claims(e, p)
  <1>1. pc[p] = "fetch" /\ tape' = tape /\ filed' = filed /\ crossed' = crossed
    BY DEF Measure, market, counts
  <1>2. PICK after \in Outcomes(p) :
          /\ rows' = [rows EXCEPT ![e] = Merge(@, loaded[p], after)]
          /\ Leave(p, e, IF Completed(p, after) THEN "emit" ELSE "next")
    BY DEF Measure
  <1>3. /\ e \in Events /\ t \in FilingTimes /\ tape \in Tapes /\ rs \in RowsAt(t)
        /\ clock[p] \in Nat /\ now \in Nat /\ ids # {}
    BY <1>1, Fetching DEF TypeInv, WorkerInv, ProcInv
  <1>4. PICK bars \in SUBSET Shown, days \in SUBSET Traded :
          /\ Stretch(t, bars) /\ after = Settled(t, rs, ids, clock[p], bars, days)
    BY <1>1, Outcome
  <1> DEFINE merged == Merge(rows[e], loaded[p], after)
             to == IF Completed(p, after) THEN "emit" ELSE "next"
  <1>5. ASSUME e \notin crossed, NEW i \in Ids
        PROVE  /\ Sane(t, i, merged[i])
               /\ rows[e][i].kind = "open" => merged[i].kind = "open"
    <2>1. \A j \in Ids :
            /\ Sane(t, j, loaded[p][j]) /\ Sane(t, j, rs[j])
            /\ Kept(loaded[p][j], rs[j])
            /\ loaded[p][j].kind = "open" => rows[e][j].kind = "open"
            /\ j \in ids /\ Pending(rs[j]) /\ rs[j].kind \in Intraday => InHours(t)
      BY <1>1, <1>5 DEF SaneInv, FetchSane
    <2>2. Sane(t, i, rows[e][i])
      BY <1>3, <1>5, ClaimedSane DEF SaneRows
    <2> HIDE DEF e, t, rs, ids
    <2>3. Sane(t, i, after[i]) /\ Moved(rs[i], after[i])
      <3>1. \A j \in Ids :
              /\ Sane(t, j, rs[j])
              /\ j \in ids /\ Pending(rs[j]) /\ rs[j].kind \in Intraday => InHours(t)
        BY <2>1
      <3>2. QED
        BY <3>1, <1>3, <1>4, MeasuredIs
    <2>4. Moved(loaded[p][i], after[i])
      BY <2>1, <2>3, KeptThenMoved
    <2>5. merged[i] = MergeRow(rows[e][i], loaded[p][i], after[i])
      BY DEF Merge
    <2>6. QED
      BY <2>1, <2>2, <2>3, <2>4, <2>5, <1>3, MergeSane
  <1>6. to \in {"next", "emit"} /\ Leave(p, e, to)
    BY <1>2
  <1>7. rows' = [rows EXCEPT ![e] = merged]
    BY <1>2
  <1> HIDE DEF e, merged, to
  <1>8. QED
    BY <1>1, <1>3, <1>5, <1>6, <1>7, SaneLeave

LEMMA SaneFetchFails ==
  ASSUME TypeInv, SaneInv, NEW p \in Procs, FetchFails(p)
  PROVE  SaneInv'
  <1> DEFINE e == event[p]
             counted == [i \in Ids |-> IF i \in Claims(e, p) THEN CountFailure(rows[e][i])
                                                             ELSE rows[e][i]]
  <1>1. /\ pc[p] = "fetch" /\ tape' = tape /\ filed' = filed /\ crossed' = crossed
        /\ rows' = [rows EXCEPT ![e] = counted] /\ Leave(p, e, "next")
    BY DEF FetchFails, market
  <1>2. /\ e \in Events /\ rows[e] \in RowsAt(filed[e])
        /\ Claims(e, p) # {}
    BY <1>1, Fetching DEF TypeInv, WorkerInv, ProcInv
  <1>3. ASSUME e \notin crossed, NEW i \in Ids
        PROVE  /\ Sane(filed[e], i, counted[i])
               /\ rows[e][i].kind = "open" => counted[i].kind = "open"
    <2>1. Sane(filed[e], i, rows[e][i]) /\ rows[e][i] \in Row
      BY <1>2, <1>3, ClaimedSane DEF SaneRows, RowsAt
    <2>2. /\ counted[i].kind = rows[e][i].kind /\ counted[i].due = rows[e][i].due
          /\ counted[i].at = rows[e][i].at
          /\ counted[i].status \in {rows[e][i].status, "failed"}
      BY <2>1, CountFailureIs
    <2> HIDE DEF e, counted
    <2>3. Sane(filed[e], i, counted[i])
      BY <2>1, <2>2 DEF Sane, RightTrade
    <2>4. QED
      BY <2>2, <2>3
  <1> HIDE DEF e, counted
  <1>4. QED
    BY <1>1, <1>2, <1>3, SaneLeave

LEMMA SaneEmit ==
  ASSUME TypeInv, SaneInv, NEW p \in Procs, Emit(p) \/ TriggerViewAlerts(p) \/ Abort(p)
  PROVE  SaneInv'
  <1>1. /\ pc[p] \in {"fetch", "emit", "alert"} /\ crossed' = crossed
        /\ tape' = tape /\ filed' = filed /\ rows' = rows
    BY DEF Emit, TriggerViewAlerts, Abort, market, table, counts
  <1>2. \/ Leave(p, event[p], "next")
        \/ /\ pc[p] = "emit" /\ pc' = [pc EXCEPT ![p] = "alert"]
           /\ UNCHANGED <<clock, batch, locked, event, loaded, working>>
    BY DEF Emit, TriggerViewAlerts, Abort
  <1>3. event[p] \in Events /\ WorkerTypes
    BY <1>1 DEF TypeInv, WorkerInv, ProcInv
  <1>4. CASE Leave(p, event[p], "next")
    <2>1. rows' = [rows EXCEPT ![event[p]] = rows[event[p]]]
      BY <1>1, <1>3 DEF TypeInv, StoreInv
    <2>2. QED
      BY <2>1, <1>1, <1>3, <1>4, SaneLeave
  <1>5. CASE /\ pc[p] = "emit" /\ pc' = [pc EXCEPT ![p] = "alert"]
             /\ UNCHANGED <<clock, batch, locked, event, loaded, working>>
    <2>1. \A q \in Procs : pc'[q] = "fetch" => pc[q] = "fetch"
      BY <1>3, <1>5 DEF WorkerTypes
    <2> DEFINE S == {}
    <2>2. S \in SUBSET Procs /\ \A q \in S : BatchSane(q)' /\ FetchSane(q)'
      OBVIOUS
    <2>3. QED
      BY <2>1, <2>2, <1>1, <1>5, SaneFrame
  <1>6. QED
    BY <1>2, <1>4, <1>5

LEMMA SaneCrash ==
  ASSUME TypeInv, SaneInv, NEW p \in Procs, Crash(p)
  PROVE  SaneInv'
  <1>1. /\ crossed' = crossed /\ tape' = tape /\ filed' = filed /\ rows' = rows
        /\ pc' = [pc EXCEPT ![p] = "sleep"] /\ batch' = [batch EXCEPT ![p] = {}]
        /\ event' = [event EXCEPT ![p] = NoEvent]
        /\ loaded' = [loaded EXCEPT ![p] = NoRows]
        /\ working' = [working EXCEPT ![p] = NoRows]
        /\ WorkerTypes
    BY DEF Crash, market, table, TypeInv, WorkerInv
  <1>2. pc'[p] = "sleep" /\ batch'[p] = {}
    BY <1>1 DEF WorkerTypes
  <1>3. \A q \in Procs \ {p} :
           /\ batch'[q] = batch[q] /\ pc'[q] = pc[q]
           /\ event'[q] = event[q] /\ loaded'[q] = loaded[q] /\ working'[q] = working[q]
    BY <1>1 DEF WorkerTypes
  <1>4. BatchSane(p)' /\ FetchSane(p)'
    BY <1>2 DEF BatchSane, FetchSane
  <1> DEFINE S == {p}
  <1>5. S \in SUBSET Procs /\ \A q \in S : BatchSane(q)' /\ FetchSane(q)'
    BY <1>4
  <1>6. QED
    BY <1>1, <1>3, <1>5, SaneFrame

LEMMA NewRowSane ==
  ASSUME NEW t, NEW i \in Ids
  PROVE  Sane(t, i, NewRow(i, t + Delay[i], "pending"))
  <1>1. i # "open"
    BY Constants
  <1>2. QED
    BY <1>1 DEF Sane, NewRow, RightTrade

\* The subscriber and backfill_reactions write an event that had no rows.
LEMMA SaneFile ==
  ASSUME TypeInv, SaneInv, NEW e \in Events,
         Backfill(e) \/ \E t \in FilingTimes : File(e, t)
  PROVE  SaneInv'
  <1>1. PICK t \in FilingTimes :
          /\ tape' = tape /\ crossed' = crossed /\ UNCHANGED worker
          /\ rows[e] = NoRows
          /\ \/ filed[e] # Never /\ filed[e] = t /\ filed' = filed
             \/ filed[e] = Never /\ filed' = [filed EXCEPT ![e] = t]
          /\ \/ rows' = [rows EXCEPT ![e] = Scheduled(t)]
             \/ filed[e] = Never /\ rows' = rows
    <2>1. CASE Backfill(e)
      BY <2>1, StoredRows DEF Backfill, market, counts, TypeInv
    <2>2. CASE \E t \in FilingTimes : File(e, t)
      BY <2>2 DEF File, market, TypeInv, StoreInv, Known
    <2>3. QED
      BY <2>1, <2>2
  <1>2. /\ filed'[e] = t /\ \A d \in Events \ {e} : filed'[d] = filed[d]
        /\ \A d \in Events \ {e} : rows'[d] = rows[d]
        /\ \/ rows'[e] = Scheduled(t)
           \/ rows'[e] = NoRows /\ filed[e] = Never
    BY <1>1 DEF TypeInv, StoreInv
  <1>3. \A i \in Ids : Sane(t, i, Scheduled(t)[i])
    BY NewRowSane DEF Scheduled
  <1>4. Steady
    <2> SUFFICES ASSUME NEW d \in Events \ crossed
                 PROVE  \/ rows'[d] = rows[d] /\ filed'[d] = filed[d]
                        \/ rows'[d] = NoRows /\ filed[d] = Never
                        \/ \A i \in Ids : Sane(filed'[d], i, rows'[d][i])
      BY <1>1 DEF Steady
    <2>1. CASE d = e
      BY <2>1, <1>2, <1>3
    <2>2. CASE d # e
      BY <2>2, <1>2
    <2>3. QED
      BY <2>1, <2>2
  <1>5. /\ pc' = pc /\ batch' = batch /\ event' = event
        /\ loaded' = loaded /\ working' = working
    BY <1>1 DEF worker
  <1>6. ASSUME NEW q \in Procs PROVE BatchSane(q)' /\ FetchSane(q)'
    <2>1. BatchSane(q)'
      BY <1>4, <1>5, BatchSaneStep DEF SaneInv
    <2>2. ASSUME pc[q] = "fetch", event[q] \notin crossed
          PROVE  event[q] # e
      <3>1. event[q] \in Events /\ Claims(event[q], q) # {}
        BY <2>2 DEF TypeInv, WorkerInv, ProcInv
      <3>2. SaneRows(event[q])
        BY <2>2, <3>1, ClaimedSane
      <3>3. "5m" \in Ids
        BY Constants
      <3>4. rows[event[q]]["5m"].status # "none"
        BY <3>2, <3>3 DEF SaneRows, Sane
      <3>5. QED
        BY <3>1, <3>3, <3>4, <1>1, NotNoRows
    <2>3. ASSUME pc[q] = "fetch" PROVE event[q] \in Events /\ filed[event[q]] # Never
      <3>1. event[q] \in Events /\ filed[event[q]] \in FilingTimes
        BY <2>3, Fetching
      <3>2. QED
        BY <3>1, Constants
    <2>4. ASSUME pc[q] = "fetch" PROVE filed'[event[q]] = filed[event[q]]
      BY <2>3, <2>4, <1>1, <1>2
    <2>5. ASSUME pc[q] = "fetch", event[q] \notin crossed
          PROVE  rows'[event[q]] = rows[event[q]]
      BY <2>2, <2>3, <2>5, <1>2
    <2>6. FetchSane(q)'
      BY <1>1, <1>4, <1>5, <2>4, <2>5, FetchSaneStep DEF SaneInv
    <2>7. QED
      BY <2>1, <2>6
  <1>7. RowsSane'
    BY <1>4, RowsSaneStep DEF SaneInv
  <1>8. QED
    BY <1>6, <1>7 DEF SaneInv

\* A reset no tick crosses leaves an event's rows as it made them.
LEMMA ResetSane ==
  ASSUME NEW t, NEW rs, \A i \in Ids : Sane(t, i, rs[i]), NEW i \in Ids
  PROVE  Sane(t, i, ResetRows(t, rs)[i])
  <1> DEFINE has5m == \E j \in Ids : rs[j].kind = "5m"
             again(r) == IF r.kind = "open" /\ ~has5m THEN "5m" ELSE r.kind
  <1>1. again(rs[i]) \in Intraday => again(rs[i]) = i
    <2>1. CASE rs[i].kind = i
      BY <2>1, Constants
    <2>2. CASE i = "5m" /\ rs[i].kind = "open"
      BY <2>2, Constants
    <2>3. QED
      BY <2>1, <2>2 DEF Sane
  <1>2. ResetRows(t, rs)[i] = IF rs[i].status # "none" /\ again(rs[i]) \in Intraday
                              THEN NewRow(again(rs[i]), t + Delay[again(rs[i])], "pending")
                              ELSE rs[i]
    BY DEF ResetRows
  <1> HIDE DEF again
  <1>3. QED
    BY <1>1, <1>2, NewRowSane

LEMMA MergeAll ==
  ASSUME NEW stored, NEW after \in [Ids -> Row]
  PROVE  Merge(stored, stored, after) = after
  <1>1. ASSUME NEW i \in Ids PROVE MergeRow(stored[i], stored[i], after[i]) = after[i]
    <2>1. after[i] \in Row
      OBVIOUS
    <2>2. QED
      BY <2>1 DEF MergeRow, Column, Row
  <1>2. QED
    BY <1>1 DEF Merge

LEMMA SaneReset ==
  ASSUME TypeInv, SaneInv, ResetCommit
  PROVE  SaneInv'
  <1>1. /\ cli # Never /\ tape' = tape /\ filed' = filed /\ crossed \subseteq crossed'
        /\ rows' = [e \in Events |-> Merge(rows[e], cli[e], ResetRows(filed[e], cli[e]))]
        /\ \A e \in Events \ crossed' :
             rows[e] = cli[e] /\ \A p \in Procs : ~(pc[p] = "fetch" /\ event[p] = e)
        /\ UNCHANGED worker
    BY DEF ResetCommit, market
  <1>2. /\ pc' = pc /\ batch' = batch /\ event' = event
        /\ loaded' = loaded /\ working' = working
    BY <1>1 DEF worker
  <1>3. ASSUME NEW e \in Events \ crossed', rows[e] # NoRows
        PROVE  \A i \in Ids : Sane(filed'[e], i, rows'[e][i])
    <2>1. /\ filed[e] \in FilingTimes /\ rows[e] \in RowsAt(filed[e]) /\ rows[e] = cli[e]
          /\ \A i \in Ids : Sane(filed[e], i, rows[e][i])
      BY <1>1, <1>3, KnownRows DEF TypeInv, SaneInv, RowsSane, SaneRows
    <2> DEFINE new == ResetRows(filed[e], rows[e])
    <2>2. new \in [Ids -> Row]
      BY <2>1, ResetTyped DEF RowsAt
    <2>3. \A i \in Ids : Sane(filed[e], i, new[i])
      BY <2>1, ResetSane
    <2>4. rows'[e] = Merge(rows[e], rows[e], new)
      BY <1>1, <2>1
    <2> HIDE DEF new
    <2>5. rows'[e] = new
      BY <2>2, <2>4, MergeAll
    <2>6. QED
      BY <1>1, <2>3, <2>5
  <1>4. ASSUME NEW e \in Events \ crossed', rows[e] = NoRows
        PROVE  rows'[e] = rows[e]
    <2>1. rows'[e] = Merge(NoRows, NoRows, NoRows)
      BY <1>1, <1>4, ResetNothing
    <2>2. QED
      BY <2>1, <1>4, NoRowsTyped, MergeNothing
  <1>5. Steady
    BY <1>1, <1>3, <1>4 DEF Steady
  <1>6. ASSUME NEW q \in Procs PROVE BatchSane(q)' /\ FetchSane(q)'
    <2>1. BatchSane(q)'
      BY <1>2, <1>5, BatchSaneStep DEF SaneInv
    <2>2. pc[q] = "fetch" => event[q] \in Events /\ event[q] \in crossed'
      BY <1>1, Fetching
    <2>3. FetchSane(q)'
      BY <1>2, <2>2 DEF FetchSane
    <2>4. QED
      BY <2>1, <2>3
  <1>7. RowsSane'
    BY <1>5, RowsSaneStep DEF SaneInv
  <1>8. QED
    BY <1>6, <1>7 DEF SaneInv

LEMMA SaneStep ==
  TypeInv /\ SaneInv /\ [Next]_vars => SaneInv'
  <1> SUFFICES ASSUME TypeInv, SaneInv, [Next]_vars PROVE SaneInv'
    OBVIOUS
  <1>1. CASE Elapse \/ ResetRead \/ UNCHANGED vars
    <2>1. /\ crossed' = crossed /\ tape' = tape /\ filed' = filed /\ rows' = rows
          /\ pc' = pc /\ batch' = batch /\ event' = event
          /\ loaded' = loaded /\ working' = working
      BY <1>1 DEF Elapse, ResetRead, vars, market, table, worker, counts
    <2> DEFINE S == {}
    <2>2. S \in SUBSET Procs /\ \A q \in S : BatchSane(q)' /\ FetchSane(q)'
      OBVIOUS
    <2>3. QED
      BY <2>1, <2>2, SaneFrame
  <1>2. CASE \E e \in Events : Backfill(e) \/ \E t \in FilingTimes : File(e, t)
    BY <1>2, SaneFile
  <1>3. CASE ResetCommit
    BY <1>3, SaneReset
  <1>4. CASE \E p \in Procs : Step(p) \/ FetchFails(p) \/ Abort(p) \/ Crash(p)
    BY <1>4, SaneTick, SaneBegin, SaneMeasure, SaneEmit, SaneFetchFails, SaneCrash
       DEF Step
  <1>5. QED
    BY <1>1, <1>2, <1>3, <1>4 DEF Next

-----------------------------------------------------------------------------
(* The theorems.                                                           *)

\* Whatever fails, crashes or is reset, every variable keeps its type, and a
\* process past its claim works on an event some row of which it claimed.
THEOREM TypeCorrect ==
  Spec => []TypeOK
  <1>1. TypeInv => TypeOK
    BY Constants DEF TypeInv, StoreInv, WorkerInv, WorkerTypes, ProcInv, Known, TypeOK
  <1>2. QED
    BY <1>1, TypeInit, TypeStep, PTL DEF Spec

\* Whatever ticks, crashes, failures and resets do, no baseline is of a minute that
\* begins after the filing it is a baseline of (the close of the filing's own minute
\* may be: NoLookahead says why).
THEOREM BaselineNotLate ==
  Spec => []NoLookahead
  <1>1. TypeInv => NoLookahead
    <2> SUFFICES ASSUME TypeInv, NEW e \in Events, NEW i \in Ids, rows[e][i].base # Never
                 PROVE  Stamp(rows[e][i].base) <= filed[e]
      BY DEF NoLookahead
    <2>1. rows[e] # NoRows
      BY DEF NoRows, NewRow
    <2>2. rows[e] \in RowsAt(filed[e])
      BY <2>1, KnownRows DEF TypeInv
    <2>3. QED
      BY <2>2 DEF RowsAt
  <1>2. QED
    BY <1>1, TypeInit, TypeStep, PTL DEF Spec

LEMMA AlwaysSane ==
  Spec => [](TypeInv /\ SaneInv)
  BY TypeInit, TypeStep, SaneInit, SaneStep, PTL DEF Spec

\* Every reaction is read at the trade its label promises, for any calendar,
\* tape and number of processes, on every event a reset did not cross.
THEOREM TradeIsRight ==
  Spec => []ReadsRightTrade
  <1>1. SaneInv => ReadsRightTrade
    <2> SUFFICES ASSUME SaneInv, NEW e \in Events \ crossed, NEW i \in Ids,
                        rows[e][i].status = "done"
                 PROVE  RightTrade(filed[e], rows[e][i])
      BY DEF ReadsRightTrade
    <2>1. SaneRows(e)
      BY NotNoRows DEF SaneInv, RowsSane
    <2>2. QED
      BY <2>1 DEF SaneRows, Sane
  <1>2. QED
    BY <1>1, AlwaysSane, PTL

\* An event measured in its session never has an "open" row, and the other way
\* round, whichever ticks wrote the two.
THEOREM MeasuredInOneSession ==
  Spec => []OneSession
  <1>1. SaneInv => OneSession
    <2> SUFFICES ASSUME SaneInv, NEW e \in Events \ crossed, NEW i \in Ids, NEW j \in Ids,
                        rows[e][i].kind \in Intraday, rows[e][i].status = "done",
                        rows[e][j].kind = "open"
                 PROVE  FALSE
      BY DEF OneSession
    <2>1. Sane(filed[e], i, rows[e][i]) /\ Sane(filed[e], j, rows[e][j])
      BY NotNoRows DEF SaneInv, RowsSane, SaneRows
    <2>2. /\ InHours(filed[e]) /\ rows[e][i].at >= filed[e] /\ rows[e][i].at \in tape
          /\ RightTrade(filed[e], rows[e][i])
      BY <2>1 DEF Sane
    <2>3. Day(rows[e][i].at) = Day(filed[e])
      BY <2>2, Constants DEF RightTrade
    <2>4. LaterSession(filed[e])
      BY <2>1 DEF Sane
    <2>5. QED
      BY <2>2, <2>3, <2>4 DEF LaterSession
  <1>2. QED
    BY <1>1, AlwaysSane, PTL
=============================================================================
