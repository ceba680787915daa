------------------------------ MODULE WireLoop ------------------------------
(***************************************************************************)
(* The press-release loop over the newswires' own feeds (PR_SOURCE=rss:    *)
(* services/ingest/press_release/pipeline.py, pr_poll_loop, and feeds.py). *)
(* A cycle reads the wires in turn with conditional GETs, judges what is   *)
(* new under a cap on LLM calls, publishes, and saves; a failure backs its *)
(* wire off, a failed save at the end of the cycle ends the loop, which    *)
(* the supervisor of main.py starts again.                                 *)
(***************************************************************************)
EXTENDS EdgarLoop

CONSTANTS
  NWires,          \* enabled wires, read in order
  WireOf,          \* [Releases -> 1 .. NWires]
  SameText,        \* <<r, s>>: one release on two wires
  Cap,             \* _LLM_CAP_PER_CYCLE
  MaxAttempts      \* _MAX_LLM_ATTEMPTS

Wires == 1 .. NWires

VARIABLES
  wirePc,          \* "load", "idle", "wire", "judge", "save", "prints"
  wire,            \* the wire being read, NWires + 1 past the last
  batch,           \* releases of its answer not yet come to
  unread,          \* wires whose feed changed since it was last read
  blocked,         \* wires backing off
  budget,          \* LLM calls left in this cycle
  attempts,        \* llm_attempts, failures per release
  prints, printFile, \* fingerprints in memory and in pr_fingerprints.json
  tickers          \* the ticker index is there

wireVars == <<wirePc, wire, batch, unread, blocked, budget, attempts,
              prints, printFile, tickers>>

WireStart ==
  /\ wirePc = "load"
  /\ LoadSeen("pr_seen.json") /\ Unanswer("pr_seen.json")
  /\ prints' = printFile
  /\ attempts' = [r \in Releases |-> 0]
  /\ blocked' = {}
  /\ batch' = {}
  /\ wirePc' = "idle"
  /\ UNCHANGED <<wire, unread, budget, printFile, tickers,
                 old, published, evicted>>

BeginCycle ==
  /\ wirePc = "idle" /\ tickers
  /\ wirePc' = "wire" /\ wire' = 1
  /\ budget' = Cap
  /\ UNCHANGED <<batch, unread, blocked, attempts, prints, printFile, tickers,
                 storeVars>>

NewReleases == batch \ seen["pr_seen.json"]

\* On to the next wire, or to the saves that end the cycle.
NextWire ==
  /\ wire' = wire + 1
  /\ wirePc' = IF wire = NWires THEN "save" ELSE "wire"
  /\ batch' = {}

\* The wire backs off, or its feed answers 304: nothing to judge.
PassWire ==
  /\ wirePc = "wire"
  /\ wire \in blocked \/ wire \notin unread
  /\ NextWire
  /\ UNCHANGED <<unread, blocked, budget, attempts, prints, printFile, tickers,
                 storeVars>>

\* fetch_pr_url keeps the answer's validators, parse_wire_feed its items.
ReadWire ==
  /\ wirePc = "wire"
  /\ wire \in unread \ blocked
  /\ wirePc' = "judge"
  /\ batch' = Listed({r \in Releases : WireOf[r] = wire})
  /\ unread' = unread \ {wire}
  /\ UNCHANGED <<wire, blocked, budget, attempts, prints, printFile, tickers,
                 storeVars>>

\* parse_wire_feed cannot parse the answer and returns nothing: the validators
\* are kept all the same, and the wire does not back off.
ReadWireUnparsed ==
  /\ wirePc = "wire"
  /\ wire \in unread \ blocked
  /\ Fault
  /\ unread' = unread \ {wire}
  /\ NextWire
  /\ UNCHANGED <<blocked, budget, attempts, prints, printFile, tickers, seen, file,
                 mirror, belief, redated, down, old, published, unanswered, evicted>>

\* An exception of the wire's turn: it backs off, the next one is read.
BackOff == blocked' = blocked \cup {wire} /\ NextWire

ReadWireFails ==
  /\ wirePc = "wire"
  /\ wire \notin blocked
  /\ Fault
  /\ BackOff
  /\ UNCHANGED <<unread, budget, attempts, prints, printFile, tickers, seen, file,
                 mirror, belief, redated, down, old, published, unanswered, evicted>>

\* The release process_release is called for: the oldest, within the budget.
Judging(r) ==
  /\ wirePc = "judge" /\ budget > 0
  /\ r \in Oldest(NewReleases)
  /\ batch' = batch \ {r}
  /\ UNCHANGED <<wire, unread, tickers, printFile, file, mirror, belief, down, old,
                 evicted, faults>>

CallLLM == budget' = budget - 1
Settle(r) == MarkSeen("pr_seen.json", r) /\ attempts' = [attempts EXCEPT ![r] = 0]
Duplicate(r) == \E s \in prints : <<r, s>> \in SameText

\* A gate drops it: one of those before the LLM, at no cost, or the LLM.
DropRelease(r) ==
  /\ Judging(r)
  /\ \/ UNCHANGED budget
     \/ ~Duplicate(r) /\ CallLLM
  /\ Settle(r)
  /\ UNCHANGED <<wirePc, blocked, prints, published, unanswered>>

\* Mutant: failures are counted, but never for the last time.
JudgeFailsMutant(r) ==
  /\ Judging(r) /\ ~Duplicate(r)
  /\ CallLLM
  /\ attempts' = [attempts EXCEPT ![r] = IF @ + 1 >= MaxAttempts THEN @ ELSE @ + 1]
  /\ UNCHANGED <<wirePc, blocked, prints, seen, redated, published, unanswered>>

\* The LLM call raises: the release stays unseen until its last attempt.  (No
\* wire's own item is marked a teaser, so ArticleUnavailable is not raised here.)
JudgeFails(r) ==
  /\ Judging(r) /\ ~Duplicate(r)
  /\ CallLLM
  /\ IF attempts[r] + 1 >= MaxAttempts
     THEN Settle(r)
     ELSE /\ attempts' = [attempts EXCEPT ![r] = @ + 1]
          /\ UNCHANGED <<seen, redated>>
  /\ UNCHANGED <<wirePc, blocked, prints, published, unanswered>>

\* It is an event: seen, published and its fingerprints kept, then saved.
PublishRelease(r) ==
  /\ Judging(r) /\ ~Duplicate(r)
  /\ CallLLM
  /\ Settle(r)
  /\ Publish(r)
  /\ prints' = prints \cup {r}
  /\ wirePc' = "save"
  /\ UNCHANGED blocked

\* Nothing new is left, or nothing the budget has room for.
EndWire ==
  /\ wirePc = "judge"
  /\ NewReleases = {} \/ budget <= 0
  /\ NextWire
  /\ UNCHANGED <<unread, blocked, budget, attempts, prints, printFile, tickers,
                 storeVars>>

\* A store raises: in a wire's turn it backs the wire off; at the end of the
\* cycle it is outside every try and ends the loop.
SaveRaises ==
  IF wire <= NWires
  THEN BackOff
  ELSE wirePc' = "load" /\ UNCHANGED <<wire, batch, blocked>>

WireSave ==
  /\ wirePc = "save"
  /\ \/ SaveSeen("pr_seen.json") /\ wirePc' = "prints"
        /\ UNCHANGED <<wire, batch, blocked>>
     \/ SaveSeenFails /\ SaveRaises
  /\ UNCHANGED <<unread, budget, attempts, prints, printFile, tickers,
                 seen, old, published, unanswered, evicted>>

SavePrints ==
  /\ wirePc = "prints"
  /\ \/ /\ printFile' = prints
        /\ wirePc' = IF wire <= NWires THEN "judge" ELSE "idle"
        /\ UNCHANGED <<wire, batch, blocked, faults>>
     \/ Fault /\ SaveRaises /\ UNCHANGED printFile
  /\ UNCHANGED <<unread, budget, attempts, prints, tickers,
                 seen, file, mirror, belief, redated, down, old, published,
                 unanswered, evicted>>

WireStep ==
  \/ WireStart \/ BeginCycle \/ PassWire \/ ReadWire \/ ReadWireUnparsed
  \/ ReadWireFails \/ EndWire
  \/ \E r \in Releases : DropRelease(r) \/ JudgeFails(r) \/ PublishRelease(r)
  \/ WireSave \/ SavePrints

\* The back-off of a wire is over.
Unblock ==
  /\ blocked # {}
  /\ \E w \in blocked : blocked' = blocked \ {w}
  /\ UNCHANGED <<wirePc, wire, batch, unread, budget, attempts, prints, printFile,
                 tickers, storeVars>>

\* ticker_refresh_loop: the map is kept once there is one.
LoadTickers ==
  /\ ~tickers
  /\ tickers' = TRUE
  /\ UNCHANGED <<wirePc, wire, batch, unread, blocked, budget, attempts, prints,
                 printFile, storeVars>>

WireInit ==
  /\ wirePc = "load" /\ wire = 0 /\ batch = {} /\ unread = Wires /\ blocked = {}
  /\ budget = 0
  /\ attempts = [r \in Releases |-> 0]
  /\ prints = {} /\ printFile = {}
  /\ tickers = FALSE

WireRestart(wiped) ==
  /\ wirePc' = "load" /\ wire' = 0 /\ batch' = {} /\ unread' = Wires /\ blocked' = {}
  /\ budget' = 0
  /\ attempts' = [r \in Releases |-> 0]
  /\ prints' = {}
  /\ printFile' = IF wiped THEN {} ELSE printFile
  /\ tickers' \in BOOLEAN
=============================================================================
