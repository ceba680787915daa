----------------------------- MODULE Catalogue -----------------------------
(***************************************************************************)
(* The feed and the fundamentals, each over the company table. The         *)
(* fundamentals sync picks companies by ticker, listing and its own        *)
(* snapshots; the feed's filters read none of these: the two are run side  *)
(* by side.                                                                *)
(***************************************************************************)
EXTENDS Feeds, Fundamentals

vars == <<feedsVars, fundamentalsVars>>

NoFeeds ==
  /\ stored = <<>> /\ reacted = [e \in Posts |-> {}] /\ edge = [received |-> 0, filed |-> 0]
  /\ firm = [c \in Firms |-> NewFirm] /\ capped = {} /\ phase = "frozen" /\ known = {}
  /\ facets = {} /\ scroll = NotScrolling /\ changes = MaxChanges

NoFundamentals ==
  /\ snap = [c \in Stocks |-> 0] /\ order = <<>>
  /\ reported = [c \in Stocks |-> NoReport] /\ queue = <<>> /\ ran = TRUE
  /\ session = [s \in Sessions |-> [Away EXCEPT !.pc = "frozen"]]
  /\ building = [i \in Instances |-> {}] /\ key = {}
  /\ nudges = MaxNudges /\ syncFaults = MaxSyncFaults

Init == (FeedsInit /\ NoFundamentals) \/ (NoFeeds /\ FundamentalsInit)

Next ==
  \/ phase # "frozen" /\ FeedsNext /\ UNCHANGED fundamentalsVars
  \/ phase = "frozen" /\ FundamentalsNext /\ UNCHANGED feedsVars

\* The fairness is the fundamentals'; the feed promises nothing that needs it.
Spec == Init /\ [][Next]_vars /\ FundamentalsFairness
=============================================================================
