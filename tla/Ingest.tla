------------------------------- MODULE Ingest -------------------------------
(***************************************************************************)
(* The ingest worker (services/ingest/main.py): the 8-K loop and the wires'*)
(* loop on one event loop, over one seen module, with EDGAR's and the      *)
(* wires' feeds moving on meanwhile.                                       *)
(***************************************************************************)
EXTENDS WireLoop

CONSTANTS
  Starts,          \* what the feeds may show when the worker first starts
  Ageing           \* bound: entries that live to be TTL_DAYS old

vars == <<storeVars, listing, edgarVars, wireVars>>

ASSUME IngestAssumption ==
  /\ Filings \subseteq Nat /\ Releases \subseteq Nat /\ Filings \cap Releases = {}
  /\ IsFiniteSet(Entries)
  /\ Atom \in [Filings -> [term : STRING, title : STRING]]
  /\ Starts \subseteq [Entries -> {"ahead", "listed", "off"}] /\ Ageing \subseteq Entries
  /\ NWires \in Nat /\ WireOf \in [Releases -> Wires]
  /\ \A r, s \in Releases : <<r, s>> \in SameText => <<s, r>> \in SameText
  /\ Cap \in Nat \ {0} /\ MaxAttempts \in Nat \ {0}
  /\ MaxFaults \in Nat

Feed(e) == IF e \in Filings THEN Filings ELSE {r \in Releases : WireOf[r] = WireOf[e]}

\* A feed lists its entries in order, and drops them in order.
List(e) ==
  /\ listing[e] = "ahead"
  /\ \A f \in Feed(e) : f < e => listing[f] # "ahead"
  /\ listing' = [listing EXCEPT ![e] = "listed"]
  /\ unread' = IF e \in Releases THEN unread \cup {WireOf[e]} ELSE unread
  /\ UNCHANGED <<storeVars, edgarVars, wirePc, wire, batch, blocked, budget,
                 attempts, prints, printFile, tickers>>

Unlist(e) ==
  /\ listing[e] = "listed"
  /\ \A f \in Feed(e) : f < e => listing[f] = "off"
  /\ listing' = [listing EXCEPT ![e] = "off"]
  /\ unread' = IF e \in Releases THEN unread \cup {WireOf[e]} ELSE unread
  /\ UNCHANGED <<storeVars, edgarVars, wirePc, wire, batch, blocked, budget,
                 attempts, prints, printFile, tickers>>

\* A wire's feed changes in what is not modelled: other items come and go.
Touch(w) ==
  /\ w \notin unread
  /\ unread' = unread \cup {w}
  /\ UNCHANGED <<storeVars, listing, edgarVars, wirePc, wire, batch, blocked, budget,
                 attempts, prints, printFile, tickers>>

\* Thirty days pass over an entry that its feed dropped long ago.
AgeOut(e) ==
  /\ listing[e] = "off" /\ e \notin old \cup answer \cup batch
  /\ \E p \in Paths : e \in seen[p] \cup LoadFile(p) \cup mirror[p]
  /\ old' = old \cup {e}
  /\ UNCHANGED <<seen, file, mirror, belief, redated, down, published, unanswered,
                 evicted, faults,
                 listing, edgarVars, wireVars>>

Restart(wiped) ==
  /\ StoreRestart(wiped)
  /\ edgarPc' = "load" /\ answer' = {}
  /\ WireRestart(wiped)
  /\ UNCHANGED listing

Edgar == EdgarStep /\ UNCHANGED wireVars
Wire == WireStep /\ UNCHANGED <<listing, edgarVars>>
MinuteOver == StandUp /\ UNCHANGED <<listing, edgarVars, wireVars>>
BackOffOver == Unblock /\ UNCHANGED <<listing, edgarVars>>
Tickers == LoadTickers /\ UNCHANGED <<listing, edgarVars>>

Init ==
  /\ StoreInit /\ EdgarInit /\ WireInit
  /\ listing \in Starts

Next ==
  \/ Edgar \/ Wire \/ MinuteOver \/ BackOffOver \/ Tickers
  \/ \E e \in Entries : List(e) \/ Unlist(e)
  \/ \E w \in Wires : Touch(w)
  \/ \E e \in Ageing : AgeOut(e)
  \/ \E p \in Paths : Evict(p) /\ UNCHANGED <<listing, edgarVars, wireVars>>
  \/ \E wiped \in BOOLEAN : Restart(wiped)

\* The loops never stop; a stand-down, a back-off and a failed download of
\* the tickers end with time; a wire goes on listing news.
Spec ==
  /\ Init /\ [][Next]_vars
  /\ WF_vars(Edgar) /\ WF_vars(Wire)
  /\ WF_vars(MinuteOver) /\ WF_vars(BackOffOver) /\ WF_vars(Tickers)
  /\ \A w \in Wires : WF_vars(Touch(w))

(***************************************************************************)
(* Nothing is published again that the memory knows, or that the file or a *)
(* Redis that answered gave back when the loop last loaded: through failed *)
(* saves, half-applied writes, stand-downs shared by the two loops,        *)
(* restarts and deploys (main.py:198-211, pipeline.py:377-411, seen.py).   *)
(* A mirror that survived but stands down at the load is not asked again:  *)
(* what the file lacks then is published once more (seen.py:103-118).      *)
(***************************************************************************)
RememberedIsNotRepublished == \A e \in Entries : published[e] <= 1

(***************************************************************************)
(* The mirror catches up: once failures stop, what was handled is in Redis *)
(* before the next deploy wipes the file, since every poll retries the     *)
(* difference (seen.py:139, main.py:218, pipeline.py:435).                 *)
(***************************************************************************)
MirrorCatchesUp == <>[](evicted \/ \A p \in Paths : Pruned(p) \subseteq mirror[p])

(***************************************************************************)
(* A filing of an allowed form that stays on EDGAR's feed is published,    *)
(* whatever failed in between: an exception leaves it unseen for the next  *)
(* poll (main.py:203-215).                                                 *)
(***************************************************************************)
ListedIsPublished ==
  \A f \in AllowedForm :
    listing[f] = "listed" ~> (published[f] > 0 \/ listing[f] = "off")

(***************************************************************************)
(* On a feed that goes on changing, what stays listed is judged, given up  *)
(* after its last attempt or dropped, whatever came between: the budget of *)
(* a cycle spent on others, an answer that was not parsed, back-offs, a    *)
(* store that raised, restarts (pipeline.py:352-433, feeds.py:136-177).    *)
(* Touch, fair, is that hypothesis.  Without it a release left unseen      *)
(* waits for the feed's next change, since its validators are kept: "next  *)
(* cycle picks it up" (pipeline.py:375) asks for more than the code does.  *)
(***************************************************************************)
ListedIsJudged ==
  \A r \in Releases :
    listing[r] = "listed" ~> (r \in seen["pr_seen.json"] \/ listing[r] = "off")
=============================================================================
