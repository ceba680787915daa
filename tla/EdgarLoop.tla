------------------------------ MODULE EdgarLoop -----------------------------
(***************************************************************************)
(* The 8-K loop of the ingest worker (services/ingest/main.py, poll_loop): *)
(* every minute it reads EDGAR's feed of current filings, oldest first,    *)
(* briefs and publishes the new ones of an allowed form, and saves after   *)
(* each and once at the end.  A failed fetch of the feed changes nothing.  *)
(***************************************************************************)
EXTENDS SeenStore

CONSTANT Atom            \* a filing's entry in the feed: [term, title], "" if absent

VARIABLES
  listing,         \* "ahead", "listed" or "off" its feed, per entry
  edgarPc,         \* "load", "idle", "entry", "save"
  answer           \* filings of this poll's answer not yet come to

edgarVars == <<edgarPc, answer>>

Listed(S) == {e \in S : listing[e] = "listed"}
\* parse_feed_entries: the category's term, or the form the title begins with.
FormType(f) == IF Atom[f].term # "" THEN Atom[f].term ELSE Atom[f].title
AllowedForm == {f \in Filings : FormType(f) \in {"8-K", "8-K/A"}}

Oldest(S) == {e \in S : \A f \in S : e <= f}

EdgarStart ==
  /\ edgarPc = "load"
  /\ LoadSeen("seen.json") /\ Unanswer("seen.json")
  /\ edgarPc' = "idle"
  /\ UNCHANGED <<answer, listing, old, published, evicted>>

FetchFeed ==
  /\ edgarPc = "idle"
  /\ edgarPc' = "entry"
  /\ answer' = Listed(Filings)
  /\ UNCHANGED <<storeVars, listing>>

NewFilings == (answer \cap AllowedForm) \ seen["seen.json"]

\* _process_entry: the filing's pages, the briefing and the publication.
ProcessEntry ==
  /\ edgarPc = "entry"
  /\ \E f \in Oldest(NewFilings) :
       /\ Publish(f)
       /\ MarkSeen("seen.json", f)
       /\ answer' = answer \ {f}
  /\ edgarPc' = "save"
  /\ UNCHANGED <<listing, file, mirror, belief, down, old, evicted, faults>>

\* Mutant: the filing is marked before it is worked on.
ProcessEntryFailsMutant ==
  /\ edgarPc = "entry"
  /\ \E f \in Oldest(NewFilings) : answer' = answer \ {f} /\ MarkSeen("seen.json", f)
  /\ Fault
  /\ UNCHANGED <<edgarPc, listing, file, mirror, belief, down, old, published, unanswered,
                 evicted>>

\* It raises before the publication: the filing stays unseen.
ProcessEntryFails ==
  /\ edgarPc = "entry"
  /\ \E f \in Oldest(NewFilings) : answer' = answer \ {f}
  /\ Fault
  /\ UNCHANGED <<edgarPc, listing, seen, file, mirror, belief, redated, down, old,
                 published, unanswered, evicted>>

\* The save after an event and, past the last entry, the batched one.
EdgarSave ==
  /\ edgarPc = "save" \/ (edgarPc = "entry" /\ NewFilings = {})
  /\ SaveSeen("seen.json") \/ SaveSeenFails
  /\ edgarPc' = IF edgarPc = "save" THEN "entry" ELSE "idle"
  /\ answer' = IF edgarPc = "save" THEN answer ELSE {}
  /\ UNCHANGED <<listing, seen, old, published, unanswered, evicted>>

EdgarStep == EdgarStart \/ FetchFeed \/ ProcessEntry \/ ProcessEntryFails \/ EdgarSave

EdgarInit == edgarPc = "load" /\ answer = {}
=============================================================================
