-------------------------------- MODULE Feed --------------------------------
(***************************************************************************)
(* What the subscriber promises about the feed, with no queue, no process  *)
(* and no failure in sight: a press release is posted at most once, never  *)
(* while a copy of it (or the filing that carries it) is still fresh; a    *)
(* filing becomes the authoritative source of at most one release, and     *)
(* only if it is not itself posted yet; and an event reaches the readers   *)
(* once, after it was posted.                                              *)
(***************************************************************************)
EXTENDS Naturals

CONSTANTS
  Events,          \* everything ingest can publish, by edgar_id
  Releases,        \* the events with signal_type "PR"
  Filings,         \* the events with signal_type "8-K" or "8-K/A"
  Matches(_, _),   \* Matches(e, f): e's fingerprints match stored event f
  CrossWire,       \* CROSS_WIRE_WINDOW_DAYS
  PRToFiling,      \* PR_TO_FILING_WINDOW_DAYS
  NoEvent

VARIABLES
  now,             \* the clock
  createdAt,       \* when each event was posted, 0 if it was not
  link,            \* a release's authoritative filing, or NoEvent
  announced        \* the events the readers were told about

vars == <<now, createdAt, link, announced>>

Posted == {e \in Events : createdAt[e] > 0}

Init ==
  /\ now = 0
  /\ createdAt = [e \in Events |-> 0]
  /\ link = [e \in Events |-> NoEvent]
  /\ announced = {}

Elapse ==
  /\ now' \in Nat
  /\ now' > now
  /\ UNCHANGED <<createdAt, link, announced>>

\* Nothing that says the same as release e is still fresh in the feed.
News(e) ==
  \A f \in Posted : Matches(e, f) =>
    /\ f \in Releases => createdAt[f] + CrossWire < now
    /\ f \in Filings => createdAt[f] + PRToFiling < now

Post(e) ==
  /\ e \notin Posted
  /\ e \in Releases => News(e)
  /\ now' = now + 1
  /\ createdAt' = [createdAt EXCEPT ![e] = now']
  /\ UNCHANGED <<link, announced>>

Attach(r, f) ==
  /\ r \in Posted \cap Releases
  /\ f \in Filings \ Posted
  /\ Matches(f, r)
  /\ link[r] = NoEvent
  /\ \A e \in Events : link[e] # f
  /\ link' = [link EXCEPT ![r] = f]
  /\ UNCHANGED <<now, createdAt, announced>>

Announce(e) ==
  /\ e \in Posted \ announced
  /\ announced' = announced \cup {e}
  /\ UNCHANGED <<now, createdAt, link>>

Next ==
  \/ Elapse
  \/ \E e \in Events : Post(e) \/ Announce(e)
  \/ \E r, f \in Events : Attach(r, f)

Spec == Init /\ [][Next]_vars
=============================================================================
