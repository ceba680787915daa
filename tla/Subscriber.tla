----------------------------- MODULE Subscriber -----------------------------
(***************************************************************************)
(* The API's Redis subscriber (services/api/app/services/realtime):        *)
(* _handle_event, one action per database round trip or socket emit, run   *)
(* by every process of the API that is subscribed to `filing:new`.  The    *)
(* pub/sub channel delivers to the connections open at that instant and    *)
(* keeps nothing; ingest may publish an event again.  Any query or commit  *)
(* may fail, the connection may drop and the process may be killed between *)
(* two steps.                                                              *)
(***************************************************************************)
EXTENDS Naturals, Sequences

CONSTANTS
  Procs,           \* API processes (one, or two while a deploy overlaps)
  Events,          \* what ingest publishes, named by edgar_id
  Kind,            \* [Events -> {"PR", "8-K", "8-K/A", "other"}]
  Issuer,          \* [Events -> Companies \cup {NoCompany}]
  Companies,
  SameText,        \* <<e, f>>: a fingerprint e brings matches the one stored with f
  Wrapper,         \* the 8-Ks all of whose items are in WRAPPER_ITEMS
  Suppress,        \* _suppress_wrapper_8ks(), the PR_SUPPRESS_8K switch
  CrossWire,       \* CROSS_WIRE_WINDOW_DAYS
  PRToFiling,      \* PR_TO_FILING_WINDOW_DAYS
  NoEvent, NoCompany,
  MaxSends,        \* bound: messages published in all
  MaxInbox,        \* bound: messages waiting in one connection
  MaxFaults,       \* bound: failures, disconnections and crashes together
  MaxNow           \* bound: the clock stops being advanced by Elapse here

KindsAssumption ==
  /\ Kind \in [Events -> {"PR", "8-K", "8-K/A", "other"}]
  /\ Issuer \in [Events -> Companies \cup {NoCompany}]
  /\ NoEvent \notin Events
  /\ NoCompany \notin Companies

WindowAssumption == CrossWire \in Nat /\ PRToFiling \in Nat

ASSUME SubscriberAssumption == KindsAssumption /\ WindowAssumption

VARIABLES
  now,             \* database time
  createdAt,       \* FilingEvent.created_at, 0 while the row does not exist
  link,            \* FilingEvent.related_edgar_id
  reactions,       \* events whose six PriceReaction rows exist
  companies,       \* the company table
  fanouts,         \* `filing_event` emits, per event
  updates,         \* `filing_event_update` emits, per release
  alerts,          \* trigger_alerts calls, per event
  subscribed,      \* which processes hold a live subscription
  inbox,           \* messages delivered to a process and not handled yet
  pc, msg,         \* where a process is in _handle_event, and with which event
  pr,              \* pr_event: the release the 8-K in hand matched
  known,           \* whether resolve_event_company found a company
  sent, faults,    \* what the bounds count
  verdict          \* how the handling of each event last ended

tables == <<createdAt, link, reactions, companies>>
emitted == <<fanouts, updates, alerts>>
channel == <<subscribed, inbox, sent>>
handler == <<pc, msg, pr, known>>
vars == <<now, tables, emitted, channel, handler, faults, verdict>>

Releases == {e \in Events : Kind[e] = "PR"}
Filings == {e \in Events : Kind[e] \in {"8-K", "8-K/A"}}
Stored == {e \in Events : createdAt[e] > 0}

\* fingerprints_match, always among the events of one company.
Matches(e, f) ==
  <<e, f>> \in SameText /\ Issuer[e] = Issuer[f] /\ Issuer[e] # NoCompany

\* Mutant: the window's cutoff excludes the instant it should include.
CandidatesCutoffMutant(e, kinds, window) ==
  {f \in Stored \cap kinds : Matches(e, f) /\ createdAt[f] + window > now}

\* find_matching_event: the candidates of a kind inside the window ...
Candidates(e, kinds, window) ==
  {f \in Stored \cap kinds : Matches(e, f) /\ createdAt[f] + window >= now}

\* ... and the most recent of them.
MostRecent(S) == {f \in S : \A g \in S : createdAt[g] <= createdAt[f]}

Steps == {"idle", "check", "twin", "filing", "linked", "match", "link",
          "update", "store", "react", "fanout", "alert"}
Verdicts == {"none", "stored", "twin", "filed", "wrapper", "linked", "failed"}

Init ==
  /\ now = 0
  /\ createdAt = [e \in Events |-> 0]
  /\ link = [e \in Events |-> NoEvent]
  /\ reactions = {}
  /\ companies \in SUBSET Companies
  /\ fanouts = [e \in Events |-> 0]
  /\ updates = [e \in Events |-> 0]
  /\ alerts = [e \in Events |-> 0]
  /\ subscribed = [p \in Procs |-> TRUE]
  /\ inbox = [p \in Procs |-> <<>>]
  /\ pc = [p \in Procs |-> "idle"]
  /\ msg = [p \in Procs |-> NoEvent]
  /\ pr = [p \in Procs |-> NoEvent]
  /\ known = [p \in Procs |-> FALSE]
  /\ sent = 0
  /\ faults = 0
  /\ verdict = [e \in Events |-> "none"]

-----------------------------------------------------------------------------
(* Surroundings: time, ingest, the company sync.                           *)

Elapse ==
  /\ now < MaxNow
  /\ now' = now + 1
  /\ UNCHANGED <<tables, emitted, channel, handler, faults, verdict>>

\* ingest's publish_filing: whoever is subscribed at this instant gets it.
Publish(e) ==
  /\ sent < MaxSends
  /\ \A p \in Procs : Len(inbox[p]) < MaxInbox
  /\ sent' = sent + 1
  /\ inbox' = [p \in Procs |-> IF subscribed[p] THEN Append(inbox[p], e)
                                                ELSE inbox[p]]
  /\ UNCHANGED <<now, tables, emitted, subscribed, handler, faults, verdict>>

\* The daily sync-companies run inserts a newly listed company.
SyncCompany(c) ==
  /\ c \notin companies
  /\ companies' = companies \cup {c}
  /\ UNCHANGED <<now, createdAt, link, reactions, emitted, channel, handler,
                 faults, verdict>>

-----------------------------------------------------------------------------
(* _handle_event.                                                          *)

Goto(p, from, to) ==
  /\ pc[p] = from
  /\ pc' = [pc EXCEPT ![p] = to]

AfterStore == {"react", "fanout", "alert"}

\* What is remembered of the handling that ends: a stored event stays so,
\* unless it is the handler that stored it that was cut short.
Judged(p, how) ==
  IF msg[p] \in Stored /\ pc[p] \notin AfterStore THEN verdict[msg[p]] ELSE how

\* Leave the handler: `return`, or an exception the listen loop logs.
Finish(p, how) ==
  /\ pc' = [pc EXCEPT ![p] = "idle"]
  /\ msg' = [msg EXCEPT ![p] = NoEvent]
  /\ pr' = [pr EXCEPT ![p] = NoEvent]
  /\ known' = [known EXCEPT ![p] = FALSE]
  /\ verdict' = [verdict EXCEPT ![msg[p]] = Judged(p, how)]

\* pubsub.listen() yields the next message.
Receive(p) ==
  /\ pc[p] = "idle"
  /\ inbox[p] # <<>>
  /\ msg' = [msg EXCEPT ![p] = Head(inbox[p])]
  /\ inbox' = [inbox EXCEPT ![p] = Tail(@)]
  /\ Goto(p, "idle", "check")
  /\ UNCHANGED <<now, tables, emitted, subscribed, sent, pr, known, faults,
                 verdict>>

\* Idempotency on edgar_id, then resolve_event_company.  Only an event with a
\* ticker takes part in the cross-source dedup.
AfterCheck(e) ==
  IF Issuer[e] = NoCompany THEN "store"
  ELSE IF e \in Releases THEN "twin"
  ELSE IF e \in Filings THEN "linked" ELSE "store"

\* Mutant: an event delivered again is the stored one, announced again.
CheckRedeliveredMutant(p) ==
  /\ Goto(p, "check", IF msg[p] \in Stored THEN "react" ELSE AfterCheck(msg[p]))
  /\ known' = [known EXCEPT ![p] = Issuer[msg[p]] \in companies]
  /\ UNCHANGED <<now, tables, emitted, channel, faults, msg, pr, verdict>>

Check(p) ==
  /\ pc[p] = "check"
  /\ \/ /\ msg[p] \in Stored
        /\ Finish(p, "stored")
     \/ /\ msg[p] \notin Stored
        /\ Goto(p, "check", AfterCheck(msg[p]))
        /\ known' = [known EXCEPT ![p] = Issuer[msg[p]] \in companies]
        /\ UNCHANGED <<msg, pr, verdict>>
  /\ UNCHANGED <<now, tables, emitted, channel, faults>>

\* A release: dropped when a copy from another wire is fresh ...
CheckTwin(p) ==
  /\ pc[p] = "twin"
  /\ IF Candidates(msg[p], Releases, CrossWire) # {}
     THEN Finish(p, "twin")
     ELSE Goto(p, "twin", "filing") /\ UNCHANGED <<msg, pr, known, verdict>>
  /\ UNCHANGED <<now, tables, emitted, channel, faults>>

\* Mutant: the filing is looked for in the cross-wire window.
CheckFilingWindowMutant(p) ==
  /\ pc[p] = "filing"
  /\ IF Candidates(msg[p], Filings, CrossWire) # {}
     THEN Finish(p, "filed")
     ELSE Goto(p, "filing", "store") /\ UNCHANGED <<msg, pr, known, verdict>>
  /\ UNCHANGED <<now, tables, emitted, channel, faults>>

\* ... or when the 8-K that carries it is.
CheckFiling(p) ==
  /\ pc[p] = "filing"
  /\ IF Candidates(msg[p], Filings, PRToFiling) # {}
     THEN Finish(p, "filed")
     ELSE Goto(p, "filing", "store") /\ UNCHANGED <<msg, pr, known, verdict>>
  /\ UNCHANGED <<now, tables, emitted, channel, faults>>

\* Mutant: no guard against a filing that has already backfilled a release.
CheckLinkedMutant(p) ==
  /\ Goto(p, "linked", "match")
  /\ UNCHANGED <<msg, pr, known, verdict>>
  /\ UNCHANGED <<now, tables, emitted, channel, faults>>

\* An 8-K: dropped when some release already names it as its source.
CheckLinked(p) ==
  /\ pc[p] = "linked"
  /\ IF \E r \in Stored : link[r] = msg[p]
     THEN Finish(p, "linked")
     ELSE Goto(p, "linked", "match") /\ UNCHANGED <<msg, pr, known, verdict>>
  /\ UNCHANGED <<now, tables, emitted, channel, faults>>

\* The duplicate feed item is suppressed when the matched filing is a wrapper.
SuppressOrStore(p, from) ==
  /\ pc[p] = from
  /\ IF Suppress /\ msg[p] \in Wrapper
     THEN Finish(p, "wrapper")
     ELSE /\ Goto(p, from, "store")
          /\ pr' = [pr EXCEPT ![p] = NoEvent]
          /\ UNCHANGED <<msg, known, verdict>>

\* Mutant: an earlier filing's link is not looked at.
MatchOverwriteMutant(p) ==
  /\ pc[p] = "match"
  /\ LET found == Candidates(msg[p], Releases, PRToFiling)
     IN IF found = {}
        THEN Goto(p, "match", "store") /\ UNCHANGED <<msg, pr, known, verdict>>
        ELSE /\ Goto(p, "match", "link")
             /\ \E r \in MostRecent(found) : pr' = [pr EXCEPT ![p] = r]
             /\ UNCHANGED <<msg, known, verdict>>
  /\ UNCHANGED <<now, tables, emitted, channel, faults>>

\* Mutant: a wrapper is suppressed whether or not a release matched.
MatchSuppressMutant(p) ==
  /\ SuppressOrStore(p, "match")
  /\ UNCHANGED <<now, tables, emitted, channel, faults>>

\* Find the release this 8-K furnishes; its link is read with it.
MatchRelease(p) ==
  /\ pc[p] = "match"
  /\ LET found == Candidates(msg[p], Releases, PRToFiling)
     IN \/ /\ found = {}
           /\ Goto(p, "match", "store")
           /\ UNCHANGED <<msg, pr, known, verdict>>
        \/ \E r \in MostRecent(found) :
             /\ link[r] = NoEvent
             /\ Goto(p, "match", "link")
             /\ pr' = [pr EXCEPT ![p] = r]
             /\ UNCHANGED <<msg, known, verdict>>
        \/ \E r \in MostRecent(found) :
             /\ link[r] # NoEvent
             /\ SuppressOrStore(p, "match")
  /\ UNCHANGED <<now, tables, emitted, channel, faults>>

\* The backfill commits on its own ...
LinkRelease(p) ==
  /\ Goto(p, "link", "update")
  /\ link' = [link EXCEPT ![pr[p]] = msg[p]]
  /\ UNCHANGED <<now, createdAt, reactions, companies, emitted, channel, msg,
                 pr, known, faults, verdict>>

\* ... and when that commit fails the handler goes on without it.
LinkFails(p) ==
  /\ faults < MaxFaults
  /\ faults' = faults + 1
  /\ SuppressOrStore(p, "link")
  /\ UNCHANGED <<now, tables, emitted, channel>>

EmitUpdate(p) ==
  /\ SuppressOrStore(p, "update")
  /\ updates' = [updates EXCEPT ![pr[p]] = @ + 1]
  /\ UNCHANGED <<now, tables, fanouts, alerts, channel, faults>>

\* The auto-created company is flushed in the event's own transaction: if the
\* sync inserted it since the lookup, the flush raises and the message is gone.
\* The unique edgar_id turns a second insert into a silent skip.
Store(p) ==
  LET e == msg[p]
      creates == Issuer[e] # NoCompany /\ ~known[p]
  IN /\ pc[p] = "store"
     /\ \/ /\ creates
           /\ Issuer[e] \in companies
           /\ Finish(p, "failed")
           /\ UNCHANGED <<now, createdAt, companies>>
        \/ /\ ~(creates /\ Issuer[e] \in companies)
           /\ e \in Stored
           /\ Finish(p, "stored")
           /\ UNCHANGED <<now, createdAt, companies>>
        \/ /\ ~(creates /\ Issuer[e] \in companies)
           /\ e \notin Stored
           /\ now' = now + 1
           /\ createdAt' = [createdAt EXCEPT ![e] = now']
           /\ companies' = IF creates THEN companies \cup {Issuer[e]}
                                      ELSE companies
           /\ Goto(p, "store", "react")
           /\ verdict' = [verdict EXCEPT ![e] = "stored"]
           /\ UNCHANGED <<msg, pr, known>>
     /\ UNCHANGED <<link, reactions, emitted, channel, faults>>

\* _schedule_price_reactions: a commit of its own; without a ticker, nothing.
ScheduleReactions(p) ==
  /\ Goto(p, "react", "fanout")
  /\ reactions' = IF Issuer[msg[p]] = NoCompany THEN reactions
                  ELSE reactions \cup {msg[p]}
  /\ UNCHANGED <<now, createdAt, link, companies, emitted, channel, msg, pr,
                 known, faults, verdict>>

\* Mutant: the handler gives up with the reactions.
ScheduleFailsMutant(p) ==
  /\ faults < MaxFaults
  /\ faults' = faults + 1
  /\ pc[p] = "react"
  /\ Finish(p, "stored")
  /\ UNCHANGED <<now, tables, emitted, channel>>

ScheduleFails(p) ==
  /\ faults < MaxFaults
  /\ faults' = faults + 1
  /\ Goto(p, "react", "fanout")
  /\ UNCHANGED <<now, tables, emitted, channel, msg, pr, known, verdict>>

FanOut(p) ==
  /\ Goto(p, "fanout", "alert")
  /\ fanouts' = [fanouts EXCEPT ![msg[p]] = @ + 1]
  /\ UNCHANGED <<now, tables, updates, alerts, channel, msg, pr, known, faults,
                 verdict>>

TriggerAlerts(p) ==
  /\ pc[p] = "alert"
  /\ alerts' = [alerts EXCEPT ![msg[p]] = @ + 1]
  /\ Finish(p, "stored")
  /\ UNCHANGED <<now, tables, fanouts, updates, channel, faults>>

-----------------------------------------------------------------------------
(* Failures.                                                               *)

\* A query, a commit or an emit raises: the listen loop logs it and moves on.
Abort(p) ==
  /\ faults < MaxFaults
  /\ faults' = faults + 1
  /\ pc[p] # "idle"
  /\ Finish(p, "failed")
  /\ UNCHANGED <<now, tables, emitted, channel>>

\* The Redis connection drops between two messages, with what it had buffered.
Disconnect(p) ==
  /\ faults < MaxFaults
  /\ faults' = faults + 1
  /\ subscribed[p]
  /\ pc[p] = "idle"
  /\ subscribed' = [subscribed EXCEPT ![p] = FALSE]
  /\ inbox' = [inbox EXCEPT ![p] = <<>>]
  /\ UNCHANGED <<now, tables, emitted, sent, handler, verdict>>

\* The process is killed, in the middle of a message.
Crash(p) ==
  /\ faults < MaxFaults
  /\ faults' = faults + 1
  /\ pc[p] # "idle"
  /\ Finish(p, "failed")
  /\ subscribed' = [subscribed EXCEPT ![p] = FALSE]
  /\ inbox' = [inbox EXCEPT ![p] = <<>>]
  /\ UNCHANGED <<now, tables, emitted, sent>>

\* The reconnect loop, or a fresh process's start_subscriber.
Subscribe(p) ==
  /\ ~subscribed[p]
  /\ subscribed' = [subscribed EXCEPT ![p] = TRUE]
  /\ UNCHANGED <<now, tables, emitted, inbox, sent, handler, faults, verdict>>

Handle(p) ==
  \/ Receive(p) \/ Check(p) \/ CheckTwin(p) \/ CheckFiling(p)
  \/ CheckLinked(p) \/ MatchRelease(p) \/ LinkRelease(p) \/ EmitUpdate(p)
  \/ Store(p) \/ ScheduleReactions(p) \/ FanOut(p) \/ TriggerAlerts(p)

Fail(p) ==
  \/ LinkFails(p) \/ ScheduleFails(p) \/ Abort(p) \/ Disconnect(p) \/ Crash(p)

Next ==
  \/ Elapse
  \/ \E e \in Events : Publish(e)
  \/ \E c \in Companies : SyncCompany(c)
  \/ \E p \in Procs : Handle(p) \/ Subscribe(p) \/ Fail(p)

\* The thread runs while its process does and reconnects for ever.
Fairness == \A p \in Procs : WF_vars(Handle(p)) /\ WF_vars(Subscribe(p))

Spec == Init /\ [][Next]_vars /\ Fairness
-----------------------------------------------------------------------------
(* Properties.                                                             *)

\* What is stored and what was emitted, and the counters.
DataOK ==
  /\ now \in Nat
  /\ createdAt \in [Events -> Nat]
  /\ link \in [Events -> Events \cup {NoEvent}]
  /\ reactions \subseteq Events
  /\ companies \subseteq Companies
  /\ fanouts \in [Events -> Nat]
  /\ updates \in [Events -> Nat]
  /\ alerts \in [Events -> Nat]
  /\ sent \in Nat
  /\ faults \in Nat

ChannelOK ==
  /\ subscribed \in [Procs -> BOOLEAN]
  /\ inbox \in [Procs -> Seq(Events)]

\* Where each process is in the handler, with an event and a release in hand
\* wherever the code dereferences one.
HandlerOK ==
  /\ pc \in [Procs -> Steps]
  /\ msg \in [Procs -> Events \cup {NoEvent}]
  /\ pr \in [Procs -> Events \cup {NoEvent}]
  /\ known \in [Procs -> BOOLEAN]
  /\ verdict \in [Events -> Verdicts]
  /\ \A p \in Procs : pc[p] # "idle" => msg[p] \in Events
  /\ \A p \in Procs : pc[p] \in {"link", "update"} => pr[p] \in Events

\* Every variable keeps its type, and no step of _handle_event uses an event or
\* a matched release it does not have.
TypeOK == DataOK /\ ChannelOK /\ HandlerOK

\* The cross-source dedup holds over the whole feed: a release is never posted
\* while another wire's copy of it, or the 8-K that carries it, is younger than
\* its window -- however long the handler dawdles between the check and the
\* commit, and whatever is redelivered (with one subscriber).
NoFreshCopy ==
  \A e \in Stored \cap Releases, f \in Stored :
    Matches(e, f) /\ createdAt[f] < createdAt[e] =>
      /\ f \in Releases => createdAt[f] + CrossWire < createdAt[e]
      /\ f \in Filings => createdAt[f] + PRToFiling < createdAt[e]

\* A filing is the authoritative source of at most one release, one it matches,
\* even when it is redelivered after a crash and the newest match has changed.
OneReleasePerFiling ==
  \A r \in Events : link[r] # NoEvent =>
    /\ r \in Stored \cap Releases
    /\ link[r] \in Filings
    /\ Matches(link[r], r)
    /\ \A s \in Events : link[s] = link[r] => s = r

\* "never overwrite an earlier filing's link": an 8-K/A that refiles the same
\* release, or a second filing, leaves the first one's link alone.
LinkPermanent ==
  [][\A r \in Events : link[r] # NoEvent => link'[r] = link[r]]_vars

\* Nothing is dropped as a duplicate unless the feed holds what it duplicates.
DroppedIsCovered ==
  \A e \in Events : verdict[e] \in {"twin", "filed", "wrapper", "linked"} =>
    \E f \in Stored \ {e} : Matches(e, f)

\* Readers hear of an event over the socket and by alert at most once, whatever
\* is redelivered and however many processes handle the same message, and
\* never of one that is not stored, nor by alert before the socket.
AnnouncedOnce ==
  \A e \in Events :
    /\ fanouts[e] <= 1
    /\ alerts[e] <= fanouts[e]
    /\ fanouts[e] = 1 => e \in Stored

\* A stored event reaches the socket and the alert dispatcher, even when its
\* price reactions could not be scheduled ("failure here must never block event
\* delivery"), unless its own handler was killed or raised.
StoredIsAnnounced ==
  \A e \in Events :
    (e \in Stored) ~> (alerts[e] = 1 \/ verdict[e] = "failed")

\* "any substantive item beyond the PR means the 8-K still publishes": an 8-K
\* turned away because a release names it as its source is a wrapper or stored.
SubstanceIsPublished ==
  \A e \in Events : verdict[e] = "linked" => e \in Wrapper \/ e \in Stored

Promise == INSTANCE Feed WITH announced <- {e \in Events : fanouts[e] > 0}

\* The subscriber implements the feed it promises.
FeedSpec == Promise!Spec
=============================================================================
