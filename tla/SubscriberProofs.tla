-------------------------- MODULE SubscriberProofs --------------------------
(***************************************************************************)
(* What TLAPS proves of Subscriber, for any set of events, any fingerprint *)
(* relation, any windows and any number of publications and faults.        *)
(***************************************************************************)
EXTENDS Subscriber, SequenceTheorems, TLAPS

(***************************************************************************)
(* Type correctness.                                                       *)
(***************************************************************************)

\* Leaving the handler with any verdict keeps the handler's variables typed.
LEMMA FinishType ==
  ASSUME HandlerOK, NEW p \in Procs, pc[p] # "idle",
         NEW how \in Verdicts, Finish(p, how)
  PROVE  HandlerOK'
<1>1. Judged(p, how) \in Verdicts
  BY DEF HandlerOK, Judged
<1> QED
  BY <1>1 DEF HandlerOK, Finish, Steps

\* So does stepping on to a place that needs no matched release.
LEMMA GotoType ==
  ASSUME HandlerOK, NEW p \in Procs, pc[p] # "idle",
         NEW from, NEW to \in Steps \ {"idle", "link", "update"},
         Goto(p, from, to), UNCHANGED <<msg, pr, known, verdict>>
  PROVE  HandlerOK'
BY DEF HandlerOK, Goto

\* The wrapper decision ends the handling or steps on to the commit.
LEMMA SuppressType ==
  ASSUME HandlerOK, NEW p \in Procs, NEW from \in Steps \ {"idle"},
         SuppressOrStore(p, from)
  PROVE  HandlerOK'
<1>1. pc[p] # "idle"
  BY DEF SuppressOrStore
<1>2. CASE Suppress /\ msg[p] \in Wrapper
  <2>1. Finish(p, "wrapper") /\ "wrapper" \in Verdicts
    BY <1>2 DEF SuppressOrStore, Verdicts
  <2> QED
    BY <1>1, <2>1, FinishType
<1>3. CASE ~(Suppress /\ msg[p] \in Wrapper)
  <2>1. /\ Goto(p, from, "store")
        /\ pr' = [pr EXCEPT ![p] = NoEvent]
        /\ UNCHANGED <<msg, known, verdict>>
    BY <1>3 DEF SuppressOrStore
  <2> QED
    BY <1>1, <2>1 DEF HandlerOK, Goto, Steps
<1> QED
  BY <1>2, <1>3

\* Counting one more keeps a counter per event.
LEMMA CountType ==
  ASSUME NEW f \in [Events -> Nat], NEW e \in Events
  PROVE  [f EXCEPT ![e] = @ + 1] \in [Events -> Nat]
OBVIOUS

\* The tables, the emits and the counters keep their types.
LEMMA DataStep == TypeOK /\ [Next]_vars => DataOK'
<1> SUFFICES ASSUME TypeOK, [Next]_vars
             PROVE  DataOK'
  OBVIOUS
<1> USE DEF TypeOK, DataOK, tables, emitted
<1>1. CASE UNCHANGED vars
  BY <1>1 DEF vars, channel
<1>2. CASE Elapse
  BY <1>2 DEF Elapse, channel
<1>3. CASE \E e \in Events : Publish(e)
  BY <1>3 DEF Publish
<1>4. CASE \E c \in Companies : SyncCompany(c)
  BY <1>4 DEF SyncCompany, channel
<1>5. ASSUME NEW p \in Procs, Handle(p)
      PROVE  DataOK'
  <2>1. CASE Receive(p) \/ Check(p) \/ CheckTwin(p) \/ CheckFiling(p)
             \/ CheckLinked(p) \/ MatchRelease(p)
    BY <2>1 DEF Receive, Check, CheckTwin, CheckFiling, CheckLinked,
                MatchRelease, channel
  <2>2. CASE LinkRelease(p)
    <3>1. msg[p] \in Events
      BY <2>2 DEF LinkRelease, Goto, HandlerOK
    <3> QED
      BY <2>2, <3>1 DEF LinkRelease, channel
  <2>3. CASE EmitUpdate(p)
    <3>1. pr[p] \in Events
      BY <2>3 DEF EmitUpdate, SuppressOrStore, HandlerOK, Goto
    <3>2. updates' \in [Events -> Nat]
      BY <2>3, <3>1, CountType DEF EmitUpdate
    <3> QED
      BY <2>3, <3>2 DEF EmitUpdate, channel
  <2>4. CASE Store(p)
    <3>1. Issuer[msg[p]] # NoCompany => Issuer[msg[p]] \in Companies
      BY <2>4, SubscriberAssumption
         DEF Store, HandlerOK, SubscriberAssumption, KindsAssumption
    <3>2. now' \in Nat /\ createdAt' \in [Events -> Nat]
      BY <2>4 DEF Store
    <3>3. companies' \subseteq Companies
      BY <2>4, <3>1 DEF Store
    <3> QED
      BY <2>4, <3>2, <3>3 DEF Store, channel
  <2>5. CASE ScheduleReactions(p)
    <3>1. msg[p] \in Events
      BY <2>5 DEF ScheduleReactions, Goto, HandlerOK
    <3> QED
      BY <2>5, <3>1 DEF ScheduleReactions, channel
  <2>6. CASE FanOut(p)
    <3>1. msg[p] \in Events
      BY <2>6 DEF FanOut, Goto, HandlerOK
    <3>2. fanouts' \in [Events -> Nat]
      BY <2>6, <3>1, CountType DEF FanOut
    <3> QED
      BY <2>6, <3>2 DEF FanOut, channel
  <2>7. CASE TriggerAlerts(p)
    <3>1. msg[p] \in Events
      BY <2>7 DEF TriggerAlerts, HandlerOK
    <3>2. alerts' \in [Events -> Nat]
      BY <2>7, <3>1, CountType DEF TriggerAlerts
    <3> QED
      BY <2>7, <3>2 DEF TriggerAlerts, channel
  <2> QED
    BY <1>5, <2>1, <2>2, <2>3, <2>4, <2>5, <2>6, <2>7 DEF Handle
<1>6. ASSUME NEW p \in Procs, Subscribe(p) \/ Fail(p)
      PROVE  DataOK'
  BY <1>6 DEF Subscribe, Fail, LinkFails, ScheduleFails, Abort, Disconnect,
              Crash, channel
<1> QED
  BY <1>1, <1>2, <1>3, <1>4, <1>5, <1>6 DEF Next

\* The connections keep their types.
LEMMA ChannelStep == TypeOK /\ [Next]_vars => ChannelOK'
<1> SUFFICES ASSUME TypeOK, [Next]_vars
             PROVE  ChannelOK'
  OBVIOUS
<1> USE DEF TypeOK, ChannelOK, channel
<1>1. CASE UNCHANGED vars
  BY <1>1 DEF vars
<1>2. CASE Elapse \/ \E c \in Companies : SyncCompany(c)
  BY <1>2 DEF Elapse, SyncCompany
<1>3. ASSUME NEW e \in Events, Publish(e)
      PROVE  ChannelOK'
  <2>1. \A p \in Procs : Append(inbox[p], e) \in Seq(Events)
    BY AppendProperties
  <2> QED
    BY <1>3, <2>1 DEF Publish
<1>4. ASSUME NEW p \in Procs, Handle(p)
      PROVE  ChannelOK'
  <2>1. CASE Receive(p)
    <3>1. Tail(inbox[p]) \in Seq(Events)
      BY <2>1, HeadTailProperties DEF Receive
    <3> QED
      BY <2>1, <3>1 DEF Receive
  <2>2. CASE ~Receive(p)
    BY <1>4, <2>2 DEF Handle, Check, CheckTwin, CheckFiling, CheckLinked,
       MatchRelease, LinkRelease, EmitUpdate, Store, ScheduleReactions, FanOut,
       TriggerAlerts
  <2> QED
    BY <2>1, <2>2
<1>5. ASSUME NEW p \in Procs, Subscribe(p) \/ Fail(p)
      PROVE  ChannelOK'
  <2>1. <<>> \in Seq(Events)
    OBVIOUS
  <2> QED
    BY <1>5, <2>1 DEF Subscribe, Fail, LinkFails, ScheduleFails, Abort,
       Disconnect, Crash
<1> QED
  BY <1>1, <1>2, <1>3, <1>4, <1>5 DEF Next

\* The handler's own variables keep their types.
LEMMA HandlerStep == TypeOK /\ [Next]_vars => HandlerOK'
<1> SUFFICES ASSUME TypeOK, [Next]_vars
             PROVE  HandlerOK'
  OBVIOUS
<1>0. HandlerOK
  BY DEF TypeOK
<1>1. CASE UNCHANGED vars
  BY <1>0, <1>1 DEF vars, handler, HandlerOK
<1>2. CASE Elapse \/ (\E c \in Companies : SyncCompany(c))
             \/ (\E e \in Events : Publish(e))
  BY <1>0, <1>2 DEF Elapse, SyncCompany, Publish, handler, HandlerOK
<1>3. ASSUME NEW p \in Procs, Handle(p)
      PROVE  HandlerOK'
  <2> USE <1>0
  <2>1. CASE Receive(p)
    <3>1. Head(inbox[p]) \in Events
      BY <2>1, HeadTailProperties DEF Receive, TypeOK, ChannelOK
    <3> QED
      BY <2>1, <3>1 DEF Receive, Goto, HandlerOK, Steps
  <2>2. CASE Check(p)
    <3>1. CASE Finish(p, "stored")
      BY <2>2, <3>1, FinishType DEF Check, Verdicts
    <3>2. CASE /\ Goto(p, "check", AfterCheck(msg[p]))
               /\ known' = [known EXCEPT ![p] = Issuer[msg[p]] \in companies]
               /\ UNCHANGED <<msg, pr, verdict>>
      <4>1. AfterCheck(msg[p]) \in {"store", "twin", "linked"}
        BY DEF AfterCheck
      <4>2. known' \in [Procs -> BOOLEAN]
        BY <3>2 DEF HandlerOK
      <4> QED
        BY <3>2, <4>1, <4>2 DEF Goto, HandlerOK, Steps
    <3> QED
      BY <2>2, <3>1, <3>2 DEF Check
  <2>3. CASE CheckTwin(p)
    BY <2>3, FinishType, GotoType DEF CheckTwin, Steps, Verdicts
  <2>4. CASE CheckFiling(p)
    BY <2>4, FinishType, GotoType DEF CheckFiling, Steps, Verdicts
  <2>5. CASE CheckLinked(p)
    BY <2>5, FinishType, GotoType DEF CheckLinked, Steps, Verdicts
  <2>6. CASE MatchRelease(p)
    <3>1. CASE SuppressOrStore(p, "match")
      BY <3>1, SuppressType DEF Steps
    <3>2. CASE Goto(p, "match", "store") /\ UNCHANGED <<msg, pr, known, verdict>>
      BY <2>6, <3>2, GotoType DEF MatchRelease, Steps
    <3>3. ASSUME NEW r \in Events, Goto(p, "match", "link"),
                 pr' = [pr EXCEPT ![p] = r], UNCHANGED <<msg, known, verdict>>
          PROVE  HandlerOK'
      BY <3>3 DEF Goto, HandlerOK, Steps
    <3> QED
      BY <2>6, <3>1, <3>2, <3>3 DEF MatchRelease, MostRecent, Candidates, Stored
  <2>7. CASE LinkRelease(p)
    BY <2>7 DEF LinkRelease, Goto, HandlerOK, Steps
  <2>8. CASE EmitUpdate(p)
    BY <2>8, SuppressType DEF EmitUpdate, Steps
  <2>9. CASE Store(p)
    <3>1. CASE Finish(p, "failed") \/ Finish(p, "stored")
      BY <2>9, <3>1, FinishType DEF Store, Verdicts
    <3>2. CASE /\ Goto(p, "store", "react")
               /\ verdict' = [verdict EXCEPT ![msg[p]] = "stored"]
               /\ UNCHANGED <<msg, pr, known>>
      BY <3>2 DEF Goto, HandlerOK, Steps, Verdicts
    <3> QED
      BY <2>9, <3>1, <3>2 DEF Store
  <2>10. CASE ScheduleReactions(p) \/ FanOut(p)
    BY <2>10 DEF ScheduleReactions, FanOut, Goto, HandlerOK, Steps
  <2>11. CASE TriggerAlerts(p)
    BY <2>11, FinishType DEF TriggerAlerts, Verdicts
  <2> QED
    BY <1>3, <2>1, <2>2, <2>3, <2>4, <2>5, <2>6, <2>7, <2>8, <2>9, <2>10,
       <2>11 DEF Handle
<1>4. ASSUME NEW p \in Procs, Subscribe(p) \/ Fail(p)
      PROVE  HandlerOK'
  <2>1. CASE LinkFails(p)
    BY <1>0, <2>1, SuppressType DEF LinkFails, Steps
  <2>2. CASE ScheduleFails(p)
    BY <1>0, <2>2 DEF ScheduleFails, Goto, HandlerOK, Steps
  <2>3. CASE Abort(p) \/ Crash(p)
    BY <1>0, <2>3, FinishType DEF Abort, Crash, Verdicts
  <2>4. CASE Subscribe(p) \/ Disconnect(p)
    BY <1>0, <2>4 DEF Subscribe, Disconnect, handler, HandlerOK
  <2> QED
    BY <1>4, <2>1, <2>2, <2>3, <2>4 DEF Fail
<1> QED
  BY <1>1, <1>2, <1>3, <1>4 DEF Next

\* Every variable of the subscriber keeps its type, for any constants, and no
\* step of the handler uses an event or a release it does not have.
THEOREM TypeCorrect == Spec => []TypeOK
<1>1. Init => TypeOK
  BY DEF Init, TypeOK, DataOK, ChannelOK, HandlerOK, Steps, Verdicts
<1>2. TypeOK /\ [Next]_vars => TypeOK'
  BY DataStep, ChannelStep, HandlerStep DEF TypeOK
<1> QED
  BY <1>1, <1>2, PTL DEF Spec
(***************************************************************************)
(* How a step moves a process through the handler.                         *)
(***************************************************************************)

\* Only p moves.
OthersStay(p) ==
  \A q \in Procs \ {p} :
    pc'[q] = pc[q] /\ msg'[q] = msg[q] /\ pr'[q] = pr[q]

\* The handler's steps up to the commit, and the ways out of it.
Early(p) ==
  \/ Receive(p) \/ Check(p) \/ CheckTwin(p) \/ CheckFiling(p)
  \/ CheckLinked(p) \/ MatchRelease(p) \/ LinkRelease(p) \/ EmitUpdate(p)
  \/ LinkFails(p) \/ Abort(p) \/ Crash(p)

LEMMA FinishMoves ==
  ASSUME HandlerOK, NEW p \in Procs, NEW how, Finish(p, how)
  PROVE  OthersStay(p) /\ pc'[p] = "idle"
BY DEF HandlerOK, Finish, OthersStay

LEMMA SuppressMoves ==
  ASSUME HandlerOK, NEW p \in Procs, NEW from, SuppressOrStore(p, from)
  PROVE  /\ OthersStay(p)
         /\ pc[p] = from
         /\ pc'[p] = "idle" \/ (pc'[p] = "store" /\ msg'[p] = msg[p])
<1>1. CASE Finish(p, "wrapper")
  BY <1>1, FinishMoves DEF SuppressOrStore
<1>2. CASE ~Finish(p, "wrapper")
  BY <1>2 DEF SuppressOrStore, Goto, HandlerOK, OthersStay
<1> QED
  BY <1>1, <1>2

\* A match is a stored release of the same company with the same text.
LEMMA MatchMoves ==
  ASSUME HandlerOK, NEW p \in Procs, MatchRelease(p)
  PROVE  /\ pc[p] = "match"
         /\ OthersStay(p)
         /\ \/ pc'[p] = "idle"
            \/ pc'[p] = "store" /\ msg'[p] = msg[p]
            \/ /\ pc'[p] = "link"
               /\ msg'[p] = msg[p]
               /\ pr'[p] \in Stored \cap Releases
               /\ Matches(msg[p], pr'[p])
               /\ link[pr'[p]] = NoEvent
<1>1. pc[p] = "match"
  BY DEF MatchRelease
<1>2. CASE SuppressOrStore(p, "match")
  BY <1>1, <1>2, SuppressMoves
<1>3. CASE Goto(p, "match", "store") /\ UNCHANGED <<msg, pr, known, verdict>>
  BY <1>1, <1>3 DEF Goto, HandlerOK, OthersStay
<1>4. ASSUME NEW r \in Candidates(msg[p], Releases, PRToFiling),
             link[r] = NoEvent, Goto(p, "match", "link"),
             pr' = [pr EXCEPT ![p] = r], UNCHANGED <<msg, known, verdict>>
      PROVE  /\ OthersStay(p)
             /\ pc'[p] = "link"
             /\ msg'[p] = msg[p]
             /\ pr'[p] \in Stored \cap Releases
             /\ Matches(msg[p], pr'[p])
             /\ link[pr'[p]] = NoEvent
  <2>1. pr'[p] = r /\ pc'[p] = "link" /\ msg'[p] = msg[p]
    BY <1>4 DEF Goto, HandlerOK
  <2>2. r \in Stored \cap Releases /\ Matches(msg[p], r)
    BY <1>4 DEF Candidates
  <2>3. OthersStay(p)
    BY <1>4 DEF Goto, HandlerOK, OthersStay
  <2> QED
    BY <1>4, <2>1, <2>2, <2>3
<1> QED
  BY <1>1, <1>2, <1>3, <1>4 DEF MatchRelease, MostRecent

LEMMA EarlyMoves ==
  ASSUME HandlerOK, NEW p \in Procs, Early(p)
  PROVE  /\ OthersStay(p)
         /\ pc'[p] \notin AfterStore
         /\ UNCHANGED <<createdAt, fanouts, alerts>>
<1> USE DEF tables, emitted, AfterStore
<1>1. CASE Receive(p)
  BY <1>1 DEF Receive, Goto, HandlerOK, OthersStay
<1>2. CASE Check(p)
  <2>1. CASE Finish(p, "stored")
    BY <1>2, <2>1, FinishMoves DEF Check
  <2>2. CASE ~Finish(p, "stored")
    <3>1. AfterCheck(msg[p]) \in {"store", "twin", "linked"}
      BY DEF AfterCheck
    <3> QED
      BY <1>2, <2>2, <3>1 DEF Check, Goto, HandlerOK, OthersStay
  <2> QED
    BY <2>1, <2>2
<1>3. CASE CheckTwin(p)
  BY <1>3, FinishMoves DEF CheckTwin, Goto, HandlerOK, OthersStay
<1>4. CASE CheckFiling(p)
  BY <1>4, FinishMoves DEF CheckFiling, Goto, HandlerOK, OthersStay
<1>5. CASE CheckLinked(p)
  BY <1>5, FinishMoves DEF CheckLinked, Goto, HandlerOK, OthersStay
<1>6. CASE MatchRelease(p)
  <2>1. UNCHANGED <<createdAt, fanouts, alerts>>
    BY <1>6 DEF MatchRelease
  <2> QED
    BY <1>6, <2>1, MatchMoves
<1>7. CASE LinkRelease(p)
  BY <1>7 DEF LinkRelease, Goto, HandlerOK, OthersStay
<1>8. CASE EmitUpdate(p)
  BY <1>8, SuppressMoves DEF EmitUpdate
<1>9. CASE LinkFails(p)
  BY <1>9, SuppressMoves DEF LinkFails
<1>10. CASE Abort(p) \/ Crash(p)
  BY <1>10, FinishMoves DEF Abort, Crash
<1> QED
  BY <1>1, <1>2, <1>3, <1>4, <1>5, <1>6, <1>7, <1>8, <1>9, <1>10 DEF Early

\* A commit either posts a new event and goes on, or ends the handling.
LEMMA StoreMoves ==
  ASSUME HandlerOK, NEW p \in Procs, Store(p)
  PROVE  /\ OthersStay(p)
         /\ pc[p] = "store"
         /\ UNCHANGED <<link, fanouts, alerts>>
         /\ \/ pc'[p] = "idle" /\ UNCHANGED <<now, createdAt>>
            \/ /\ msg[p] \in Events \ Stored
               /\ pc'[p] = "react"
               /\ msg'[p] = msg[p]
               /\ now' = now + 1
               /\ createdAt' = [createdAt EXCEPT ![msg[p]] = now']
<1> USE DEF emitted
<1>1. CASE Finish(p, "failed") \/ Finish(p, "stored")
  <2>1. OthersStay(p) /\ pc'[p] = "idle"
    BY <1>1, FinishMoves
  <2>2. UNCHANGED <<now, createdAt>>
    BY <2>1 DEF Store, Goto, HandlerOK
  <2> QED
    BY <2>1, <2>2 DEF Store
<1>2. CASE ~(Finish(p, "failed") \/ Finish(p, "stored"))
  BY <1>2 DEF Store, Goto, HandlerOK, OthersStay, Stored
<1> QED
  BY <1>1, <1>2

(***************************************************************************)
(* Announced once, with any number of processes.                           *)
(***************************************************************************)

\* Why AnnouncedOnce holds: an event that is not stored was never announced; a
\* process between the commit and the alert holds an event it alone stored, and
\* announced as far as it got.
AnnounceInv ==
  /\ \A e \in Events :
       /\ fanouts[e] <= 1
       /\ alerts[e] <= fanouts[e]
       /\ e \notin Stored => fanouts[e] = 0
  /\ \A p \in Procs :
       /\ pc[p] \in AfterStore => msg[p] \in Stored /\ alerts[msg[p]] = 0
       /\ pc[p] \in {"react", "fanout"} => fanouts[msg[p]] = 0
       /\ pc[p] = "alert" => fanouts[msg[p]] = 1
  /\ \A p, q \in Procs :
       pc[p] \in AfterStore /\ pc[q] \in AfterStore /\ msg[p] = msg[q] => p = q

\* A step that announces nothing, and leaves p out of the announcing steps.
LEMMA AnnounceQuiet ==
  ASSUME AnnounceInv, NEW p \in Procs, OthersStay(p),
         pc'[p] \notin AfterStore, UNCHANGED <<createdAt, fanouts, alerts>>
  PROVE  AnnounceInv'
<1>1. \A q \in Procs : pc'[q] \in AfterStore =>
        q # p /\ pc'[q] = pc[q] /\ msg'[q] = msg[q]
  BY DEF OthersStay
<1>2. Stored' = Stored
  BY DEF Stored
<1> QED
  BY <1>1, <1>2 DEF AnnounceInv, AfterStore

LEMMA AnnounceStep == TypeOK /\ AnnounceInv /\ [Next]_vars => AnnounceInv'
<1> SUFFICES ASSUME TypeOK, AnnounceInv, [Next]_vars
             PROVE  AnnounceInv'
  OBVIOUS
<1>0. HandlerOK /\ DataOK
  BY DEF TypeOK
<1>1. CASE UNCHANGED <<createdAt, fanouts, alerts, pc, msg>>
  BY <1>1 DEF AnnounceInv, Stored
<1>2. CASE \/ UNCHANGED vars \/ Elapse
           \/ \E e \in Events : Publish(e)
           \/ \E c \in Companies : SyncCompany(c)
           \/ \E p \in Procs : Subscribe(p) \/ Disconnect(p)
  <2>1. UNCHANGED <<createdAt, fanouts, alerts, pc, msg>>
    BY <1>2 DEF Elapse, Publish, SyncCompany, Subscribe, Disconnect, vars,
                tables, emitted, handler
  <2> QED
    BY <1>1, <2>1
<1>3. ASSUME NEW p \in Procs, Early(p)
      PROVE  AnnounceInv'
  BY <1>0, <1>3, EarlyMoves, AnnounceQuiet
<1>4. ASSUME NEW p \in Procs, Store(p)
      PROVE  AnnounceInv'
  <2>1. OthersStay(p) /\ pc[p] = "store" /\ UNCHANGED <<fanouts, alerts>>
    BY <1>0, <1>4, StoreMoves
  <2>2. CASE pc'[p] = "idle" /\ UNCHANGED <<now, createdAt>>
    BY <2>1, <2>2, AnnounceQuiet DEF AfterStore
  <2>3. CASE /\ msg[p] \in Events \ Stored
             /\ pc'[p] = "react"
             /\ msg'[p] = msg[p]
             /\ now' = now + 1
             /\ createdAt' = [createdAt EXCEPT ![msg[p]] = now']
    <3>1. Stored' = Stored \cup {msg[p]}
      BY <1>0, <2>3 DEF Stored, DataOK
    <3>2. \A q \in Procs : q # p /\ pc'[q] \in AfterStore =>
            pc'[q] = pc[q] /\ msg'[q] = msg[q] /\ msg'[q] # msg'[p]
      BY <2>1, <2>3 DEF OthersStay, AnnounceInv
    <3>3. fanouts[msg[p]] = 0 /\ alerts[msg[p]] = 0
      BY <1>0, <2>3 DEF AnnounceInv, DataOK
    <3> QED
      BY <2>1, <2>3, <3>1, <3>2, <3>3 DEF AnnounceInv, AfterStore
  <2> QED
    BY <1>0, <1>4, <2>2, <2>3, StoreMoves
<1>5. ASSUME NEW p \in Procs, ScheduleReactions(p) \/ ScheduleFails(p)
      PROVE  AnnounceInv'
  <2>1. /\ pc[p] = "react" /\ pc' = [pc EXCEPT ![p] = "fanout"]
        /\ UNCHANGED <<createdAt, fanouts, alerts, msg>>
    BY <1>5 DEF ScheduleReactions, ScheduleFails, Goto, tables, emitted
  <2>2. \A q \in Procs : /\ q # p => pc'[q] = pc[q]
                         /\ pc'[q] \in AfterStore <=> pc[q] \in AfterStore
    BY <1>0, <2>1 DEF HandlerOK, AfterStore
  <2>3. pc'[p] = "fanout" /\ Stored' = Stored
    BY <1>0, <2>1 DEF HandlerOK, Stored
  <2> QED
    BY <2>1, <2>2, <2>3 DEF AnnounceInv
<1>6. ASSUME NEW p \in Procs, FanOut(p)
      PROVE  AnnounceInv'
  <2>1. /\ pc[p] = "fanout" /\ pc' = [pc EXCEPT ![p] = "alert"]
        /\ fanouts' = [fanouts EXCEPT ![msg[p]] = @ + 1]
        /\ UNCHANGED <<createdAt, alerts, msg>>
    BY <1>6 DEF FanOut, Goto, tables
  <2>2. \A q \in Procs : /\ q # p => pc'[q] = pc[q]
                         /\ pc'[q] \in AfterStore <=> pc[q] \in AfterStore
    BY <1>0, <2>1 DEF HandlerOK, AfterStore
  <2>3. pc'[p] = "alert" /\ Stored' = Stored
    BY <1>0, <2>1 DEF HandlerOK, Stored
  <2>4. msg[p] \in Stored /\ fanouts[msg[p]] = 0 /\ alerts[msg[p]] = 0
    BY <2>1 DEF AnnounceInv, AfterStore
  <2>5. \A e \in Events : fanouts'[e] = IF e = msg[p] THEN 1 ELSE fanouts[e]
    BY <1>0, <2>1, <2>4 DEF DataOK
  <2>6. \A q \in Procs : q # p /\ pc[q] \in AfterStore => msg[q] # msg[p]
    BY <2>1 DEF AnnounceInv, AfterStore
  <2>7. Stored \subseteq Events
    BY DEF Stored
  <2>8. \A e \in Events : /\ fanouts'[e] <= 1
                          /\ alerts'[e] <= fanouts'[e]
                          /\ e \notin Stored' => fanouts'[e] = 0
    BY <2>1, <2>3, <2>4, <2>5 DEF AnnounceInv
  <2>9. ASSUME NEW q \in Procs
        PROVE  /\ pc'[q] \in AfterStore =>
                    msg'[q] \in Stored' /\ alerts'[msg'[q]] = 0
               /\ pc'[q] \in {"react", "fanout"} => fanouts'[msg'[q]] = 0
               /\ pc'[q] = "alert" => fanouts'[msg'[q]] = 1
    BY <2>1, <2>2, <2>3, <2>4, <2>5, <2>6, <2>7 DEF AnnounceInv, AfterStore
  <2> QED
    BY <2>1, <2>2, <2>8, <2>9 DEF AnnounceInv
<1>7. ASSUME NEW p \in Procs, TriggerAlerts(p)
      PROVE  AnnounceInv'
  <2>1. /\ pc[p] = "alert" /\ OthersStay(p) /\ pc'[p] = "idle"
        /\ alerts' = [alerts EXCEPT ![msg[p]] = @ + 1]
        /\ UNCHANGED <<createdAt, fanouts>>
    BY <1>0, <1>7, FinishMoves DEF TriggerAlerts, tables
  <2>2. msg[p] \in Stored /\ fanouts[msg[p]] = 1 /\ alerts[msg[p]] = 0
    BY <2>1 DEF AnnounceInv, AfterStore
  <2>3. \A e \in Events : alerts'[e] = IF e = msg[p] THEN 1 ELSE alerts[e]
    BY <1>0, <2>1, <2>2 DEF DataOK
  <2>4. \A q \in Procs : pc'[q] \in AfterStore =>
          q # p /\ pc'[q] = pc[q] /\ msg'[q] = msg[q] /\ msg[q] # msg[p]
    BY <2>1 DEF AnnounceInv, AfterStore, OthersStay
  <2>5. Stored' = Stored /\ Stored \subseteq Events
    BY <2>1 DEF Stored
  <2> QED
    BY <2>1, <2>2, <2>3, <2>4, <2>5 DEF AnnounceInv, AfterStore
<1> QED
  BY <1>1, <1>2, <1>3, <1>4, <1>5, <1>6, <1>7 DEF Next, Handle, Fail, Early

\* For any number of API processes, redeliveries, crashes and failures, an event
\* is emitted to the readers and handed to the alert dispatcher at most once,
\* and only after it was stored.
THEOREM AnnouncedAtMostOnce == Spec => []AnnouncedOnce
<1>1. Init => TypeOK
  BY DEF Init, TypeOK, DataOK, ChannelOK, HandlerOK, Steps, Verdicts
<1>2. Init => AnnounceInv
  BY DEF Init, AnnounceInv, AfterStore
<1>3. TypeOK /\ [Next]_vars => TypeOK'
  BY DataStep, ChannelStep, HandlerStep DEF TypeOK
<1>4. AnnounceInv => AnnouncedOnce
  BY DEF AnnounceInv, AnnouncedOnce
<1> QED
  BY <1>1, <1>2, <1>3, <1>4, AnnounceStep, PTL DEF Spec

(***************************************************************************)
(* Nothing dropped without its cover, with any number of processes.        *)
(***************************************************************************)

\* The verdicts that turn an event away as a duplicate.
Dropped == {"twin", "filed", "wrapper", "linked"}

\* Why DroppedIsCovered holds: whatever a release is linked to matches it, and so
\* does the release in the hand of the handler that links.  Rows are never
\* deleted, and an event already stored keeps the verdict it has.
CoverInv ==
  /\ DroppedIsCovered
  /\ \A r \in Events : link[r] # NoEvent => r \in Stored /\ Matches(link[r], r)
  /\ \A p \in Procs : pc[p] \in {"link", "update"} =>
       pr[p] \in Stored /\ Matches(msg[p], pr[p])

\* A handling that ends as a duplicate of a stored event is covered by it: the
\* event in hand, if its verdict changes, is not stored and so another one.
LEMMA FinishCovers ==
  ASSUME HandlerOK, DroppedIsCovered, NEW p \in Procs, pc[p] # "idle",
         UNCHANGED createdAt, NEW how, Finish(p, how),
         how \in Dropped => \E f \in Stored : Matches(msg[p], f),
         pc[p] \in AfterStore => how \notin Dropped
  PROVE  DroppedIsCovered'
<1>1. Stored' = Stored /\ msg[p] \in Events
  BY DEF Stored, HandlerOK
<1> SUFFICES ASSUME NEW e \in Events, verdict'[e] \in Dropped
             PROVE  \E f \in Stored \ {e} : Matches(e, f)
  BY <1>1 DEF DroppedIsCovered, Dropped, Matches
<1>2. verdict'[e] = IF e = msg[p] THEN Judged(p, how) ELSE verdict[e]
  BY <1>1 DEF Finish, HandlerOK
<1>3. CASE verdict'[e] = verdict[e]
  BY <1>3 DEF DroppedIsCovered, Dropped
<1>4. CASE e = msg[p] /\ verdict'[e] = how /\ how # verdict[e]
  <2>1. pc[p] \notin AfterStore
    BY <1>4
  <2>2. e \notin Stored
    BY <1>2, <1>4, <2>1 DEF Judged
  <2> QED
    BY <1>4, <2>2
<1> QED
  BY <1>2, <1>3, <1>4 DEF Judged

\* The wrapper decision, with a matched release at hand.
LEMMA SuppressCovers ==
  ASSUME HandlerOK, DroppedIsCovered, NEW p \in Procs, UNCHANGED createdAt,
         NEW from \in {"match", "link", "update"}, SuppressOrStore(p, from),
         \E f \in Stored : Matches(msg[p], f)
  PROVE  DroppedIsCovered'
<1>1. pc[p] = from /\ pc[p] # "idle" /\ pc[p] \notin AfterStore
  BY DEF SuppressOrStore, AfterStore
<1>2. CASE Finish(p, "wrapper")
  BY <1>1, <1>2, FinishCovers
<1>3. CASE UNCHANGED verdict
  BY <1>3 DEF DroppedIsCovered, Stored, Matches
<1> QED
  BY <1>2, <1>3 DEF SuppressOrStore

\* A step that leaves the verdicts alone and deletes no row.
LEMMA VerdictFrame ==
  ASSUME DroppedIsCovered, Stored \subseteq Stored', UNCHANGED verdict
  PROVE  DroppedIsCovered'
BY DEF DroppedIsCovered, Matches

\* No row is ever deleted.
LEMMA StoredGrows ==
  ASSUME TypeOK, [Next]_vars
  PROVE  Stored \subseteq Stored'
<1>0. HandlerOK /\ DataOK
  BY DEF TypeOK
<1>1. ASSUME NEW p \in Procs, Store(p)
      PROVE  Stored \subseteq Stored'
  BY <1>0, <1>1, StoreMoves DEF Stored, DataOK
<1>2. CASE ~\E p \in Procs : Store(p)
  <2>1. UNCHANGED createdAt
    BY <1>2 DEF Next, vars, tables, Elapse, Publish, SyncCompany, Subscribe,
       Handle, Fail, Receive, Check, CheckTwin, CheckFiling, CheckLinked,
       MatchRelease, LinkRelease, EmitUpdate, ScheduleReactions, FanOut,
       TriggerAlerts, LinkFails, ScheduleFails, Abort, Disconnect, Crash
  <2> QED
    BY <2>1 DEF Stored
<1> QED
  BY <1>1, <1>2

LEMMA DroppedStep ==
  TypeOK /\ CoverInv /\ [Next]_vars => DroppedIsCovered'
<1> SUFFICES ASSUME TypeOK, CoverInv, [Next]_vars
             PROVE  DroppedIsCovered'
  OBVIOUS
<1>0. HandlerOK /\ DataOK /\ DroppedIsCovered /\ Stored \subseteq Stored'
  BY StoredGrows DEF TypeOK, CoverInv
<1>1. CASE UNCHANGED verdict
  BY <1>0, <1>1, VerdictFrame
<1>2. CASE \/ UNCHANGED vars \/ Elapse
           \/ \E e \in Events : Publish(e)
           \/ \E c \in Companies : SyncCompany(c)
           \/ \E p \in Procs :
                \/ Subscribe(p) \/ Disconnect(p) \/ Receive(p) \/ LinkRelease(p)
                \/ ScheduleReactions(p) \/ ScheduleFails(p) \/ FanOut(p)
  BY <1>1, <1>2 DEF Elapse, Publish, SyncCompany, Subscribe, Disconnect, Receive,
     LinkRelease, ScheduleReactions, ScheduleFails, FanOut, vars, handler
<1>3. ASSUME NEW p \in Procs, Abort(p) \/ Crash(p) \/ TriggerAlerts(p)
      PROVE  DroppedIsCovered'
  <2>1. UNCHANGED createdAt /\ pc[p] # "idle"
    BY <1>3 DEF Abort, Crash, TriggerAlerts, tables
  <2>2. Finish(p, "failed") \/ Finish(p, "stored")
    BY <1>3 DEF Abort, Crash, TriggerAlerts
  <2> QED
    BY <1>0, <2>1, <2>2, FinishCovers DEF Dropped
<1>4. ASSUME NEW p \in Procs, Check(p) \/ Store(p)
      PROVE  DroppedIsCovered'
  <2>1. CASE Finish(p, "failed") \/ Finish(p, "stored")
    <3>1. pc[p] \in {"check", "store"} /\ pc'[p] = "idle"
      BY <1>0, <1>4, <2>1, FinishMoves DEF Check, Store
    <3>2. UNCHANGED createdAt
      BY <1>0, <1>4, <3>1, StoreMoves DEF Check, tables
    <3> QED
      BY <1>0, <2>1, <3>1, <3>2, FinishCovers DEF Dropped
  <2>2. CASE UNCHANGED verdict
    BY <1>1, <2>2
  <2>3. CASE verdict' = [verdict EXCEPT ![msg[p]] = "stored"]
    BY <1>0, <2>3 DEF DroppedIsCovered, HandlerOK, Matches
  <2> QED
    BY <1>4, <2>1, <2>2, <2>3 DEF Check, Store
<1>5. ASSUME NEW p \in Procs, CheckTwin(p) \/ CheckFiling(p) \/ CheckLinked(p)
      PROVE  DroppedIsCovered'
  <2>1. UNCHANGED createdAt /\ pc[p] \notin AfterStore \cup {"idle"}
    BY <1>5 DEF CheckTwin, CheckFiling, CheckLinked, tables, AfterStore
  <2>2. msg[p] \in Events /\ msg[p] # NoEvent
    BY <1>0, <2>1, SubscriberAssumption
       DEF HandlerOK, SubscriberAssumption, KindsAssumption
  <2>3. ASSUME NEW how, Finish(p, how), \E f \in Stored : Matches(msg[p], f)
        PROVE  DroppedIsCovered'
    BY <1>0, <2>1, <2>3, FinishCovers
  <2>4. CASE CheckTwin(p)
    BY <1>1, <2>3, <2>4 DEF CheckTwin, Candidates
  <2>5. CASE CheckFiling(p)
    BY <1>1, <2>3, <2>5 DEF CheckFiling, Candidates
  <2>6. CASE CheckLinked(p)
    <3>1. CASE \E r \in Stored : link[r] = msg[p]
      <4>1. \E f \in Stored : Matches(msg[p], f)
        BY <2>2, <3>1 DEF CoverInv, Stored
      <4> QED
        BY <2>3, <2>6, <3>1, <4>1 DEF CheckLinked
    <3> QED
      BY <1>1, <2>6, <3>1 DEF CheckLinked
  <2> QED
    BY <1>5, <2>4, <2>5, <2>6
<1>6. ASSUME NEW p \in Procs, MatchRelease(p)
      PROVE  DroppedIsCovered'
  <2>1. CASE SuppressOrStore(p, "match") /\
             Candidates(msg[p], Releases, PRToFiling) # {}
    <3>1. UNCHANGED createdAt
      BY <1>6 DEF MatchRelease, tables
    <3>2. \E f \in Stored : Matches(msg[p], f)
      BY <2>1 DEF Candidates
    <3> QED
      BY <1>0, <2>1, <3>1, <3>2, SuppressCovers
  <2> QED
    BY <1>1, <1>6, <2>1 DEF MatchRelease, MostRecent
<1>7. ASSUME NEW p \in Procs, LinkFails(p) \/ EmitUpdate(p)
      PROVE  DroppedIsCovered'
  <2>1. UNCHANGED createdAt
    BY <1>7 DEF LinkFails, EmitUpdate, tables
  <2>2. PICK from \in {"link", "update"} : SuppressOrStore(p, from)
    BY <1>7 DEF LinkFails, EmitUpdate
  <2>3. \E f \in Stored : Matches(msg[p], f)
    BY <2>2 DEF SuppressOrStore, CoverInv
  <2> QED
    BY <1>0, <2>1, <2>2, <2>3, SuppressCovers
<1> QED
  BY <1>2, <1>3, <1>4, <1>5, <1>6, <1>7 DEF Next, Handle, Fail

\* What a handler holds between the match and the backfill still matches.
LEMMA CoverStep == TypeOK /\ CoverInv /\ [Next]_vars => CoverInv'
<1> SUFFICES ASSUME TypeOK, CoverInv, [Next]_vars
             PROVE  CoverInv'
  OBVIOUS
<1>0. /\ HandlerOK /\ DataOK /\ Stored \subseteq Stored' /\ DroppedIsCovered'
      /\ Stored \subseteq Events
  BY StoredGrows, DroppedStep DEF TypeOK, Stored
<1>1. \A r \in Events : link'[r] # NoEvent =>
        r \in Stored /\ Matches(link'[r], r)
  <2>1. ASSUME NEW p \in Procs, LinkRelease(p)
        PROVE  \A r \in Events : link'[r] # NoEvent =>
                 r \in Stored /\ Matches(link'[r], r)
    BY <1>0, <2>1 DEF LinkRelease, Goto, CoverInv, DataOK
  <2>2. CASE ~\E p \in Procs : LinkRelease(p)
    <3>1. UNCHANGED link
      BY <2>2 DEF Next, vars, tables, Elapse, Publish, SyncCompany, Subscribe,
         Handle, Fail, Receive, Check, CheckTwin, CheckFiling, CheckLinked,
         MatchRelease, EmitUpdate, Store, ScheduleReactions, FanOut,
         TriggerAlerts, LinkFails, ScheduleFails, Abort, Disconnect, Crash
    <3> QED
      BY <3>1 DEF CoverInv
  <2> QED
    BY <2>1, <2>2
<1>2. ASSUME NEW p \in Procs, OthersStay(p),
             pc'[p] \in {"link", "update"} =>
               pr'[p] \in Stored /\ Matches(msg'[p], pr'[p])
      PROVE  CoverInv'
  BY <1>0, <1>1, <1>2 DEF CoverInv, OthersStay, Matches
<1>3. CASE \/ UNCHANGED vars \/ Elapse
           \/ \E e \in Events : Publish(e)
           \/ \E c \in Companies : SyncCompany(c)
           \/ \E p \in Procs : Subscribe(p) \/ Disconnect(p)
  <2>1. UNCHANGED <<pc, msg, pr>>
    BY <1>3 DEF Elapse, Publish, SyncCompany, Subscribe, Disconnect, vars, handler
  <2> QED
    BY <1>0, <1>1, <2>1 DEF CoverInv, Matches
<1>4. ASSUME NEW p \in Procs, Early(p)
      PROVE  CoverInv'
  <2>1. OthersStay(p)
    BY <1>0, <1>4, EarlyMoves
  <2>2. CASE MatchRelease(p)
    <3>1. pc'[p] \in {"link", "update"} =>
            pr'[p] \in Stored /\ Matches(msg'[p], pr'[p])
      BY <1>0, <2>2, MatchMoves
    <3> QED
      BY <1>2, <2>1, <3>1
  <2>3. CASE LinkRelease(p)
    <3>1. pr'[p] \in Stored /\ Matches(msg'[p], pr'[p])
      BY <2>3 DEF LinkRelease, Goto, CoverInv
    <3> QED
      BY <1>2, <2>1, <3>1
  <2>4. CASE ~(MatchRelease(p) \/ LinkRelease(p))
    <3>1. pc'[p] \notin {"link", "update"}
      BY <1>0, <1>4, <2>4, FinishMoves, SuppressMoves
         DEF Early, Receive, Check, AfterCheck, CheckTwin, CheckFiling,
             CheckLinked, EmitUpdate, LinkFails, Abort, Crash, Goto, HandlerOK
    <3> QED
      BY <1>2, <2>1, <3>1
  <2> QED
    BY <2>2, <2>3, <2>4
<1>5. ASSUME NEW p \in Procs,
             Store(p) \/ ScheduleReactions(p) \/ ScheduleFails(p) \/ FanOut(p)
               \/ TriggerAlerts(p)
      PROVE  CoverInv'
  <2>1. OthersStay(p) /\ pc'[p] \notin {"link", "update"}
    BY <1>0, <1>5, FinishMoves, StoreMoves
       DEF ScheduleReactions, ScheduleFails, FanOut, TriggerAlerts, Goto,
           HandlerOK, OthersStay
  <2> QED
    BY <1>2, <2>1
<1> QED
  BY <1>3, <1>4, <1>5 DEF Next, Handle, Fail, Early

\* For any number of API processes, redeliveries, crashes and failed commits, no
\* event is turned away as a duplicate unless the feed holds another event of
\* the same company with the same text.
THEOREM DroppedAlwaysCovered == Spec => []DroppedIsCovered
<1>1. TypeOK /\ [Next]_vars => TypeOK'
  BY DataStep, ChannelStep, HandlerStep DEF TypeOK
<1>2. Init => TypeOK /\ CoverInv
  BY DEF Init, TypeOK, DataOK, ChannelOK, HandlerOK, Steps, Verdicts, CoverInv,
         DroppedIsCovered
<1>3. CoverInv => DroppedIsCovered
  BY DEF CoverInv
<1> QED
  BY <1>1, <1>2, <1>3, CoverStep, PTL DEF Spec

(***************************************************************************)
(* The dedup, with one process.                                            *)
(***************************************************************************)

\* "One process => one subscriber."
OneProcess == \A p, q \in Procs : p = q

\* Why OneReleasePerFiling and LinkPermanent hold: past the redelivery guard, the
\* filing in hand is not stored and no release names it; and the release it
\* matched has no link yet.
LinkInv ==
  /\ OneReleasePerFiling
  /\ \A p \in Procs :
       /\ pc[p] \in {"linked", "match", "link"} =>
            msg[p] \in Filings \ Stored
       /\ pc[p] \in {"match", "link"} =>
            \A r \in Events : link[r] # msg[p]
       /\ pc[p] = "link" =>
            /\ pr[p] \in Stored \cap Releases
            /\ Matches(msg[p], pr[p])
            /\ link[pr[p]] = NoEvent

\* Why NoFreshCopy holds: what a release's handler found too old stays too old,
\* and nothing is created in the future.
FreshInv ==
  /\ NoFreshCopy
  /\ \A e \in Events : createdAt[e] <= now
  /\ \A p \in Procs :
       /\ pc[p] \in {"twin", "filing"} => msg[p] \in Releases
       /\ pc[p] \in {"linked", "match", "link", "update"} => msg[p] \notin Releases
       /\ pc[p] \in {"filing", "store"} /\ msg[p] \in Releases =>
            \A f \in Stored \cap Releases :
              Matches(msg[p], f) => createdAt[f] + CrossWire < now
       /\ pc[p] = "store" /\ msg[p] \in Releases =>
            \A f \in Stored \cap Filings :
              Matches(msg[p], f) => createdAt[f] + PRToFiling < now
\* With one process, a step of p is a step of the only handler.
LEMMA OnlyOne ==
  ASSUME OneProcess, NEW p \in Procs
  PROVE  Procs = {p}
BY DEF OneProcess

\* The invariants of the dedup read these variables only.
LEMMA LinkFrame ==
  ASSUME LinkInv, UNCHANGED <<createdAt, link, pc, msg, pr>>
  PROVE  LinkInv'
BY DEF LinkInv, OneReleasePerFiling, Stored

\* A step that links and stores nothing keeps the links sound.
LEMMA LinksStay ==
  ASSUME OneReleasePerFiling, UNCHANGED <<createdAt, link>>
  PROVE  OneReleasePerFiling'
BY DEF OneReleasePerFiling, Stored

LEMMA LinkStep ==
  ASSUME OneProcess
  PROVE  TypeOK /\ LinkInv /\ [Next]_vars => LinkInv'
<1> SUFFICES ASSUME TypeOK, LinkInv, [Next]_vars
             PROVE  LinkInv'
  OBVIOUS
<1>0. HandlerOK /\ DataOK
  BY DEF TypeOK
<1>1. CASE \/ UNCHANGED vars \/ Elapse
           \/ \E e \in Events : Publish(e)
           \/ \E c \in Companies : SyncCompany(c)
           \/ \E p \in Procs : Subscribe(p) \/ Disconnect(p)
  <2>1. UNCHANGED <<createdAt, link, pc, msg, pr>>
    BY <1>1 DEF Elapse, Publish, SyncCompany, Subscribe, Disconnect, vars,
                tables, handler
  <2> QED
    BY <2>1, LinkFrame
<1>2. ASSUME NEW p \in Procs, pc'[p] \notin {"linked", "match", "link"},
             UNCHANGED <<createdAt, link>>
      PROVE  LinkInv'
  BY <1>2, OnlyOne, LinksStay DEF LinkInv
<1>3. ASSUME NEW p \in Procs,
             Receive(p) \/ CheckTwin(p) \/ CheckFiling(p) \/ EmitUpdate(p)
               \/ LinkFails(p) \/ Abort(p) \/ Crash(p) \/ TriggerAlerts(p)
      PROVE  LinkInv'
  <2>1. UNCHANGED <<createdAt, link>>
    BY <1>3 DEF Receive, CheckTwin, CheckFiling, EmitUpdate, LinkFails, Abort,
                Crash, TriggerAlerts, tables
  <2>2. pc'[p] \notin {"linked", "match", "link"}
    BY <1>0, <1>3, FinishMoves, SuppressMoves
       DEF Receive, CheckTwin, CheckFiling, EmitUpdate, LinkFails, Abort, Crash,
           TriggerAlerts, Goto, HandlerOK
  <2> QED
    BY <1>2, <2>1, <2>2
<1>4. ASSUME NEW p \in Procs,
             ScheduleReactions(p) \/ ScheduleFails(p) \/ FanOut(p)
      PROVE  LinkInv'
  <2>1. UNCHANGED <<createdAt, link>> /\ pc'[p] \in {"fanout", "alert"}
    BY <1>0, <1>4 DEF ScheduleReactions, ScheduleFails, FanOut, Goto, HandlerOK,
                      tables
  <2> QED
    BY <1>2, <2>1
<1>5. ASSUME NEW p \in Procs, Check(p)
      PROVE  LinkInv'
  <2>1. UNCHANGED <<createdAt, link>>
    BY <1>5 DEF Check, tables
  <2>2. CASE Finish(p, "stored")
    BY <1>0, <1>2, <2>1, <2>2, FinishMoves
  <2>3. CASE ~Finish(p, "stored")
    <3>1. /\ pc'[p] = AfterCheck(msg[p]) /\ msg'[p] = msg[p]
          /\ msg[p] \in Events \ Stored
      BY <1>0, <1>5, <2>3 DEF Check, Goto, HandlerOK
    <3>2. \/ AfterCheck(msg[p]) \in {"store", "twin"}
          \/ AfterCheck(msg[p]) = "linked" /\ msg[p] \in Filings
      <4>1. CASE msg[p] \in Filings
        BY <4>1 DEF AfterCheck
      <4>2. CASE msg[p] \notin Filings
        BY <4>2 DEF AfterCheck
      <4> QED
        BY <4>1, <4>2
    <3>3. CASE AfterCheck(msg[p]) \in {"store", "twin"}
      BY <1>2, <2>1, <3>1, <3>3
    <3>4. CASE AfterCheck(msg[p]) = "linked" /\ msg[p] \in Filings
      BY <2>1, <3>1, <3>4, OnlyOne, LinksStay DEF LinkInv, Stored
    <3> QED
      BY <3>2, <3>3, <3>4
  <2> QED
    BY <2>2, <2>3
<1>6. ASSUME NEW p \in Procs, CheckLinked(p)
      PROVE  LinkInv'
  <2>1. UNCHANGED <<createdAt, link>> /\ pc[p] = "linked"
    BY <1>6 DEF CheckLinked, tables
  <2>2. CASE \E r \in Stored : link[r] = msg[p]
    <3>1. pc'[p] = "idle"
      BY <1>0, <1>6, <2>2, FinishMoves DEF CheckLinked
    <3> QED
      BY <1>2, <2>1, <3>1
  <2>3. CASE ~\E r \in Stored : link[r] = msg[p]
    <3>1. pc'[p] = "match" /\ msg'[p] = msg[p]
      BY <1>0, <1>6, <2>3 DEF CheckLinked, Goto, HandlerOK
    <3>2. msg[p] \in Filings \ Stored
      BY <2>1 DEF LinkInv
    <3>3. msg[p] # NoEvent
      BY <3>2, SubscriberAssumption DEF Filings, SubscriberAssumption, KindsAssumption
    <3>4. \A r \in Events : link[r] # msg[p]
      BY <2>3, <3>3 DEF LinkInv, OneReleasePerFiling
    <3> QED
      BY <2>1, <3>1, <3>2, <3>4, OnlyOne, LinksStay DEF LinkInv, Stored
  <2> QED
    BY <2>2, <2>3
<1>7. ASSUME NEW p \in Procs, MatchRelease(p)
      PROVE  LinkInv'
  <2>1. UNCHANGED <<createdAt, link>>
    BY <1>7 DEF MatchRelease, tables
  <2>2. CASE pc'[p] \in {"idle", "store"}
    BY <1>2, <2>1, <2>2
  <2>3. CASE /\ pc'[p] = "link"
             /\ msg'[p] = msg[p]
             /\ pr'[p] \in Stored \cap Releases
             /\ Matches(msg[p], pr'[p])
             /\ link[pr'[p]] = NoEvent
    <3>1. pc[p] = "match"
      BY <1>7 DEF MatchRelease
    <3>2. msg[p] \in Filings \ Stored /\ \A r \in Events : link[r] # msg[p]
      BY <3>1 DEF LinkInv
    <3>3. Stored' = Stored
      BY <2>1 DEF Stored
    <3>4. OneReleasePerFiling'
      BY <2>1, LinksStay DEF LinkInv
    <3> QED
      BY <2>1, <2>3, <3>2, <3>3, <3>4, OnlyOne DEF LinkInv, Matches
  <2> QED
    BY <1>0, <1>7, <2>2, <2>3, MatchMoves
<1>8. ASSUME NEW p \in Procs, LinkRelease(p)
      PROVE  LinkInv'
  <2>1. /\ pc[p] = "link" /\ pc'[p] = "update"
        /\ link' = [link EXCEPT ![pr[p]] = msg[p]]
        /\ UNCHANGED createdAt
    BY <1>0, <1>8 DEF LinkRelease, Goto, HandlerOK
  <2>2. /\ msg[p] \in Filings
        /\ \A r \in Events : link[r] # msg[p]
        /\ pr[p] \in Stored \cap Releases
        /\ Matches(msg[p], pr[p])
    BY <2>1 DEF LinkInv
  <2>3. \A r \in Events : link'[r] = IF r = pr[p] THEN msg[p] ELSE link[r]
    BY <1>0, <2>1 DEF DataOK
  <2>4. Stored' = Stored
    BY <2>1 DEF Stored
  <2>5. OneReleasePerFiling'
    BY <2>2, <2>3, <2>4 DEF LinkInv, OneReleasePerFiling, Matches
  <2> QED
    BY <2>1, <2>5, OnlyOne DEF LinkInv
<1>9. ASSUME NEW p \in Procs, Store(p)
      PROVE  LinkInv'
  <2>1. UNCHANGED link /\ pc'[p] \in {"idle", "react"}
    BY <1>0, <1>9, StoreMoves
  <2>2. Stored \subseteq Stored'
    BY <1>0, <1>9, StoreMoves DEF Stored, DataOK
  <2>3. OneReleasePerFiling'
    BY <2>1, <2>2 DEF LinkInv, OneReleasePerFiling, Matches
  <2> QED
    BY <2>1, <2>3, OnlyOne DEF LinkInv
<1> QED
  BY <1>1, <1>3, <1>4, <1>5, <1>6, <1>7, <1>8, <1>9 DEF Next, Handle, Fail
\* The dedup of releases reads the clock, the feed and the handler's place.
LEMMA FreshStays ==
  ASSUME NoFreshCopy, UNCHANGED createdAt
  PROVE  NoFreshCopy'
BY DEF NoFreshCopy, Stored

\* Time passing, or nothing, keeps what was found too old too old.
LEMMA FreshFrame ==
  ASSUME TypeOK, FreshInv, now' \in Nat, now <= now',
         UNCHANGED <<createdAt, pc, msg>>
  PROVE  FreshInv'
<1>1. NoFreshCopy'
  BY FreshStays DEF FreshInv
<1>2. Stored' = Stored /\ Stored \subseteq Events
  BY DEF Stored
<1>3. \A e \in Events : createdAt'[e] <= now'
  BY DEF FreshInv, TypeOK, DataOK
<1> QED
  BY <1>1, <1>2, <1>3, SubscriberAssumption
     DEF FreshInv, TypeOK, DataOK, SubscriberAssumption, WindowAssumption

LEMMA FreshStep ==
  ASSUME OneProcess
  PROVE  TypeOK /\ FreshInv /\ [Next]_vars => FreshInv'
<1> SUFFICES ASSUME TypeOK, FreshInv, [Next]_vars
             PROVE  FreshInv'
  OBVIOUS
<1>0. HandlerOK /\ DataOK
  BY DEF TypeOK
<1>1. CASE \/ UNCHANGED vars
           \/ \E e \in Events : Publish(e)
           \/ \E c \in Companies : SyncCompany(c)
           \/ \E p \in Procs : Subscribe(p) \/ Disconnect(p)
  <2>1. UNCHANGED <<now, createdAt, pc, msg>>
    BY <1>1 DEF Publish, SyncCompany, Subscribe, Disconnect, vars, tables, handler
  <2> QED
    BY <1>0, <2>1, FreshFrame DEF DataOK
<1>2. CASE Elapse
  <2>1. now' = now + 1 /\ UNCHANGED <<createdAt, pc, msg>>
    BY <1>2 DEF Elapse, tables, handler
  <2> QED
    BY <1>0, <2>1, FreshFrame DEF DataOK
<1>3. ASSUME NEW p \in Procs, UNCHANGED <<now, createdAt>>,
             \/ pc'[p] \in {"idle", "check", "react", "fanout", "alert"}
             \/ /\ pc'[p] \in {"linked", "match", "link", "update", "store"}
                /\ msg'[p] \notin Releases
      PROVE  FreshInv'
  BY <1>3, OnlyOne, FreshStays DEF FreshInv
<1>4. ASSUME NEW p \in Procs,
             Receive(p) \/ Abort(p) \/ Crash(p) \/ TriggerAlerts(p)
               \/ ScheduleReactions(p) \/ ScheduleFails(p) \/ FanOut(p)
      PROVE  FreshInv'
  <2>1. UNCHANGED <<now, createdAt>>
    BY <1>4 DEF Receive, Abort, Crash, TriggerAlerts, ScheduleReactions,
                ScheduleFails, FanOut, tables
  <2>2. pc'[p] \in {"idle", "check", "react", "fanout", "alert"}
    BY <1>0, <1>4, FinishMoves
       DEF Receive, Abort, Crash, TriggerAlerts, ScheduleReactions,
           ScheduleFails, FanOut, Goto, HandlerOK
  <2> QED
    BY <1>3, <2>1, <2>2
<1>5. ASSUME NEW p \in Procs,
             CheckLinked(p) \/ MatchRelease(p) \/ LinkRelease(p) \/ EmitUpdate(p)
               \/ LinkFails(p)
      PROVE  FreshInv'
  <2>1. UNCHANGED <<now, createdAt>>
    BY <1>5 DEF CheckLinked, MatchRelease, LinkRelease, EmitUpdate, LinkFails,
                tables
  <2>2. msg[p] \notin Releases
    <3>1. pc[p] \in {"linked", "match", "link", "update"}
      BY <1>5 DEF CheckLinked, MatchRelease, LinkRelease, EmitUpdate, LinkFails,
                  SuppressOrStore, Goto
    <3> QED
      BY <3>1 DEF FreshInv
  <2>3. \/ pc'[p] = "idle"
        \/ /\ pc'[p] \in {"linked", "match", "link", "update", "store"}
           /\ msg'[p] = msg[p]
    <3>1. CASE CheckLinked(p)
      BY <1>0, <3>1, FinishMoves DEF CheckLinked, Goto, HandlerOK
    <3>2. CASE MatchRelease(p)
      BY <1>0, <3>2, MatchMoves
    <3>3. CASE LinkRelease(p)
      BY <1>0, <3>3 DEF LinkRelease, Goto, HandlerOK
    <3>4. CASE EmitUpdate(p) \/ LinkFails(p)
      BY <1>0, <3>4, SuppressMoves DEF EmitUpdate, LinkFails
    <3> QED
      BY <1>5, <3>1, <3>2, <3>3, <3>4
  <2> QED
    BY <1>3, <2>1, <2>2, <2>3
<1>6. ASSUME NEW p \in Procs, Check(p)
      PROVE  FreshInv'
  <2>1. UNCHANGED <<now, createdAt>>
    BY <1>6 DEF Check, tables
  <2>2. CASE Finish(p, "stored")
    BY <1>0, <1>3, <2>1, <2>2, FinishMoves
  <2>3. CASE ~Finish(p, "stored")
    <3>1. pc'[p] = AfterCheck(msg[p]) /\ msg'[p] = msg[p]
      BY <1>0, <1>6, <2>3 DEF Check, Goto, HandlerOK
    <3>2. Releases \cap Filings = {}
      BY DEF Releases, Filings
    <3>3. CASE Issuer[msg[p]] = NoCompany
      <4>1. pc'[p] = "store"
        BY <3>1, <3>3 DEF AfterCheck
      <4>2. \A f \in Events : ~Matches(msg[p], f)
        BY <3>3 DEF Matches
      <4> QED
        BY <2>1, <3>1, <4>1, <4>2, OnlyOne, FreshStays
           DEF FreshInv, Stored, Matches
    <3>4. CASE Issuer[msg[p]] # NoCompany /\ msg[p] \in Releases
      <4>1. pc'[p] = "twin"
        BY <3>1, <3>4 DEF AfterCheck
      <4> QED
        BY <2>1, <3>1, <3>4, <4>1, OnlyOne, FreshStays DEF FreshInv
    <3>5. CASE Issuer[msg[p]] # NoCompany /\ msg[p] \notin Releases
      <4>1. pc'[p] \in {"linked", "store"}
        <5>1. CASE msg[p] \in Filings
          BY <3>1, <3>5, <5>1 DEF AfterCheck
        <5>2. CASE msg[p] \notin Filings
          BY <3>1, <3>5, <5>2 DEF AfterCheck
        <5> QED
          BY <5>1, <5>2
      <4> QED
        BY <1>3, <2>1, <3>1, <3>5, <4>1
    <3> QED
      BY <3>3, <3>4, <3>5
  <2> QED
    BY <2>2, <2>3
<1>7. ASSUME NEW p \in Procs, CheckTwin(p)
      PROVE  FreshInv'
  <2>1. UNCHANGED <<now, createdAt>> /\ pc[p] = "twin"
    BY <1>7 DEF CheckTwin, tables
  <2>2. CASE Candidates(msg[p], Releases, CrossWire) # {}
    <3>1. pc'[p] = "idle"
      BY <1>0, <1>7, <2>2, FinishMoves DEF CheckTwin
    <3> QED
      BY <1>3, <2>1, <3>1
  <2>3. CASE Candidates(msg[p], Releases, CrossWire) = {}
    <3>1. pc'[p] = "filing" /\ msg'[p] = msg[p] /\ msg[p] \in Releases
      BY <1>0, <1>7, <2>1, <2>3 DEF CheckTwin, Goto, HandlerOK, FreshInv
    <3>2. \A f \in Stored \cap Releases :
            Matches(msg[p], f) => createdAt[f] + CrossWire < now
      BY <1>0, <2>3, SubscriberAssumption
         DEF Candidates, Stored, DataOK, SubscriberAssumption, WindowAssumption
    <3> QED
      BY <2>1, <3>1, <3>2, OnlyOne, FreshStays DEF FreshInv, Stored, Matches
  <2> QED
    BY <2>2, <2>3
<1>8. ASSUME NEW p \in Procs, CheckFiling(p)
      PROVE  FreshInv'
  <2>1. UNCHANGED <<now, createdAt>> /\ pc[p] = "filing"
    BY <1>8 DEF CheckFiling, tables
  <2>2. CASE Candidates(msg[p], Filings, PRToFiling) # {}
    <3>1. pc'[p] = "idle"
      BY <1>0, <1>8, <2>2, FinishMoves DEF CheckFiling
    <3> QED
      BY <1>3, <2>1, <3>1
  <2>3. CASE Candidates(msg[p], Filings, PRToFiling) = {}
    <3>1. pc'[p] = "store" /\ msg'[p] = msg[p] /\ msg[p] \in Releases
      BY <1>0, <1>8, <2>1, <2>3 DEF CheckFiling, Goto, HandlerOK, FreshInv
    <3>2. \A f \in Stored \cap Filings :
            Matches(msg[p], f) => createdAt[f] + PRToFiling < now
      BY <1>0, <2>3, SubscriberAssumption
         DEF Candidates, Stored, DataOK, SubscriberAssumption, WindowAssumption
    <3> QED
      BY <2>1, <3>1, <3>2, OnlyOne, FreshStays DEF FreshInv, Stored, Matches
  <2> QED
    BY <2>2, <2>3
<1>9. ASSUME NEW p \in Procs, Store(p)
      PROVE  FreshInv'
  <2>1. CASE pc'[p] = "idle" /\ UNCHANGED <<now, createdAt>>
    BY <1>3, <2>1
  <2>2. CASE /\ msg[p] \in Events \ Stored
             /\ pc'[p] = "react"
             /\ now' = now + 1
             /\ createdAt' = [createdAt EXCEPT ![msg[p]] = now']
    <3>1. pc[p] = "store"
      BY <1>9 DEF Store
    <3>2. \A e \in Events : createdAt'[e] = IF e = msg[p] THEN now + 1 ELSE createdAt[e]
      BY <1>0, <2>2 DEF DataOK
    <3>3. Stored' = Stored \cup {msg[p]}
      BY <1>0, <2>2, <3>2 DEF Stored, DataOK
    <3>4. \A e \in Events : createdAt'[e] <= now'
      BY <1>0, <2>2, <3>2 DEF FreshInv, DataOK
    <3>5. ASSUME NEW e \in Stored' \cap Releases, NEW f \in Stored',
                 Matches(e, f), createdAt'[f] < createdAt'[e]
          PROVE  /\ f \in Releases => createdAt'[f] + CrossWire < createdAt'[e]
                 /\ f \in Filings => createdAt'[f] + PRToFiling < createdAt'[e]
      <4>1. f \in Stored /\ f # msg[p] /\ f \in Events
        <5>1. e \in Events /\ f \in Events
          BY DEF Stored
        <5> QED
          BY <1>0, <3>2, <3>3, <3>5, <5>1 DEF FreshInv, DataOK
      <4>2. CASE e = msg[p]
        BY <1>0, <2>2, <3>1, <3>2, <3>5, <4>1, <4>2, SubscriberAssumption
           DEF FreshInv, DataOK, Stored, SubscriberAssumption, WindowAssumption
      <4>3. CASE e # msg[p]
        BY <3>2, <3>3, <3>5, <4>1, <4>3 DEF FreshInv, NoFreshCopy, Stored
      <4> QED
        BY <4>2, <4>3
    <3>6. NoFreshCopy'
      BY <3>5 DEF NoFreshCopy, Matches
    <3> QED
      BY <2>2, <3>4, <3>6, OnlyOne DEF FreshInv
  <2> QED
    BY <1>0, <1>9, <2>1, <2>2, StoreMoves
<1> QED
  BY <1>1, <1>2, <1>4, <1>5, <1>6, <1>7, <1>8, <1>9 DEF Next, Handle, Fail
LEMMA DedupInit == Init => TypeOK /\ AnnounceInv /\ LinkInv /\ FreshInv
<1> SUFFICES ASSUME Init
             PROVE  TypeOK /\ AnnounceInv /\ LinkInv /\ FreshInv
  OBVIOUS
<1>1. TypeOK /\ AnnounceInv
  BY DEF Init, TypeOK, DataOK, ChannelOK, HandlerOK, Steps, Verdicts,
         AnnounceInv, AfterStore
<1>2. Stored = {} /\ OneReleasePerFiling /\ NoFreshCopy
  BY DEF Init, Stored, OneReleasePerFiling, NoFreshCopy
<1> QED
  BY <1>1, <1>2 DEF Init, LinkInv, FreshInv

\* A link, once set, is never changed: only the handler of a filing sets one, on
\* a release it read as having none, and no other process writes in between.
LEMMA LinkKept ==
  ASSUME OneProcess
  PROVE  TypeOK /\ LinkInv /\ [Next]_vars =>
           \A r \in Events : link[r] # NoEvent => link'[r] = link[r]
<1> SUFFICES ASSUME TypeOK, LinkInv, [Next]_vars
             PROVE  \A r \in Events : link[r] # NoEvent => link'[r] = link[r]
  OBVIOUS
<1>1. CASE \E p \in Procs : LinkRelease(p)
  BY <1>1 DEF LinkRelease, Goto, LinkInv, TypeOK, DataOK
<1>2. CASE ~\E p \in Procs : LinkRelease(p)
  <2>1. UNCHANGED link
    BY <1>2 DEF Next, vars, tables, Elapse, Publish, SyncCompany, Subscribe,
       Handle, Fail, Receive, Check, CheckTwin, CheckFiling, CheckLinked,
       MatchRelease, EmitUpdate, Store, ScheduleReactions, FanOut,
       TriggerAlerts, LinkFails, ScheduleFails, Abort, Disconnect, Crash
  <2> QED
    BY <2>1
<1> QED
  BY <1>1, <1>2

\* With one subscriber, no release enters the feed while a copy of it, or the
\* filing that carries it, is younger than its window.
THEOREM NoFreshCopyPosted ==
  ASSUME OneProcess
  PROVE  Spec => []NoFreshCopy
<1>1. TypeOK /\ [Next]_vars => TypeOK'
  BY DataStep, ChannelStep, HandlerStep DEF TypeOK
<1>2. FreshInv => NoFreshCopy
  BY DEF FreshInv
<1>3. TypeOK /\ FreshInv /\ [Next]_vars => FreshInv'
  BY FreshStep
<1> QED
  BY <1>1, <1>2, <1>3, DedupInit, PTL DEF Spec

\* With one subscriber, a filing backfills at most one release, and one of its
\* own text, through any redelivery, crash or failed commit.
THEOREM LinksSound ==
  ASSUME OneProcess
  PROVE  Spec => []OneReleasePerFiling
<1>1. TypeOK /\ [Next]_vars => TypeOK'
  BY DataStep, ChannelStep, HandlerStep DEF TypeOK
<1>2. LinkInv => OneReleasePerFiling
  BY DEF LinkInv
<1>3. TypeOK /\ LinkInv /\ [Next]_vars => LinkInv'
  BY LinkStep
<1> QED
  BY <1>1, <1>2, <1>3, DedupInit, PTL DEF Spec

\* With one subscriber, an earlier filing's link is never overwritten.
THEOREM LinksPermanent ==
  ASSUME OneProcess
  PROVE  Spec => LinkPermanent
<1>1. TypeOK /\ [Next]_vars => TypeOK'
  BY DataStep, ChannelStep, HandlerStep DEF TypeOK
<1>2. TypeOK /\ LinkInv /\ [Next]_vars => LinkInv'
  BY LinkStep
<1>3. TypeOK /\ LinkInv /\ [Next]_vars =>
        [\A r \in Events : link[r] # NoEvent => link'[r] = link[r]]_vars
  BY LinkKept
<1> QED
  BY <1>1, <1>2, <1>3, DedupInit, PTL DEF Spec, LinkPermanent

(***************************************************************************)
(* The subscriber implements Feed.                                         *)
(***************************************************************************)

Told == {e \in Events : fanouts[e] > 0}

\* A step that posts, links, emits and waits for nothing is a stutter of Feed.
LEMMA FeedStutter ==
  ASSUME UNCHANGED <<now, createdAt, link, fanouts>>
  PROVE  UNCHANGED Promise!vars
BY DEF Promise!vars

\* Every step of the subscriber is a step of Feed or a stutter.
LEMMA FeedStep ==
  ASSUME OneProcess
  PROVE  TypeOK /\ AnnounceInv /\ LinkInv /\ FreshInv /\ [Next]_vars =>
           [Promise!Next]_(Promise!vars)
<1> SUFFICES ASSUME TypeOK, AnnounceInv, LinkInv, FreshInv, [Next]_vars
             PROVE  [Promise!Next]_(Promise!vars)
  OBVIOUS
<1>0. HandlerOK /\ DataOK
  BY DEF TypeOK
<1>1. CASE Elapse
  <2>1. Promise!Elapse
    BY <1>0, <1>1 DEF Elapse, Promise!Elapse, DataOK, tables, emitted
  <2> QED
    BY <2>1 DEF Promise!Next
<1>2. CASE \/ UNCHANGED vars
           \/ \E e \in Events : Publish(e)
           \/ \E c \in Companies : SyncCompany(c)
           \/ \E p \in Procs : \/ Subscribe(p) \/ Fail(p)
                               \/ Receive(p) \/ Check(p) \/ CheckTwin(p)
                               \/ CheckFiling(p) \/ CheckLinked(p)
                               \/ MatchRelease(p) \/ EmitUpdate(p)
                               \/ ScheduleReactions(p) \/ TriggerAlerts(p)
  <2>1. UNCHANGED <<now, createdAt, link, fanouts>>
    BY <1>2 DEF vars, tables, emitted, Publish, SyncCompany, Subscribe, Fail,
       Receive, Check, CheckTwin, CheckFiling, CheckLinked, MatchRelease,
       EmitUpdate, ScheduleReactions, TriggerAlerts, LinkFails, ScheduleFails,
       Abort, Disconnect, Crash
  <2> QED
    BY <2>1, FeedStutter
<1>3. ASSUME NEW p \in Procs, LinkRelease(p)
      PROVE  [Promise!Next]_(Promise!vars)
  <2>1. pc[p] = "link" /\ link' = [link EXCEPT ![pr[p]] = msg[p]]
        /\ UNCHANGED <<now, createdAt, fanouts>>
    BY <1>3 DEF LinkRelease, Goto, emitted
  <2>2. /\ msg[p] \in Filings \ Stored
        /\ pr[p] \in Stored \cap Releases
        /\ Matches(msg[p], pr[p])
        /\ link[pr[p]] = NoEvent
        /\ \A r \in Events : link[r] # msg[p]
    BY <2>1 DEF LinkInv
  <2>3. Promise!Posted = Stored
    BY DEF Promise!Posted, Stored
  <2>4. Promise!Attach(pr[p], msg[p])
    BY <2>1, <2>2, <2>3 DEF Promise!Attach
  <2> QED
    BY <2>2, <2>4 DEF Promise!Next, Filings, Releases
<1>4. ASSUME NEW p \in Procs, FanOut(p)
      PROVE  [Promise!Next]_(Promise!vars)
  <2>1. pc[p] = "fanout" /\ fanouts' = [fanouts EXCEPT ![msg[p]] = @ + 1]
        /\ UNCHANGED <<now, createdAt, link>>
    BY <1>4 DEF FanOut, Goto, tables
  <2>2. msg[p] \in Stored /\ fanouts[msg[p]] = 0
    BY <2>1 DEF AnnounceInv, AfterStore
  <2>3. Promise!Posted = Stored /\ Stored \subseteq Events
    BY DEF Promise!Posted, Stored
  <2>4. Told' = Told \cup {msg[p]} /\ msg[p] \notin Told
    BY <1>0, <2>1, <2>2, <2>3 DEF Told, DataOK
  <2>5. Promise!Announce(msg[p])
    BY <2>1, <2>2, <2>3, <2>4 DEF Promise!Announce, Told
  <2>6. msg[p] \in Events
    BY <2>2, <2>3
  <2>7. \E e \in Events : Promise!Post(e) \/ Promise!Announce(e)
    BY <2>5, <2>6 DEF Promise!Announce
  <2> QED
    BY <2>7 DEF Promise!Next
<1>5. ASSUME NEW p \in Procs, Store(p)
      PROVE  [Promise!Next]_(Promise!vars)
  <2>1. UNCHANGED <<link, fanouts>> /\ pc[p] = "store"
    BY <1>0, <1>5, StoreMoves
  <2>2. CASE UNCHANGED <<now, createdAt>>
    BY <2>1, <2>2, FeedStutter
  <2>3. CASE /\ msg[p] \in Events \ Stored
             /\ now' = now + 1
             /\ createdAt' = [createdAt EXCEPT ![msg[p]] = now']
    <3>1. Promise!Posted = Stored
      BY DEF Promise!Posted, Stored
    <3>2. msg[p] \in Releases => Promise!News(msg[p])
      BY <2>1, <3>1 DEF Promise!News, FreshInv
    <3>3. Promise!Post(msg[p])
      BY <2>1, <2>3, <3>1, <3>2 DEF Promise!Post
    <3> QED
      BY <2>3, <3>3 DEF Promise!Next
  <2> QED
    BY <1>0, <1>5, <2>2, <2>3, StoreMoves
<1> QED
  BY <1>1, <1>2, <1>3, <1>4, <1>5 DEF Next, Handle

\* With one subscriber, the handler implements the feed it promises: releases
\* posted only as news, filings attached once, events announced once.
THEOREM ImplementsFeed ==
  ASSUME OneProcess
  PROVE  Spec => FeedSpec
<1>1. TypeOK /\ [Next]_vars => TypeOK'
  BY DataStep, ChannelStep, HandlerStep DEF TypeOK
<1>2. TypeOK /\ LinkInv /\ [Next]_vars => LinkInv'
  BY LinkStep
<1>3. TypeOK /\ FreshInv /\ [Next]_vars => FreshInv'
  BY FreshStep
<1>4. TypeOK /\ AnnounceInv /\ LinkInv /\ FreshInv /\ [Next]_vars =>
        [Promise!Next]_(Promise!vars)
  BY FeedStep
<1>5. Init => Promise!Init
  BY DEF Init, Promise!Init
<1> QED
  BY <1>1, <1>2, <1>3, <1>4, <1>5, DedupInit, AnnounceStep, PTL
     DEF Spec, FeedSpec, Promise!Spec
=============================================================================
