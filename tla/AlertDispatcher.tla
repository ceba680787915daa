--------------------------- MODULE AlertDispatcher ---------------------------
(***************************************************************************)
(* The alert dispatcher (services/api/app/services/alerts/dispatcher.py)   *)
(* for one stored event: the publish pass the subscriber submits, the      *)
(* passes the reaction worker submits when the price turns explosive, and  *)
(* the pool threads that run them, one action per query, commit or send.   *)
(* Readers flip their switches while the passes run; the pool's queue is   *)
(* in memory; any query, commit or send may fail.                          *)
(***************************************************************************)
EXTENDS Naturals, Sequences

CONSTANTS
  Workers,         \* threads of _executor
  Users, Channels,
  Preset,          \* [Users -> {"none", "on", "off"}]: preferences to begin with
  Wants,           \* users whose max_tier threshold includes the event
  Chosen,          \* [Users -> SUBSET Channels]: channels on in channels_json
  Default,         \* the channels of a user with no preferences row
  Views,           \* [Users -> SUBSET {"any", "moved"}]: alerting saved views
                   \* that match the event, at once or once it has moved
  NoUser, NoChannel,
  MaxPasses,       \* bound: passes submitted in all
  MaxChanges,      \* bound: settings changed while the event is news
  MaxFaults        \* bound: failures and crashes together

ASSUME DispatcherAssumption ==
  /\ Preset \in [Users -> {"none", "on", "off"}]
  /\ Wants \subseteq Users
  /\ Chosen \in [Users -> SUBSET Channels]
  /\ Default \subseteq Channels
  /\ Views \in [Users -> SUBSET {"any", "moved"}]
  /\ NoUser \notin Users
  /\ NoChannel \notin Channels

VARIABLES
  prefs,           \* AlertPreference: "none" (no row), "on" or "off"
  muted,           \* CompanyReadState.muted for the event's company
  moved, old,      \* a reaction is explosive; older than MOVE_ALERT_MAX_AGE
  published,       \* the subscriber has called trigger_alerts
  following,       \* the user_ids it passed
  queue,           \* tasks waiting in the pool
  step,            \* where a thread is in its task
  task,            \* the pass it runs
  stage,           \* which half of a publish pass: "follow" or "views"
  todo,            \* <<user, channels>> still to be delivered to
  user, left,      \* the user in hand and the channels still to try
  chan,            \* the channel in hand
  note,            \* Notification.status, "none" while there is no row
  sends,           \* messages that left, per user and channel
  steady,          \* users who changed nothing since the first pass was submitted
  changes, faults, passes,   \* what the bounds count
  cut              \* a task was cut short

settings == <<prefs, muted>>
news == <<moved, old, published, following>>
thread == <<step, task, stage, todo, user, left, chan>>
ledger == <<note, sends>>
history == <<steady, changes, faults, passes, cut>>
vars == <<settings, news, queue, thread, ledger, history>>

Keys == Users \X Channels
Task == [pass : {"publish", "moved"}, readers : SUBSET Users]
Steps == {"idle", "prefs", "muted", "views", "switch", "silence", "user",
          "channel", "insert", "send", "sent", "failed"}
Status == {"none", "pending", "sent", "failed"}

NoTask == [pass |-> "moved", readers |-> {}]

Init ==
  /\ prefs = Preset
  /\ muted = [u \in Users |-> FALSE]
  /\ moved = FALSE
  /\ old = FALSE
  /\ published = FALSE
  /\ following = {}
  /\ queue = <<>>
  /\ step = [w \in Workers |-> "idle"]
  /\ task = [w \in Workers |-> NoTask]
  /\ stage = [w \in Workers |-> "views"]
  /\ todo = [w \in Workers |-> {}]
  /\ user = [w \in Workers |-> NoUser]
  /\ left = [w \in Workers |-> {}]
  /\ chan = [w \in Workers |-> NoChannel]
  /\ note = [k \in Keys |-> "none"]
  /\ sends = [k \in Keys |-> 0]
  /\ steady = Users
  /\ changes = 0
  /\ faults = 0
  /\ passes = 0
  /\ cut = FALSE

-----------------------------------------------------------------------------
(* Readers, the subscriber and the reaction worker.                        *)

Unsettle(u) == steady' = IF passes = 0 THEN steady ELSE steady \ {u}

\* PUT /preferences, or the row GET /preferences creates.
SetPreference(u, on) ==
  /\ changes < MaxChanges
  /\ changes' = changes + 1
  /\ prefs[u] # on
  /\ prefs' = [prefs EXCEPT ![u] = on]
  /\ Unsettle(u)
  /\ UNCHANGED <<muted, news, queue, thread, ledger, faults, passes, cut>>

\* Mute or unmute the company in the watchlist inbox.
ToggleMute(u) ==
  /\ changes < MaxChanges
  /\ changes' = changes + 1
  /\ muted' = [muted EXCEPT ![u] = ~@]
  /\ Unsettle(u)
  /\ UNCHANGED <<prefs, news, queue, thread, ledger, faults, passes, cut>>

AnyViewAlerts == \E u \in Users : Views[u] # {}

Submit(pass, readers) ==
  /\ queue' = Append(queue, [pass |-> pass, readers |-> readers])
  /\ passes' = passes + 1

\* trigger_alerts, called once for a stored event, with those who follow it.
TriggerAlerts(readers) ==
  /\ ~published
  /\ passes < MaxPasses
  /\ published' = TRUE
  /\ following' = readers
  /\ IF readers = {} /\ ~AnyViewAlerts
     THEN UNCHANGED <<queue, passes>>
     ELSE Submit("publish", readers)
  /\ UNCHANGED <<settings, moved, old, thread, ledger, steady, changes, faults, cut>>

\* The reaction worker commits an explosive measurement ...
Move ==
  /\ ~moved
  /\ moved' = TRUE
  /\ UNCHANGED <<settings, old, published, following, queue, thread, ledger,
                 history>>

\* ... and calls trigger_view_alerts, again for every later interval.
TriggerViewAlerts ==
  /\ moved
  /\ AnyViewAlerts
  /\ passes < MaxPasses
  /\ Submit("moved", {})
  /\ UNCHANGED <<settings, news, thread, ledger, steady, changes, faults, cut>>

Age ==
  /\ ~old
  /\ old' = TRUE
  /\ UNCHANGED <<settings, moved, published, following, queue, thread, ledger,
                 history>>

-----------------------------------------------------------------------------
(* A thread of the pool.                                                   *)

Goto(w, from, to) ==
  /\ step[w] = from
  /\ step' = [step EXCEPT ![w] = to]

\* The task is over and the session is removed.
Idle(w) ==
  /\ step' = [step EXCEPT ![w] = "idle"]
  /\ task' = [task EXCEPT ![w] = NoTask]
  /\ stage' = [stage EXCEPT ![w] = "views"]
  /\ todo' = [todo EXCEPT ![w] = {}]
  /\ user' = [user EXCEPT ![w] = NoUser]
  /\ left' = [left EXCEPT ![w] = {}]
  /\ chan' = [chan EXCEPT ![w] = NoChannel]

\* Keep the targets S and go on; with none left, this half of the pass is over.
Proceed(w, S, from, to) ==
  /\ Goto(w, from, IF S = {} THEN "user" ELSE to)
  /\ todo' = [todo EXCEPT ![w] = S]
  /\ UNCHANGED <<settings, news, queue, task, user, left, chan, ledger, history>>

Start(w) ==
  /\ queue # <<>>
  /\ queue' = Tail(queue)
  /\ task' = [task EXCEPT ![w] = Head(queue)]
  /\ LET follow == Head(queue).pass = "publish" /\ Head(queue).readers # {}
     IN /\ Goto(w, "idle", IF follow THEN "prefs" ELSE "views")
        /\ stage' = [stage EXCEPT ![w] = IF follow THEN "follow" ELSE "views"]
  /\ UNCHANGED <<settings, news, todo, user, left, chan, ledger, history>>

\* _dispatch_inner: followers with alerts on whose threshold includes the event,
ReadPreferences(w) ==
  /\ Proceed(w, {<<u, Chosen[u]>> : u \in
                   {v \in task[w].readers \cap Wants : prefs[v] = "on"}},
             "prefs", "muted")
  /\ UNCHANGED stage

Unmuted(S) == {t \in S : ~muted[t[1]]}

\* minus those who muted the company.
DropMuted(w) ==
  /\ Proceed(w, Unmuted(todo[w]), "muted", "user")
  /\ UNCHANGED stage

\* _views_inner: the owners of the views the event matches now,
Matching(pass) ==
  {u \in Users : \/ "moved" \in Views[u] /\ moved
                 \/ "any" \in Views[u] /\ pass = "publish"}

MatchViews(w) ==
  LET late == task[w].pass = "moved" /\ old
  IN /\ Proceed(w, {<<u, {}>> : u \in IF late THEN {} ELSE Matching(task[w].pass)},
                "views", "switch")
     /\ stage' = [stage EXCEPT ![w] = "views"]

\* No preferences row yet means the defaults.
OwnerChannels(u) == IF prefs[u] = "none" THEN Default ELSE Chosen[u]

\* minus those whose master switch is off,
ReadSwitch(w) ==
  LET on == {u \in Users : <<u, {}>> \in todo[w] /\ prefs[u] # "off"}
  IN /\ Proceed(w, {<<u, OwnerChannels(u)>> : u \in on}, "switch", "silence")
     /\ UNCHANGED stage

\* Mutant: the view pass does not look at the mutes.
DropMutedOwnersMutant(w) ==
  /\ Proceed(w, todo[w], "silence", "user")
  /\ UNCHANGED stage

\* minus those who muted the company.
DropMutedOwners(w) ==
  /\ Proceed(w, Unmuted(todo[w]), "silence", "user")
  /\ UNCHANGED stage

TakeUp(w, t) ==
  /\ Goto(w, "user", "channel")
  /\ user' = [user EXCEPT ![w] = t[1]]
  /\ left' = [left EXCEPT ![w] = t[2]]
  /\ UNCHANGED <<task, stage, chan>>

\* This half of the pass is over.
Leave(w) ==
  /\ step[w] = "user"
  /\ todo[w] = {}
  /\ \/ /\ stage[w] = "follow"
        /\ Goto(w, "user", "views")
        /\ UNCHANGED <<task, stage, todo, user, left, chan>>
     \/ /\ stage[w] = "views"
        /\ Idle(w)
  /\ UNCHANGED <<settings, news, queue, ledger, history>>

\* Mutant: the loop ends with the first user.
NextUserMutant(w) ==
  /\ \E t \in todo[w] :
       /\ TakeUp(w, t)
       /\ todo' = [todo EXCEPT ![w] = {}]
  /\ UNCHANGED <<settings, news, queue, ledger, history>>

\* The delivery loop over users ...
NextUser(w) ==
  /\ \E t \in todo[w] :
       /\ TakeUp(w, t)
       /\ todo' = [todo EXCEPT ![w] = @ \ {t}]
  /\ UNCHANGED <<settings, news, queue, ledger, history>>

EndChannels(w) ==
  /\ left[w] = {}
  /\ Goto(w, "channel", "user")
  /\ user' = [user EXCEPT ![w] = NoUser]
  /\ chan' = [chan EXCEPT ![w] = NoChannel]
  /\ UNCHANGED <<settings, news, queue, task, stage, todo, left, ledger, history>>

\* Mutant: a row that is still pending is taken up again.
NextChannelMutant(w) ==
  /\ \E c \in left[w] :
       /\ left' = [left EXCEPT ![w] = @ \ {c}]
       /\ chan' = [chan EXCEPT ![w] = c]
       /\ Goto(w, "channel", CASE note[<<user[w], c>>] = "none" -> "insert"
                               [] note[<<user[w], c>>] = "pending" -> "send"
                               [] OTHER -> "channel")
  /\ UNCHANGED <<settings, news, queue, task, stage, todo, user, ledger, history>>

\* ... and over each one's channels; a row that exists is another task's delivery.
NextChannel(w) ==
  /\ \E c \in left[w] :
       /\ left' = [left EXCEPT ![w] = @ \ {c}]
       /\ chan' = [chan EXCEPT ![w] = c]
       /\ Goto(w, "channel", IF note[<<user[w], c>>] = "none" THEN "insert"
                                                             ELSE "channel")
  /\ UNCHANGED <<settings, news, queue, task, stage, todo, user, ledger, history>>

Key(w) == <<user[w], chan[w]>>

\* Mutant: no unique key on user, event and channel.
InsertMutant(w) ==
  /\ Goto(w, "insert", "send")
  /\ note' = [note EXCEPT ![Key(w)] = "pending"]
  /\ UNCHANGED <<settings, news, queue, task, stage, todo, user, left, chan,
                 sends, history>>

\* Commit the pending row; IntegrityError means another task owns the delivery.
Insert(w) ==
  /\ step[w] = "insert"
  /\ \/ /\ note[Key(w)] = "none"
        /\ note' = [note EXCEPT ![Key(w)] = "pending"]
        /\ Goto(w, "insert", "send")
     \/ /\ note[Key(w)] # "none"
        /\ Goto(w, "insert", "channel")
        /\ UNCHANGED note
  /\ UNCHANGED <<settings, news, queue, task, stage, todo, user, left, chan,
                 sends, history>>

\* channel.send returns: the message left, or the channel is not configured.
Send(w) ==
  /\ Goto(w, "send", "sent")
  /\ \/ sends' = [sends EXCEPT ![Key(w)] = @ + 1]
     \/ UNCHANGED sends
  /\ UNCHANGED <<settings, news, queue, task, stage, todo, user, left, chan,
                 note, history>>

Record(w, from, status) ==
  /\ Goto(w, from, "channel")
  /\ note' = [note EXCEPT ![Key(w)] = status]
  /\ UNCHANGED <<settings, news, queue, task, stage, todo, user, left, chan,
                 sends, history>>

MarkSent(w) == Record(w, "sent", "sent")
MarkFailed(w) == Record(w, "failed", "failed")

-----------------------------------------------------------------------------
(* Failures.                                                               *)

\* channel.send raises, the message gone out or not (a timeout).
SendFails(w) ==
  /\ faults < MaxFaults
  /\ faults' = faults + 1
  /\ Goto(w, "send", "failed")
  /\ \/ sends' = [sends EXCEPT ![Key(w)] = @ + 1]
     \/ UNCHANGED sends
  /\ UNCHANGED <<settings, news, queue, task, stage, todo, user, left, chan,
                 note, steady, changes, passes, cut>>

\* The commit of 'sent' raises, and is caught with the send.
MarkSentFails(w) ==
  /\ faults < MaxFaults
  /\ faults' = faults + 1
  /\ Goto(w, "sent", "failed")
  /\ UNCHANGED <<settings, news, queue, task, stage, todo, user, left, chan,
                 ledger, steady, changes, passes, cut>>

\* Any other query or commit raises: nobody looks at the task's future.
Die(w) ==
  /\ faults < MaxFaults
  /\ faults' = faults + 1
  /\ step[w] \notin {"idle", "send", "sent"}
  /\ Idle(w)
  /\ cut' = TRUE
  /\ UNCHANGED <<settings, news, queue, ledger, steady, changes, passes>>

\* The process is killed: the queue and the threads are gone.
Crash ==
  /\ faults < MaxFaults
  /\ faults' = faults + 1
  /\ cut' = TRUE
  /\ queue' = <<>>
  /\ step' = [w \in Workers |-> "idle"]
  /\ task' = [w \in Workers |-> NoTask]
  /\ stage' = [w \in Workers |-> "views"]
  /\ todo' = [w \in Workers |-> {}]
  /\ user' = [w \in Workers |-> NoUser]
  /\ left' = [w \in Workers |-> {}]
  /\ chan' = [w \in Workers |-> NoChannel]
  /\ UNCHANGED <<settings, news, ledger, steady, changes, passes>>

Run(w) ==
  \/ Start(w) \/ ReadPreferences(w) \/ DropMuted(w) \/ MatchViews(w)
  \/ ReadSwitch(w) \/ DropMutedOwners(w) \/ NextUser(w) \/ Leave(w)
  \/ NextChannel(w) \/ EndChannels(w) \/ Insert(w) \/ Send(w) \/ MarkSent(w) \/ MarkFailed(w)

Fail(w) == SendFails(w) \/ MarkSentFails(w) \/ Die(w)

Next ==
  \/ \E u \in Users : \/ \E on \in {"on", "off"} : SetPreference(u, on)
                      \/ ToggleMute(u)
  \/ \E readers \in SUBSET Users : TriggerAlerts(readers)
  \/ Move \/ TriggerViewAlerts \/ Age
  \/ \E w \in Workers : Run(w) \/ Fail(w)
  \/ Crash

\* A pool thread takes the next task and runs it to its end.
Fairness == \A w \in Workers : WF_vars(Run(w))

Spec == Init /\ [][Next]_vars /\ Fairness
-----------------------------------------------------------------------------
(* Properties.                                                             *)

\* Every variable keeps its type; a thread that touches a row has its key.
TypeOK ==
  /\ prefs \in [Users -> {"none", "on", "off"}]
  /\ muted \in [Users -> BOOLEAN]
  /\ moved \in BOOLEAN /\ old \in BOOLEAN /\ published \in BOOLEAN
  /\ following \subseteq Users
  /\ queue \in Seq(Task)
  /\ step \in [Workers -> Steps]
  /\ task \in [Workers -> Task]
  /\ stage \in [Workers -> {"follow", "views"}]
  /\ todo \in [Workers -> SUBSET (Users \X SUBSET Channels)]
  /\ user \in [Workers -> Users \cup {NoUser}]
  /\ left \in [Workers -> SUBSET Channels]
  /\ chan \in [Workers -> Channels \cup {NoChannel}]
  /\ note \in [Keys -> Status]
  /\ sends \in [Keys -> Nat]
  /\ steady \subseteq Users
  /\ changes \in Nat /\ faults \in Nat /\ passes \in Nat
  /\ cut \in BOOLEAN
  /\ \A w \in Workers :
       /\ step[w] \in {"channel", "insert", "send", "sent", "failed"} => user[w] \in Users
       /\ step[w] \in {"insert", "send", "sent", "failed"} => chan[w] \in Channels

\* "A reader hears about an event once per channel, however many reasons they
\* have to": following, a view, a measured move, passes racing, send retries.
\* And no message leaves without a row to show for it.
AlertedOnce ==
  \A k \in Keys : sends[k] <= 1 /\ (sends[k] = 1 => note[k] # "none")

\* A reader who had muted the company, or turned alerts off, before the event
\* was news and has left it so gets nothing by either path ("off means off,
\* whatever a view asks for"), however long a pass waits in the pool.
QuietReaderHearsNothing ==
  \A u \in steady, c \in Channels :
    muted[u] \/ prefs[u] = "off" => note[<<u, c>>] = "none"

\* A delivery is claimed once and settled once: no pass goes back on what
\* another recorded, and a message leaves only under a pending row.
SettledOnce ==
  [][\A k \in Keys :
       /\ note'[k] # note[k] =>
            \/ note[k] = "none" /\ note'[k] = "pending"
            \/ note[k] = "pending" /\ note'[k] \in {"sent", "failed"}
       /\ sends'[k] # sends[k] => note[k] = "pending"]_vars

Willing(u) == u \in Wants /\ prefs[u] = "on" /\ ~muted[u]

\* A follower who wants the event and leaves it so has an outcome recorded on
\* every channel, be it sent or failed, unless a task was cut short: a channel
\* that fails, or a reader before them, does not swallow it.
FollowersHear ==
  <>[](\A k \in Keys :
         k[1] \in following \cap steady /\ Willing(k[1]) /\ k[2] \in Chosen[k[1]] =>
           note[k] \in {"sent", "failed"} \/ cut)
=============================================================================
