------------------------ MODULE AlertDispatcherProofs ------------------------
(***************************************************************************)
(* What the dispatcher guarantees for any pool size, readers and channels: *)
(* the types, one message per reader and channel, a ledger that is settled *)
(* once, and silence for those who asked for it.                           *)
(***************************************************************************)
EXTENDS AlertDispatcher, SequenceTheorems, TLAPS

(* Type correctness.  The switches, the queue and the ledger are typed      *)
(* independently of the threads.                                            *)

LEMMA NoTaskIsTask == NoTask \in Task
  BY DEF NoTask, Task

LEMMA ProceedType ==
  ASSUME TypeOK, NEW w \in Workers, NEW S \in SUBSET (Users \X SUBSET Channels),
         NEW from, NEW to \in {"muted", "switch", "silence", "user"},
         Proceed(w, S, from, to), stage' \in [Workers -> {"follow", "views"}]
  PROVE  TypeOK'
  <1>1. step' \in [Workers -> Steps]
    BY DEF Proceed, Goto, TypeOK, Steps
  <1>2. todo' \in [Workers -> SUBSET (Users \X SUBSET Channels)]
    BY DEF Proceed, TypeOK
  <1>3. \A v \in Workers :
          /\ step'[v] \in {"channel", "insert", "send", "sent", "failed"} =>
               user'[v] \in Users
          /\ step'[v] \in {"insert", "send", "sent", "failed"} => chan'[v] \in Channels
    BY DEF Proceed, Goto, TypeOK, thread, Steps
  <1>4. QED
    BY <1>1, <1>2, <1>3 DEF Proceed, TypeOK, settings, news, ledger, history

LEMMA IdleType ==
  ASSUME TypeOK, NEW w \in Workers, Idle(w),
         UNCHANGED <<settings, news, queue, ledger, steady, changes, passes>>,
         faults' \in Nat, cut' \in BOOLEAN
  PROVE  TypeOK'
  <1>1. /\ step' \in [Workers -> Steps]
        /\ task' \in [Workers -> Task]
        /\ stage' \in [Workers -> {"follow", "views"}]
        /\ todo' \in [Workers -> SUBSET (Users \X SUBSET Channels)]
        /\ user' \in [Workers -> Users \cup {NoUser}]
        /\ left' \in [Workers -> SUBSET Channels]
        /\ chan' \in [Workers -> Channels \cup {NoChannel}]
    BY NoTaskIsTask DEF Idle, TypeOK, Steps
  <1>2. \A v \in Workers :
          /\ step'[v] \in {"channel", "insert", "send", "sent", "failed"} =>
               user'[v] \in Users
          /\ step'[v] \in {"insert", "send", "sent", "failed"} => chan'[v] \in Channels
    BY DEF Idle, TypeOK
  <1>3. QED
    BY <1>1, <1>2 DEF TypeOK, settings, news, ledger

LEMMA ReadersType ==
  TypeOK /\ (\/ \E u \in Users : \/ \E on \in {"on", "off"} : SetPreference(u, on)
                                 \/ ToggleMute(u)
             \/ \E readers \in SUBSET Users : TriggerAlerts(readers)
             \/ Move \/ TriggerViewAlerts \/ Age) => TypeOK'
  <1> SUFFICES ASSUME TypeOK PROVE
        (\/ \E u \in Users : \/ \E on \in {"on", "off"} : SetPreference(u, on)
                             \/ ToggleMute(u)
         \/ \E readers \in SUBSET Users : TriggerAlerts(readers)
         \/ Move \/ TriggerViewAlerts \/ Age) => TypeOK'
    OBVIOUS
  <1>1. ASSUME NEW u \in Users, NEW on \in {"on", "off"}, SetPreference(u, on)
        PROVE  TypeOK'
    BY <1>1 DEF SetPreference, Unsettle, TypeOK, news, thread, ledger
  <1>2. ASSUME NEW u \in Users, ToggleMute(u) PROVE TypeOK'
    BY <1>2 DEF ToggleMute, Unsettle, TypeOK, news, thread, ledger
  <1>3. ASSUME NEW readers \in SUBSET Users, TriggerAlerts(readers) PROVE TypeOK'
    <2>1. [pass |-> "publish", readers |-> readers] \in Task
      BY DEF Task
    <2>2. queue' \in Seq(Task) /\ passes' \in Nat
      <3>1. CASE UNCHANGED <<queue, passes>>
        BY <3>1 DEF TypeOK
      <3>2. CASE Submit("publish", readers)
        BY <3>2, <2>1 DEF Submit, TypeOK
      <3>3. QED
        BY <1>3, <3>1, <3>2 DEF TriggerAlerts
    <2>3. QED
      BY <1>3, <2>2 DEF TriggerAlerts, TypeOK, settings, thread, ledger
  <1>4. ASSUME Move \/ Age PROVE TypeOK'
    BY <1>4 DEF Move, Age, TypeOK, settings, thread, ledger, history
  <1>5. ASSUME TriggerViewAlerts PROVE TypeOK'
    <2>1. [pass |-> "moved", readers |-> {}] \in Task
      BY DEF Task
    <2>2. queue' \in Seq(Task) /\ passes' \in Nat
      BY <1>5, <2>1 DEF TriggerViewAlerts, Submit, TypeOK
    <2>3. QED
      BY <1>5, <2>2 DEF TriggerViewAlerts, TypeOK, settings, news, thread, ledger
  <1>6. QED
    BY <1>1, <1>2, <1>3, <1>4, <1>5

LEMMA RunType ==
  ASSUME TypeOK, NEW w \in Workers, Run(w)
  PROVE  TypeOK'
  <1> USE DispatcherAssumption DEF DispatcherAssumption
  <1>1. CASE Start(w)
    <2>1. /\ queue' \in Seq(Task)
          /\ task' \in [Workers -> Task]
      BY <1>1 DEF Start, TypeOK
    <2>2. /\ step' \in [Workers -> Steps]
          /\ stage' \in [Workers -> {"follow", "views"}]
          /\ \A v \in Workers : step'[v] = step[v] \/ step'[v] \in {"prefs", "views"}
      BY <1>1 DEF Start, Goto, TypeOK, Steps
    <2>3. QED
      BY <1>1, <2>1, <2>2 DEF Start, TypeOK, settings, news, ledger, history
  <1>2. CASE ReadPreferences(w)
    <2>1. {<<u, Chosen[u]>> : u \in {v \in task[w].readers \cap Wants : prefs[v] = "on"}}
            \in SUBSET (Users \X SUBSET Channels)
      OBVIOUS
    <2>2. QED
      BY <1>2, <2>1, ProceedType DEF ReadPreferences, TypeOK
  <1>3. CASE DropMuted(w)
    <2>1. Unmuted(todo[w]) \in SUBSET (Users \X SUBSET Channels)
      BY DEF TypeOK, Unmuted
    <2>2. QED
      BY <1>3, <2>1, ProceedType DEF DropMuted, TypeOK
  <1>4. CASE MatchViews(w)
    <2> DEFINE late == task[w].pass = "moved" /\ old
    <2> DEFINE found == IF late THEN {} ELSE Matching(task[w].pass)
    <2>0. found \subseteq Users
      BY DEF Matching
    <2> HIDE DEF found
    <2>1. {<<u, {}>> : u \in found} \in SUBSET (Users \X SUBSET Channels)
      BY <2>0
    <2>2. QED
      BY <1>4, <2>1, ProceedType DEF MatchViews, TypeOK, found
  <1>5. CASE ReadSwitch(w)
    <2> DEFINE on == {u \in Users : <<u, {}>> \in todo[w] /\ prefs[u] # "off"}
    <2>0. \A u \in on : /\ u \in Users
                        /\ OwnerChannels(u) \in SUBSET Channels
      BY DEF OwnerChannels
    <2> HIDE DEF on
    <2>1. {<<u, OwnerChannels(u)>> : u \in on}
            \in SUBSET (Users \X SUBSET Channels)
      BY <2>0
    <2>2. QED
      BY <1>5, <2>1, ProceedType DEF ReadSwitch, TypeOK, on
  <1>6. CASE DropMutedOwners(w)
    <2>1. Unmuted(todo[w]) \in SUBSET (Users \X SUBSET Channels)
      BY DEF TypeOK, Unmuted
    <2>2. QED
      BY <1>6, <2>1, ProceedType DEF DropMutedOwners, TypeOK
  <1>7. CASE NextUser(w)
    <2>1. PICK t \in todo[w] : /\ TakeUp(w, t)
                               /\ todo' = [todo EXCEPT ![w] = @ \ {t}]
      BY <1>7 DEF NextUser
    <2>2. t[1] \in Users /\ t[2] \in SUBSET Channels
      BY <2>1 DEF TypeOK
    <2>3. /\ step' \in [Workers -> Steps]
          /\ todo' \in [Workers -> SUBSET (Users \X SUBSET Channels)]
          /\ user' \in [Workers -> Users \cup {NoUser}]
          /\ left' \in [Workers -> SUBSET Channels]
      BY <2>1, <2>2 DEF TakeUp, Goto, TypeOK, Steps
    <2>4. \A v \in Workers :
            /\ step'[v] \in {"channel", "insert", "send", "sent", "failed"} =>
                 user'[v] \in Users
            /\ step'[v] \in {"insert", "send", "sent", "failed"} => chan'[v] \in Channels
      BY <2>1, <2>2 DEF TakeUp, Goto, TypeOK
    <2>5. QED
      BY <1>7, <2>1, <2>3, <2>4
      DEF NextUser, TakeUp, TypeOK, settings, news, ledger, history
  <1>8. CASE Leave(w)
    <2>1. CASE Idle(w)
      BY <1>8, <2>1, IdleType DEF Leave, history, TypeOK
    <2>2. CASE Goto(w, "user", "views") /\ UNCHANGED <<task, stage, todo, user, left, chan>>
      BY <1>8, <2>2 DEF Leave, Goto, TypeOK, Steps, settings, news, ledger, history
    <2>3. QED
      BY <1>8, <2>1, <2>2 DEF Leave
  <1>9. CASE NextChannel(w)
    <2>1. PICK c \in left[w] :
            /\ left' = [left EXCEPT ![w] = @ \ {c}]
            /\ chan' = [chan EXCEPT ![w] = c]
            /\ Goto(w, "channel", IF note[<<user[w], c>>] = "none" THEN "insert"
                                                                  ELSE "channel")
      BY <1>9 DEF NextChannel
    <2>2. c \in Channels
      BY <2>1 DEF TypeOK
    <2>3. /\ step' \in [Workers -> Steps]
          /\ left' \in [Workers -> SUBSET Channels]
          /\ chan' \in [Workers -> Channels \cup {NoChannel}]
      BY <2>1, <2>2 DEF Goto, TypeOK, Steps
    <2>4. \A v \in Workers :
            /\ step'[v] \in {"channel", "insert", "send", "sent", "failed"} =>
                 user[v] \in Users
            /\ step'[v] \in {"insert", "send", "sent", "failed"} => chan'[v] \in Channels
      BY <2>1, <2>2 DEF Goto, TypeOK
    <2>5. QED
      BY <1>9, <2>3, <2>4 DEF NextChannel, TypeOK, settings, news, ledger, history
  <1>10. CASE EndChannels(w)
    BY <1>10 DEF EndChannels, Goto, TypeOK, Steps, settings, news, ledger, history
  <1>11. CASE Insert(w)
    <2>1. Key(w) \in Keys
      BY <1>11 DEF Insert, TypeOK, Key, Keys
    <2>2. /\ note' \in [Keys -> Status]
          /\ step' \in [Workers -> Steps]
          /\ \A v \in Workers : step'[v] # step[v] =>
               v = w /\ step[v] = "insert" /\ step'[v] \in {"send", "channel"}
      BY <1>11, <2>1 DEF Insert, Goto, TypeOK, Status, Steps
    <2>3. QED
      BY <1>11, <2>2 DEF Insert, TypeOK, settings, news, history
  <1>12. CASE Send(w)
    <2>1. Key(w) \in Keys
      BY <1>12 DEF Send, Goto, TypeOK, Key, Keys
    <2>2. /\ sends' \in [Keys -> Nat]
          /\ step' \in [Workers -> Steps]
          /\ \A v \in Workers : step'[v] # step[v] =>
               v = w /\ step[v] = "send" /\ step'[v] = "sent"
      BY <1>12, <2>1 DEF Send, Goto, TypeOK, Steps
    <2>3. QED
      BY <1>12, <2>2 DEF Send, TypeOK, settings, news, history
  <1>13. CASE MarkSent(w) \/ MarkFailed(w)
    <2>1. Key(w) \in Keys
      BY <1>13 DEF MarkSent, MarkFailed, Record, Goto, TypeOK, Key, Keys
    <2>2. /\ note' \in [Keys -> Status]
          /\ step' \in [Workers -> Steps]
          /\ \A v \in Workers : step'[v] # step[v] =>
               v = w /\ step[v] \in {"sent", "failed"} /\ step'[v] = "channel"
      BY <1>13, <2>1 DEF MarkSent, MarkFailed, Record, Goto, TypeOK, Steps, Status
    <2>3. QED
      BY <1>13, <2>2 DEF MarkSent, MarkFailed, Record, TypeOK, settings, news, history
  <1>14. QED
    BY <1>1, <1>2, <1>3, <1>4, <1>5, <1>6, <1>7, <1>8, <1>9, <1>10, <1>11, <1>12,
       <1>13 DEF Run

LEMMA FailType ==
  ASSUME TypeOK, Crash \/ \E w \in Workers : Fail(w)
  PROVE  TypeOK'
  <1>1. CASE Crash
    BY <1>1, NoTaskIsTask
    DEF Crash, TypeOK, Steps, settings, news, ledger
  <1>2. ASSUME NEW w \in Workers, SendFails(w) PROVE TypeOK'
    <2>1. Key(w) \in Keys
      BY <1>2 DEF SendFails, Goto, TypeOK, Key, Keys
    <2>2. /\ sends' \in [Keys -> Nat]
          /\ step' \in [Workers -> Steps]
          /\ \A v \in Workers : step'[v] # step[v] =>
               v = w /\ step[v] = "send" /\ step'[v] = "failed"
      BY <1>2, <2>1 DEF SendFails, Goto, TypeOK, Steps
    <2>3. QED
      BY <1>2, <2>2 DEF SendFails, TypeOK, settings, news
  <1>3. ASSUME NEW w \in Workers, MarkSentFails(w) PROVE TypeOK'
    BY <1>3 DEF MarkSentFails, Goto, TypeOK, Steps, settings, news, ledger
  <1>4. ASSUME NEW w \in Workers, Die(w) PROVE TypeOK'
    BY <1>4, IdleType DEF Die, TypeOK
  <1>5. QED
    BY <1>1, <1>2, <1>3, <1>4 DEF Fail

LEMMA StutterType ==
  ASSUME TypeOK, UNCHANGED vars
  PROVE  TypeOK'
  BY DEF TypeOK, vars, settings, news, thread, ledger, history

LEMMA InitType == Init => TypeOK
  <1> SUFFICES ASSUME Init PROVE TypeOK
    OBVIOUS
  <1>1. /\ prefs \in [Users -> {"none", "on", "off"}]
        /\ muted \in [Users -> BOOLEAN]
        /\ moved \in BOOLEAN /\ old \in BOOLEAN /\ published \in BOOLEAN
        /\ following \subseteq Users
        /\ steady \subseteq Users
        /\ changes \in Nat /\ faults \in Nat /\ passes \in Nat
        /\ cut \in BOOLEAN
    BY DispatcherAssumption DEF Init, DispatcherAssumption
  <1>2. /\ step \in [Workers -> Steps]
        /\ task \in [Workers -> Task]
        /\ stage \in [Workers -> {"follow", "views"}]
        /\ todo \in [Workers -> SUBSET (Users \X SUBSET Channels)]
        /\ user \in [Workers -> Users \cup {NoUser}]
        /\ left \in [Workers -> SUBSET Channels]
        /\ chan \in [Workers -> Channels \cup {NoChannel}]
    BY NoTaskIsTask DEF Init, Steps
  <1>3. /\ note \in [Keys -> Status]
        /\ sends \in [Keys -> Nat]
    BY DEF Init, Status
  <1>4. queue \in Seq(Task)
    <2>1. <<>> \in Seq(Task)
      OBVIOUS
    <2>2. QED
      BY <2>1 DEF Init
  <1>5. \A w \in Workers : step[w] = "idle"
    BY DEF Init
  <1>6. QED
    BY <1>1, <1>2, <1>3, <1>4, <1>5 DEF TypeOK

\* The dispatcher's variables keep their types, and no thread touches a row
\* without a user and a channel in hand.
THEOREM TypeCorrect == Spec => []TypeOK
  <1>1. TypeOK /\ [Next]_vars => TypeOK'
    BY ReadersType, RunType, FailType, StutterType DEF Next
  <1>2. QED
    BY <1>1, InitType, PTL DEF Spec
-----------------------------------------------------------------------------
(* The ledger.  A thread that holds a delivery owns its pending row alone,  *)
(* and before the send nothing has left under it.                           *)

Holding == {"send", "sent", "failed"}

ClaimInv ==
  /\ \A w \in Workers : step[w] \in Holding => note[Key(w)] = "pending"
  /\ \A w \in Workers : step[w] = "send" => sends[Key(w)] = 0
  /\ \A v, w \in Workers :
       v # w /\ step[v] \in Holding /\ step[w] \in Holding => Key(v) # Key(w)

LedgerInv == AlertedOnce /\ ClaimInv

\* Steps that neither touch the ledger nor take up a delivery.
LEMMA LedgerQuiet ==
  ASSUME LedgerInv, UNCHANGED ledger,
         \A v \in Workers : step'[v] \in Holding =>
            step'[v] = step[v] /\ user'[v] = user[v] /\ chan'[v] = chan[v]
  PROVE  LedgerInv'
  <1>1. UNCHANGED <<note, sends>>
    BY DEF ledger
  <1>2. \A v \in Workers : step'[v] \in Holding => step'[v] = step[v] /\ Key(v)' = Key(v)
    BY DEF Key
  <1>3. AlertedOnce'
    BY <1>1 DEF LedgerInv, AlertedOnce
  <1>4. ClaimInv'
    BY <1>1, <1>2 DEF LedgerInv, ClaimInv, Holding
  <1>5. QED
    BY <1>3, <1>4 DEF LedgerInv

SettleStep ==
  \A k \in Keys :
    /\ note'[k] # note[k] =>
         \/ note[k] = "none" /\ note'[k] = "pending"
         \/ note[k] = "pending" /\ note'[k] \in {"sent", "failed"}
    /\ sends'[k] # sends[k] => note[k] = "pending"

LEMMA KeyHeld ==
  ASSUME TypeOK, NEW w \in Workers, step[w] \in Holding \cup {"insert"}
  PROVE  Key(w) \in Keys
  BY DEF TypeOK, Key, Keys, Holding

LEMMA ClaimStep ==
  ASSUME TypeOK, LedgerInv, NEW w \in Workers, Insert(w)
  PROVE  LedgerInv' /\ SettleStep
  <1>1. step[w] = "insert" /\ Key(w) \in Keys /\ UNCHANGED <<user, chan, sends>>
    BY KeyHeld DEF Insert
  <1>2. \A v \in Workers : Key(v)' = Key(v)
    BY <1>1 DEF Key
  <1>3. CASE note[Key(w)] # "none"
    <2>1. UNCHANGED ledger
      BY <1>1, <1>3 DEF Insert, ledger
    <2>2. \A v \in Workers : step'[v] \in Holding => step'[v] = step[v]
      BY <1>3 DEF Insert, Goto, TypeOK, Holding
    <2>3. QED
      BY <1>1, <2>1, <2>2, LedgerQuiet DEF SettleStep, ledger
  <1>4. CASE note[Key(w)] = "none"
    <2>1. note' = [note EXCEPT ![Key(w)] = "pending"] /\ Goto(w, "insert", "send")
      BY <1>4 DEF Insert
    <2>2. sends[Key(w)] = 0
      BY <1>1, <1>4 DEF LedgerInv, AlertedOnce, TypeOK
    <2>3. \A v \in Workers : step[v] \in Holding => Key(v) # Key(w)
      BY <1>4 DEF LedgerInv, ClaimInv
    <2>4. /\ step'[w] = "send"
          /\ \A v \in Workers \ {w} : step'[v] = step[v]
      BY <2>1 DEF Goto, TypeOK
    <2>5. /\ note'[Key(w)] = "pending"
          /\ \A k \in Keys \ {Key(w)} : note'[k] = note[k]
      BY <1>1, <2>1 DEF TypeOK
    <2>6. AlertedOnce'
      BY <1>1, <2>5 DEF LedgerInv, AlertedOnce
    <2>7. \A v \in Workers : step'[v] \in Holding => note'[Key(v)] = "pending"
      <3>1. \A v \in Workers : step[v] \in Holding => Key(v) \in Keys
        BY KeyHeld
      <3>2. QED
        BY <2>3, <2>4, <2>5, <3>1 DEF LedgerInv, ClaimInv
    <2>8. ClaimInv'
      BY <1>1, <1>2, <2>2, <2>3, <2>4, <2>7 DEF LedgerInv, ClaimInv, Holding
    <2>9. QED
      BY <1>1, <1>4, <2>5, <2>6, <2>8 DEF LedgerInv, SettleStep
  <1>5. QED
    BY <1>3, <1>4

\* channel.send, whether it returns or raises, and the message left or not.
LEMMA SendStep ==
  ASSUME TypeOK, LedgerInv, NEW w \in Workers, NEW to \in {"sent", "failed"},
         Goto(w, "send", to), UNCHANGED <<user, chan, note>>,
         \/ sends' = [sends EXCEPT ![Key(w)] = @ + 1]
         \/ UNCHANGED sends
  PROVE  LedgerInv' /\ SettleStep
  <1>1. /\ Key(w) \in Keys
        /\ note[Key(w)] = "pending"
        /\ sends[Key(w)] = 0
    BY KeyHeld DEF Goto, LedgerInv, ClaimInv, Holding
  <1>2. \A v \in Workers : Key(v)' = Key(v)
    BY DEF Key
  <1>3. /\ \A k \in Keys \ {Key(w)} : sends'[k] = sends[k]
        /\ sends'[Key(w)] \in {0, 1}
    BY <1>1 DEF TypeOK
  <1>4. /\ step[w] = "send" /\ step'[w] = to
        /\ \A v \in Workers \ {w} : step'[v] = step[v]
    BY DEF Goto, TypeOK
  <1>5. AlertedOnce'
    BY <1>1, <1>3 DEF LedgerInv, AlertedOnce
  <1>6. \A v \in Workers : step'[v] = "send" => sends'[Key(v)] = 0
    <2>1. \A v \in Workers : step[v] = "send" => Key(v) \in Keys
      BY KeyHeld DEF Holding
    <2>2. QED
      BY <1>3, <1>4, <2>1 DEF LedgerInv, ClaimInv, Holding
  <1>7. ClaimInv'
    BY <1>2, <1>4, <1>6 DEF LedgerInv, ClaimInv, Holding
  <1>8. QED
    BY <1>1, <1>3, <1>5, <1>7 DEF LedgerInv, SettleStep

LEMMA RecordStep ==
  ASSUME TypeOK, LedgerInv, NEW w \in Workers, NEW from \in {"sent", "failed"},
         NEW status \in {"sent", "failed"}, Record(w, from, status)
  PROVE  LedgerInv' /\ SettleStep
  <1>1. /\ Key(w) \in Keys
        /\ note[Key(w)] = "pending"
        /\ UNCHANGED <<user, chan, sends>>
    BY KeyHeld DEF Record, Goto, LedgerInv, ClaimInv, Holding
  <1>2. \A v \in Workers : Key(v)' = Key(v)
    BY <1>1 DEF Key
  <1>3. /\ \A k \in Keys \ {Key(w)} : note'[k] = note[k]
        /\ note'[Key(w)] = status
    BY <1>1 DEF Record, TypeOK
  <1>4. /\ step[w] \in Holding /\ step'[w] \notin Holding
        /\ \A v \in Workers \ {w} : step'[v] = step[v]
    BY DEF Record, Goto, TypeOK, Holding
  <1>5. AlertedOnce'
    BY <1>1, <1>3 DEF LedgerInv, AlertedOnce
  <1>6. \A v \in Workers : step'[v] \in Holding => note'[Key(v)] = "pending"
    <2>1. \A v \in Workers : step[v] \in Holding => Key(v) \in Keys
      BY KeyHeld
    <2>2. QED
      BY <1>3, <1>4, <2>1 DEF LedgerInv, ClaimInv
  <1>7. ClaimInv'
    BY <1>1, <1>2, <1>4, <1>6 DEF LedgerInv, ClaimInv, Holding
  <1>8. QED
    BY <1>1, <1>3, <1>5, <1>7 DEF LedgerInv, SettleStep

LEMMA LedgerStep == TypeOK /\ LedgerInv /\ [Next]_vars => LedgerInv' /\ SettleStep
  <1> SUFFICES ASSUME TypeOK, LedgerInv, [Next]_vars PROVE LedgerInv' /\ SettleStep
    OBVIOUS
  <1>1. ASSUME UNCHANGED ledger,
               \A v \in Workers : step'[v] \in Holding =>
                 step'[v] = step[v] /\ user'[v] = user[v] /\ chan'[v] = chan[v]
        PROVE  LedgerInv' /\ SettleStep
    BY <1>1, LedgerQuiet DEF SettleStep, ledger
  <1>2. CASE \/ \E u \in Users : \/ \E on \in {"on", "off"} : SetPreference(u, on)
                                 \/ ToggleMute(u)
             \/ \E readers \in SUBSET Users : TriggerAlerts(readers)
             \/ Move \/ TriggerViewAlerts \/ Age
             \/ UNCHANGED vars
    <2>1. UNCHANGED <<thread, ledger>>
      BY <1>2 DEF SetPreference, ToggleMute, TriggerAlerts, Move, TriggerViewAlerts,
                  Age, vars
    <2>2. QED
      BY <1>1, <2>1 DEF thread
  <1>3. ASSUME NEW w \in Workers,
               \/ Start(w) \/ ReadPreferences(w) \/ DropMuted(w) \/ MatchViews(w)
               \/ ReadSwitch(w) \/ DropMutedOwners(w)
        PROVE  LedgerInv' /\ SettleStep
    <2>1. \E from, to \in Steps \ Holding : Goto(w, from, to)
      BY <1>3 DEF Start, ReadPreferences, DropMuted, MatchViews, ReadSwitch,
                  DropMutedOwners, Proceed, Goto, Steps, Holding
    <2>2. UNCHANGED <<ledger, user, chan>>
      BY <1>3 DEF Start, ReadPreferences, DropMuted, MatchViews, ReadSwitch,
                  DropMutedOwners, Proceed
    <2>3. QED
      BY <1>1, <2>1, <2>2 DEF Goto, TypeOK
  <1>4. ASSUME NEW w \in Workers,
               NextUser(w) \/ Leave(w) \/ NextChannel(w) \/ EndChannels(w) \/ Die(w)
        PROVE  LedgerInv' /\ SettleStep
    <2>1. UNCHANGED ledger
      BY <1>4 DEF NextUser, Leave, NextChannel, EndChannels, Die
    <2>2. step'[w] \notin Holding
      BY <1>4 DEF NextUser, TakeUp, Leave, NextChannel, EndChannels, Die, Idle, Goto,
                  TypeOK, Holding
    <2>3. \A v \in Workers \ {w} :
            step'[v] = step[v] /\ user'[v] = user[v] /\ chan'[v] = chan[v]
      BY <1>4 DEF NextUser, TakeUp, Leave, NextChannel, EndChannels, Die, Idle, Goto,
                  TypeOK
    <2>4. QED
      BY <1>1, <2>1, <2>2, <2>3
  <1>5. ASSUME NEW w \in Workers, Insert(w) PROVE LedgerInv' /\ SettleStep
    BY <1>5, ClaimStep
  <1>6. ASSUME NEW w \in Workers, Send(w) \/ SendFails(w)
        PROVE  LedgerInv' /\ SettleStep
    BY <1>6, SendStep DEF Send, SendFails
  <1>7. ASSUME NEW w \in Workers, MarkSent(w) \/ MarkFailed(w)
        PROVE  LedgerInv' /\ SettleStep
    BY <1>7, RecordStep DEF MarkSent, MarkFailed
  <1>8. ASSUME NEW w \in Workers, MarkSentFails(w) PROVE LedgerInv' /\ SettleStep
    <2>1. UNCHANGED <<user, chan, note, sends>>
      BY <1>8 DEF MarkSentFails, ledger
    <2>2. /\ step[w] = "sent" /\ step'[w] = "failed"
          /\ \A v \in Workers \ {w} : step'[v] = step[v]
      BY <1>8 DEF MarkSentFails, Goto, TypeOK
    <2>3. QED
      BY <2>1, <2>2 DEF LedgerInv, ClaimInv, AlertedOnce, SettleStep, Holding, Key
  <1>9. CASE Crash
    <2>1. UNCHANGED ledger
      BY <1>9 DEF Crash
    <2>2. \A v \in Workers : step'[v] \notin Holding
      BY <1>9 DEF Crash, Holding
    <2>3. QED
      BY <1>1, <2>1, <2>2
  <1>10. QED
    BY <1>2, <1>3, <1>4, <1>5, <1>6, <1>7, <1>8, <1>9 DEF Next, Run, Fail

LEMMA LedgerInit == Init => LedgerInv
  BY DEF Init, LedgerInv, ClaimInv, AlertedOnce, Holding

\* A reader hears about an event at most once per channel, and never without a
\* row, whatever passes race in a pool of any size and whichever of their
\* sends and commits fail.
THEOREM HeardOnce == Spec => []AlertedOnce
  <1>1. TypeOK /\ LedgerInv /\ [Next]_vars => LedgerInv'
    BY LedgerStep
  <1>2. Spec => [](TypeOK /\ LedgerInv)
    BY <1>1, LedgerInit, TypeCorrect, PTL DEF Spec
  <1>3. LedgerInv => AlertedOnce
    BY DEF LedgerInv
  <1>4. QED
    BY <1>2, <1>3, PTL

\* A delivery is claimed once and settled once, and a message leaves only under
\* a pending row.
THEOREM LedgerSettled == Spec => SettledOnce
  <1>1. TypeOK /\ LedgerInv /\ [Next]_vars => LedgerInv'
    BY LedgerStep
  <1>2. Spec => [](TypeOK /\ LedgerInv)
    BY <1>1, LedgerInit, TypeCorrect, PTL DEF Spec
  <1>3. TypeOK /\ LedgerInv /\ [Next]_vars => [SettleStep]_vars
    BY LedgerStep
  <1>4. Spec => [][SettleStep]_vars
    BY <1>2, <1>3, PTL DEF Spec
  <1>5. QED
    BY <1>4 DEF SettledOnce, SettleStep
-----------------------------------------------------------------------------
(* Quiet readers.  From the query that reads their switch on, no thread has *)
(* them among its targets; before that nothing has been delivered.          *)

Spared(u, w) == \A t \in todo[w] : t[1] # u

ThreadQuiet(w) ==
  /\ step[w] \in {"idle", "prefs", "views"} => todo[w] = {}
  /\ step[w] = "idle" => user[w] = NoUser
  /\ \A u \in steady :
       /\ muted[u] \/ prefs[u] = "off" => user[w] # u
       /\ prefs[u] = "off" /\ step[w] # "switch" => Spared(u, w)
       /\ muted[u] /\ step[w] \notin {"muted", "switch", "silence"} => Spared(u, w)

NothingYet ==
  passes = 0 => /\ queue = <<>>
                /\ \A w \in Workers : step[w] = "idle"
                /\ \A k \in Keys : note[k] = "none"

QuietInv ==
  QuietReaderHearsNothing /\ NothingYet /\ \A w \in Workers : ThreadQuiet(w)

LEMMA QuietInit == Init => QuietInv
  BY DispatcherAssumption
  DEF Init, QuietInv, QuietReaderHearsNothing, NothingYet, ThreadQuiet, Spared, Keys,
      DispatcherAssumption

LEMMA SettingsQuiet ==
  ASSUME TypeOK, QuietInv, NEW u \in Users, Unsettle(u),
         \/ \E on \in {"on", "off"} : SetPreference(u, on)
         \/ ToggleMute(u)
  PROVE  QuietInv'
  <1>1. UNCHANGED <<queue, step, todo, user, note, passes>>
    BY DEF SetPreference, ToggleMute, thread, ledger
  <1>2. \A v \in Users \ {u} : prefs'[v] = prefs[v] /\ muted'[v] = muted[v]
    BY DEF SetPreference, ToggleMute, TypeOK
  <1>3. CASE passes = 0
    <2>1. \A w \in Workers : todo[w] = {} /\ user[w] = NoUser /\ step[w] = "idle"
      BY <1>3 DEF QuietInv, NothingYet, ThreadQuiet
    <2>2. \A k \in Keys : note[k] = "none"
      BY <1>3 DEF QuietInv, NothingYet
    <2>3. steady' \subseteq Users
      BY DEF Unsettle, TypeOK
    <2>4. QuietReaderHearsNothing'
      BY <1>1, <2>2, <2>3 DEF QuietReaderHearsNothing, Keys
    <2>5. \A w \in Workers : ThreadQuiet(w)'
      BY <1>1, <2>1, <2>3, DispatcherAssumption
      DEF ThreadQuiet, Spared, DispatcherAssumption
    <2>6. QED
      BY <1>1, <2>4, <2>5 DEF QuietInv, NothingYet
  <1>4. CASE passes # 0
    <2>1. steady' = steady \ {u} /\ steady \subseteq Users
      BY <1>4 DEF Unsettle, TypeOK
    <2>2. QuietReaderHearsNothing'
      BY <1>1, <1>2, <2>1 DEF QuietInv, QuietReaderHearsNothing
    <2>3. \A w \in Workers : ThreadQuiet(w)'
      BY <1>1, <1>2, <2>1 DEF QuietInv, ThreadQuiet, Spared
    <2>4. QED
      BY <1>1, <2>2, <2>3 DEF QuietInv, NothingYet
  <1>5. QED
    BY <1>3, <1>4

\* A step of one thread once something was submitted.
LEMMA ThreadStep ==
  ASSUME TypeOK, QuietInv, NEW w \in Workers, passes # 0,
         UNCHANGED <<prefs, muted, steady, passes>>,
         \A v \in Workers \ {w} :
           step'[v] = step[v] /\ todo'[v] = todo[v] /\ user'[v] = user[v],
         \A k \in Keys : note'[k] = note[k] \/ k[1] = user[w],
         step[w] # "idle" \/ note' = note,
         ThreadQuiet(w)'
  PROVE  QuietInv'
  <1>1. QuietReaderHearsNothing'
    <2> SUFFICES ASSUME NEW u \in steady', NEW c \in Channels,
                        muted'[u] \/ prefs'[u] = "off"
                 PROVE  note'[<<u, c>>] = "none"
      BY DEF QuietReaderHearsNothing
    <2>1. u \in steady /\ u \in Users /\ (muted[u] \/ prefs[u] = "off")
      BY DEF TypeOK
    <2>2. user[w] # u
      BY <2>1 DEF QuietInv, ThreadQuiet
    <2>3. <<u, c>> \in Keys /\ <<u, c>>[1] = u
      BY <2>1 DEF Keys
    <2>4. note[<<u, c>>] = "none"
      BY <2>1 DEF QuietInv, QuietReaderHearsNothing
    <2>5. QED
      BY <2>2, <2>3, <2>4
  <1>2. \A v \in Workers : ThreadQuiet(v)'
    BY DEF QuietInv, ThreadQuiet, Spared
  <1>3. QED
    BY <1>1, <1>2 DEF QuietInv, NothingYet

LEMMA Busy ==
  ASSUME QuietInv, NEW w \in Workers, step[w] # "idle" \/ queue # <<>>
  PROVE  passes # 0
  BY DEF QuietInv, NothingYet

\* The queries that choose the targets.
LEMMA TargetsQuiet ==
  ASSUME TypeOK, QuietInv, NEW w \in Workers,
         \/ ReadPreferences(w) \/ DropMuted(w) \/ MatchViews(w)
         \/ ReadSwitch(w) \/ DropMutedOwners(w)
  PROVE  QuietInv'
  <1>1. /\ step[w] # "idle"
        /\ UNCHANGED <<prefs, muted, steady, passes, note, user>>
        /\ \A v \in Workers \ {w} : step'[v] = step[v] /\ todo'[v] = todo[v]
    BY DEF ReadPreferences, DropMuted, MatchViews, ReadSwitch, DropMutedOwners, Proceed,
           Goto, settings, ledger, history, TypeOK
  <1>2. steady \subseteq Users
    BY DEF TypeOK
  <1>3. /\ step'[w] \in {"user", "muted", "switch", "silence"}
        /\ todo'[w] # {} \/ step'[w] = "user"
    BY DEF ReadPreferences, DropMuted, MatchViews, ReadSwitch, DropMutedOwners, Proceed,
           Goto, TypeOK
  <1>4. \A u \in steady : muted[u] \/ prefs[u] = "off" => user'[w] # u
    BY <1>1 DEF QuietInv, ThreadQuiet
  <1>5. \A u \in steady : prefs[u] = "off" /\ step'[w] # "switch" => Spared(u, w)'
    <2>1. CASE ReadPreferences(w)
      BY <2>1, <1>2 DEF ReadPreferences, Proceed, Spared, TypeOK
    <2>2. CASE DropMuted(w)
      BY <2>2 DEF DropMuted, Proceed, Goto, Unmuted, Spared, QuietInv, ThreadQuiet, TypeOK
    <2>3. CASE MatchViews(w)
      <3>1. step'[w] # "switch" => todo'[w] = {}
        BY <2>3 DEF MatchViews, Proceed, Goto, TypeOK
      <3>2. QED
        BY <3>1 DEF Spared
    <2>4. CASE ReadSwitch(w)
      <3> DEFINE on == {u \in Users : <<u, {}>> \in todo[w] /\ prefs[u] # "off"}
      <3>0. todo'[w] = {<<u, OwnerChannels(u)>> : u \in on}
        BY <2>4 DEF ReadSwitch, Proceed, TypeOK
      <3>1. ASSUME NEW t \in todo'[w] PROVE prefs[t[1]] # "off"
        <4>1. PICK u \in on : t = <<u, OwnerChannels(u)>>
          BY <3>0
        <4>2. t[1] = u
          BY <4>1
        <4>3. QED
          BY <4>1, <4>2
      <3>2. QED
        BY <3>1 DEF Spared
    <2>5. CASE DropMutedOwners(w)
      BY <2>5 DEF DropMutedOwners, Proceed, Goto, Unmuted, Spared, QuietInv, ThreadQuiet,
                  TypeOK
    <2>6. QED
      BY <2>1, <2>2, <2>3, <2>4, <2>5
  <1>6. \A u \in steady :
          muted[u] /\ step'[w] \notin {"muted", "switch", "silence"} => Spared(u, w)'
    <2>1. CASE ReadPreferences(w) \/ MatchViews(w) \/ ReadSwitch(w)
      <3>1. step'[w] \notin {"muted", "switch", "silence"} => todo'[w] = {}
        BY <2>1 DEF ReadPreferences, MatchViews, ReadSwitch, Proceed, Goto, TypeOK
      <3>2. QED
        BY <3>1 DEF Spared
    <2>2. CASE DropMuted(w) \/ DropMutedOwners(w)
      BY <2>2 DEF DropMuted, DropMutedOwners, Proceed, Unmuted, Spared, TypeOK
    <2>3. QED
      BY <2>1, <2>2
  <1>7. ThreadQuiet(w)'
    BY <1>1, <1>3, <1>4, <1>5, <1>6 DEF ThreadQuiet
  <1>8. QED
    BY <1>1, <1>7, Busy, ThreadStep

LEMMA QuietStep == TypeOK /\ QuietInv /\ [Next]_vars => QuietInv'
  <1> SUFFICES ASSUME TypeOK, QuietInv, [Next]_vars PROVE QuietInv'
    OBVIOUS
  <1>0. steady \subseteq Users /\ NoUser \notin Users
    BY DispatcherAssumption DEF TypeOK, DispatcherAssumption
  <1>1. ASSUME NEW u \in Users,
               \/ \E on \in {"on", "off"} : SetPreference(u, on)
               \/ ToggleMute(u)
        PROVE  QuietInv'
    BY <1>1, SettingsQuiet DEF SetPreference, ToggleMute
  <1>2. CASE \/ \E readers \in SUBSET Users : TriggerAlerts(readers)
             \/ Move \/ TriggerViewAlerts \/ Age \/ UNCHANGED vars
    <2>1. UNCHANGED <<prefs, muted, step, todo, user, note, steady>>
      BY <1>2 DEF TriggerAlerts, Move, TriggerViewAlerts, Age, vars, settings, thread,
                  ledger, history
    <2>2. passes' = 0 => passes = 0 /\ queue' = queue
      <3>1. UNCHANGED <<queue, passes>> \/ passes' = passes + 1
        BY <1>2 DEF TriggerAlerts, Move, TriggerViewAlerts, Age, vars, history, Submit
      <3>2. passes \in Nat
        BY DEF TypeOK
      <3>3. QED
        BY <3>1, <3>2
    <2>3. QED
      BY <2>1, <2>2 DEF QuietInv, QuietReaderHearsNothing, NothingYet, ThreadQuiet, Spared
  <1>3. ASSUME NEW w \in Workers, Start(w) PROVE QuietInv'
    <2>1. passes # 0
      BY <1>3, Busy DEF Start
    <2>2. /\ step[w] = "idle" /\ step'[w] \in {"prefs", "views"}
          /\ UNCHANGED <<prefs, muted, steady, passes, note, todo, user>>
          /\ \A v \in Workers \ {w} : step'[v] = step[v]
      BY <1>3 DEF Start, Goto, settings, ledger, history, TypeOK
    <2>3. ThreadQuiet(w)'
      BY <2>2 DEF QuietInv, ThreadQuiet, Spared
    <2>4. QED
      BY <2>1, <2>2, <2>3, ThreadStep
  <1>4. ASSUME NEW w \in Workers,
               \/ ReadPreferences(w) \/ DropMuted(w) \/ MatchViews(w)
               \/ ReadSwitch(w) \/ DropMutedOwners(w)
        PROVE  QuietInv'
    BY <1>4, TargetsQuiet
  <1>5. ASSUME NEW w \in Workers, NextUser(w) PROVE QuietInv'
    <2>1. PICK t \in todo[w] : /\ TakeUp(w, t)
                               /\ todo' = [todo EXCEPT ![w] = @ \ {t}]
      BY <1>5 DEF NextUser
    <2>2. /\ step[w] = "user" /\ step'[w] = "channel"
          /\ user'[w] = t[1] /\ todo'[w] \subseteq todo[w]
          /\ UNCHANGED <<prefs, muted, steady, passes, note>>
          /\ \A v \in Workers \ {w} :
               step'[v] = step[v] /\ todo'[v] = todo[v] /\ user'[v] = user[v]
      BY <1>5, <2>1 DEF NextUser, TakeUp, Goto, settings, ledger, history, TypeOK
    <2>3. ThreadQuiet(w)'
      BY <2>1, <2>2 DEF QuietInv, ThreadQuiet, Spared
    <2>4. QED
      BY <2>2, <2>3, Busy, ThreadStep
  <1>6. ASSUME NEW w \in Workers, Leave(w) \/ Die(w) PROVE QuietInv'
    <2>1. /\ step[w] # "idle" /\ step'[w] \in {"idle", "views"}
          /\ todo'[w] = {}
          /\ step'[w] = "idle" => user'[w] = NoUser
          /\ user'[w] \in {user[w], NoUser}
          /\ UNCHANGED <<prefs, muted, steady, passes, note>>
          /\ \A v \in Workers \ {w} :
               step'[v] = step[v] /\ todo'[v] = todo[v] /\ user'[v] = user[v]
      BY <1>6 DEF Leave, Die, Idle, Goto, settings, ledger, history, TypeOK
    <2>2. ThreadQuiet(w)'
      BY <1>0, <2>1 DEF QuietInv, ThreadQuiet, Spared
    <2>3. QED
      BY <2>1, <2>2, Busy, ThreadStep
  <1>7. ASSUME NEW w \in Workers,
               \/ NextChannel(w) \/ EndChannels(w) \/ Send(w)
               \/ SendFails(w) \/ MarkSentFails(w)
        PROVE  QuietInv'
    <2> DEFINE Loop == {"user", "channel", "insert", "send", "sent", "failed"}
    <2>1. /\ step[w] \in Loop /\ step'[w] \in Loop
          /\ user'[w] \in {user[w], NoUser}
          /\ UNCHANGED <<prefs, muted, steady, passes, note, todo>>
          /\ \A v \in Workers \ {w} : step'[v] = step[v] /\ user'[v] = user[v]
      BY <1>7 DEF NextChannel, EndChannels, Send, SendFails, MarkSentFails, Goto,
                  settings, ledger, history, TypeOK
    <2>2. ThreadQuiet(w)'
      BY <1>0, <2>1 DEF QuietInv, ThreadQuiet, Spared
    <2>3. QED
      BY <2>1, <2>2, Busy, ThreadStep
  <1>8. ASSUME NEW w \in Workers, Insert(w) \/ MarkSent(w) \/ MarkFailed(w)
        PROVE  QuietInv'
    <2> DEFINE Loop == {"user", "channel", "insert", "send", "sent", "failed"}
    <2>1. /\ step[w] \in Loop /\ step'[w] \in Loop
          /\ UNCHANGED <<prefs, muted, steady, passes, todo, user>>
          /\ \A v \in Workers \ {w} : step'[v] = step[v]
      BY <1>8 DEF Insert, MarkSent, MarkFailed, Record, Goto, settings, history, TypeOK
    <2>2. \A k \in Keys : note'[k] = note[k] \/ k = Key(w)
      BY <1>8 DEF Insert, MarkSent, MarkFailed, Record, TypeOK
    <2>3. \A k \in Keys : note'[k] = note[k] \/ k[1] = user[w]
      BY <2>2 DEF Key
    <2>4. ThreadQuiet(w)'
      BY <2>1 DEF QuietInv, ThreadQuiet, Spared
    <2>5. QED
      BY <2>1, <2>3, <2>4, Busy, ThreadStep
  <1>9. CASE Crash
    <2>1. /\ UNCHANGED <<prefs, muted, steady, passes, note>>
          /\ queue' = <<>>
          /\ \A w \in Workers : step'[w] = "idle" /\ todo'[w] = {} /\ user'[w] = NoUser
      BY <1>9 DEF Crash, settings, ledger
    <2>2. \A w \in Workers : ThreadQuiet(w)'
      BY <1>0, <2>1 DEF ThreadQuiet, Spared
    <2>3. QED
      BY <2>1, <2>2 DEF QuietInv, QuietReaderHearsNothing, NothingYet
  <1>10. QED
    BY <1>1, <1>2, <1>3, <1>4, <1>5, <1>6, <1>7, <1>8, <1>9 DEF Next, Run, Fail

\* "off means off": a reader who had alerts off, or the company muted, before
\* the event was news and left it so gets nothing, whatever is in the pool.
THEOREM QuietHeld == Spec => []QuietReaderHearsNothing
  <1>1. Spec => []QuietInv
    BY QuietStep, QuietInit, TypeCorrect, PTL DEF Spec
  <1>2. QuietInv => QuietReaderHearsNothing
    BY DEF QuietInv
  <1>3. QED
    BY <1>1, <1>2, PTL
=============================================================================
