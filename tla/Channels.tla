------------------------------ MODULE Channels ------------------------------
(***************************************************************************)
(* Where alerts go: the browsers registered for Web Push and the settings  *)
(* of the other channels (routes/alerts.py), and what a channel's send     *)
(* makes of them for one notification (services/alerts/channels).  Pool    *)
(* threads send while readers change what the sends have read.             *)
(*                                                                         *)
(* A request here looks one row up and writes it; of two that race for it, *)
(* the later answers 500 and changes nothing, so a request is one step.    *)
(* Telegram's link is Library's; what a message says is left out.          *)
(***************************************************************************)
EXTENDS Naturals, FiniteSets

CONSTANTS
  Readers, Browsers,
  Senders,      \* threads of the dispatcher's pool
  Names,        \* all_channel_names, those modelled
  Served,       \* channels the server has the credentials of
  Data,         \* what settings hold: a "phone", a "discord hook", a "url" ...
  Begun,        \* [Names -> Data or NoData]: the settings all readers begin with
  NoOwner,
  MaxEdits, MaxSends, MaxSendFaults   \* bounds

VARIABLES
  sub,          \* [Browsers -> its push_subscription row]
  config,       \* [Readers -> [Names -> the channel_config row's data or NoData]]
  gone,         \* browsers whose push service answers 404 or 410
  send,         \* [Senders -> the send it runs, or ran last]
  edits, sent, sendFaults   \* what the bounds count

channelVars == <<sub, config, gone, send, edits, sent, sendFaults>>

NoData == "none"

\* A push_subscription row; id tells it from the row of an earlier registration.
Subscription(owner, id) == [owner |-> owner, id |-> id]

Waiting == [pc |-> "waiting", left |-> {}, hand |-> <<>>, expired |-> FALSE,
            read |-> {}, reached |-> {}, refused |-> {}, cut |-> FALSE]

Edit == edits < MaxEdits /\ edits' = edits + 1 /\ UNCHANGED <<gone, send, sent, sendFaults>>

-----------------------------------------------------------------------------
(* The reader's requests.                                                  *)

\* create_push_subscription: a browser known already changes hands.
Subscribe(u, b) ==
  /\ Edit
  /\ sub' = [sub EXCEPT ![b] =
       Subscription(u, IF @.owner = NoOwner THEN @.id + 1 ELSE @.id)]
  /\ UNCHANGED config

Unsubscribe(u, b) ==
  /\ Edit
  /\ sub[b].owner = u
  /\ sub' = [sub EXCEPT ![b].owner = NoOwner]
  /\ UNCHANGED config

\* _validate_channel_config, and the refusal to set Telegram up by hand.
Accepts(ch, data) ==
  /\ ch # "telegram"
  /\ ch \in {"sms", "whatsapp"} => data = "phone"
  /\ ch = "discord" => data = "discord hook"
  /\ ch = "slack" => data = "slack hook"
  /\ ch = "webhook" => data = "url"

ASSUME BegunAssumption ==
  /\ Begun \in [Names -> Data \cup {NoData}]
  /\ \A ch \in Names : Begun[ch] # NoData => Accepts(ch, Begun[ch])

\* The new settings take the place of the old ones.
UpdateChannelConfig(u, ch, data) ==
  /\ Edit
  /\ Accepts(ch, data)
  /\ config' = [config EXCEPT ![u][ch] = data]
  /\ UNCHANGED sub

DeleteChannelConfig(u, ch) ==
  /\ Edit
  /\ config[u][ch] # NoData
  /\ config' = [config EXCEPT ![u][ch] = NoData]
  /\ UNCHANGED sub

\* A browser drops its registration; it comes back, if ever, under a new endpoint.
Drop(b) ==
  /\ b \notin gone
  /\ gone' = gone \cup {b}
  /\ UNCHANGED <<sub, config, send, edits, sent, sendFaults>>

-----------------------------------------------------------------------------
(* A send: what it reads, then one target after another.                   *)

Becomes(t, s) == send' = [send EXCEPT ![t] = s]
During == UNCHANGED <<config, gone, edits, sent>>

\* What the channel's settings must hold to be written to; without it the channel
\* logs and returns, and the notification counts as sent.
Usable(ch) ==
  CASE ch \in {"sms", "whatsapp"} -> {"phone"}
    [] ch \in {"discord", "slack"} -> {"discord hook", "slack hook"}
    [] ch = "webhook" -> {"url"}
    [] OTHER -> Data \cup {NoData}

Registered(u) == {<<b, sub[b].id>> : b \in {c \in Browsers : sub[c].owner = u}}

StartSend(t, u, ch) ==
  /\ send[t].pc \in {"waiting", "sent", "failed"} /\ sent < MaxSends
  /\ sent' = sent + 1
  /\ LET rows == IF ch \notin Served THEN {}
                 ELSE IF ch = "push" THEN Registered(u)
                 ELSE IF config[u][ch] \in Usable(ch) THEN {<<ch, 0>>} ELSE {}
         setUp == IF ch \in Served /\ ch \notin {"push", "email"} /\ config[u][ch] # NoData
                  THEN {ch} ELSE {r[1] : r \in rows}
     IN Becomes(t, [Waiting EXCEPT !.pc = IF rows = {} THEN "sent" ELSE "next",
                                   !.left = rows, !.read = setUp])
  /\ UNCHANGED <<sub, config, gone, edits, sendFaults>>

\* The row the session let go of at its last commit is read again, if it is there.
Vanished(s, r) == s.expired /\ (sub[r[1]].owner = NoOwner \/ sub[r[1]].id # r[2])

Post(t, r) ==
  LET s == send[t]
      on == [s EXCEPT !.left = @ \ {r}]
  IN /\ s.pc = "next" /\ r \in s.left
     /\ ~Vanished(s, r)
     /\ IF r[1] \in gone
        THEN Becomes(t, [on EXCEPT !.pc = "prune", !.hand = r]) /\ UNCHANGED sendFaults
        ELSE \/ Becomes(t, [on EXCEPT !.reached = @ \cup {r[1]}]) /\ UNCHANGED sendFaults
             \/ /\ sendFaults < MaxSendFaults /\ sendFaults' = sendFaults + 1
                /\ Becomes(t, [on EXCEPT !.refused = @ \cup {r[1]}])
     /\ UNCHANGED sub /\ During

\* No answer, or one that comes too late, when what was sent may have arrived: of
\* what sending raises, the push channel catches a WebPushException alone, and the
\* targets that are left are not tried.
NoAnswer(t, r) ==
  LET s == send[t] IN
  /\ s.pc = "next" /\ r \in s.left
  /\ ~Vanished(s, r)
  /\ sendFaults < MaxSendFaults /\ sendFaults' = sendFaults + 1
  /\ \E got \in SUBSET ({r[1]} \ gone) :
       Becomes(t, [s EXCEPT !.pc = "failed", !.left = {}, !.reached = @ \cup got, !.cut = TRUE])
  /\ UNCHANGED sub /\ During

\* Mutant: a pruned row leaves the list that is being walked, and the next is skipped.
PruneMutant(t) ==
  LET s == send[t]
      skipped == IF s.left = {} THEN {} ELSE {CHOOSE r \in s.left : TRUE}
  IN /\ s.pc = "prune"
     /\ sub' = [sub EXCEPT ![s.hand[1]].owner = IF sub[s.hand[1]].id = s.hand[2] THEN NoOwner ELSE @]
     /\ Becomes(t, [s EXCEPT !.pc = "next", !.hand = <<>>, !.expired = TRUE, !.left = @ \ skipped])
     /\ UNCHANGED sendFaults /\ During

\* The dead row is deleted by its key; the commit expires every row read before.
Prune(t) ==
  LET s == send[t] IN
  /\ s.pc = "prune"
  /\ sub' = [sub EXCEPT ![s.hand[1]].owner = IF sub[s.hand[1]].id = s.hand[2] THEN NoOwner ELSE @]
  /\ Becomes(t, [s EXCEPT !.pc = "next", !.hand = <<>>, !.expired = TRUE])
  /\ UNCHANGED sendFaults /\ During

\* Other exceptions the loop does not catch: a row that has vanished, a failed commit.
CutShort(t) ==
  LET s == send[t] IN
  /\ \/ /\ s.pc = "next" /\ \E r \in s.left : Vanished(s, r)
        /\ UNCHANGED sendFaults
     \/ /\ s.pc = "prune"
        /\ sendFaults < MaxSendFaults /\ sendFaults' = sendFaults + 1
  /\ Becomes(t, [s EXCEPT !.pc = "failed", !.left = {}, !.hand = <<>>, !.cut = TRUE])
  /\ UNCHANGED sub /\ During

\* Failed only if every target refused.
FinishSend(t) ==
  LET s == send[t] IN
  /\ s.pc = "next" /\ s.left = {}
  /\ Becomes(t, [s EXCEPT !.pc = IF s.refused = s.read THEN "failed" ELSE "sent"])
  /\ UNCHANGED <<sub, sendFaults>> /\ During

-----------------------------------------------------------------------------
ChannelsInit ==
  /\ sub \in [Browsers -> {Subscription(u, 1) : u \in Readers \cup {NoOwner}}]
  /\ config = [u \in Readers |-> Begun]
  /\ gone = {}
  /\ send = [t \in Senders |-> Waiting]
  /\ edits = 0 /\ sent = 0 /\ sendFaults = 0

ChannelsNext ==
  \/ \E u \in Readers, b \in Browsers : Subscribe(u, b) \/ Unsubscribe(u, b)
  \/ \E u \in Readers, ch \in Names :
       \/ \E data \in Data : UpdateChannelConfig(u, ch, data)
       \/ DeleteChannelConfig(u, ch)
       \/ \E t \in Senders : StartSend(t, u, ch)
  \/ \E b \in Browsers : Drop(b)
  \/ \E t \in Senders :
       \/ \E r \in send[t].left : Post(t, r) \/ NoAnswer(t, r)
       \/ Prune(t)
       \/ CutShort(t)
       \/ FinishSend(t)

ChannelsSpec == ChannelsInit /\ [][ChannelsNext]_channelVars

-----------------------------------------------------------------------------
\* A notification that counts as sent went to every browser or channel its reader
\* had set up when the send began, but for those that refused it, not all of them,
\* and browsers that are gone.  One that counts as failed, and is not sent again,
\* reached nobody, unless an exception other than a refusal cut it short: then it may
\* have reached any of them.
SentMeansReached ==
  \A t \in Senders :
    LET s == send[t] IN
    /\ s.pc = "sent" => /\ s.read \subseteq s.reached \cup s.refused \cup gone
                        /\ s.read # {} => s.refused # s.read
    /\ s.pc = "failed" => s.reached = {} \/ s.cut
    /\ s.cut => s.pc = "failed"
=============================================================================
