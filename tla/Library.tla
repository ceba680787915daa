------------------------------ MODULE Library -------------------------------
(***************************************************************************)
(* What a reader keeps: watchlists, the read and mute marks of the inbox,  *)
(* saved feed views, and the Telegram chat alerts go to.  The requests     *)
(* share the server, the clock and the accounts of Accounts: a request     *)
(* reads when it begins and writes when it commits.  A request that writes *)
(* nothing it computed from an earlier read is one step.                   *)
(*                                                                         *)
(* A mark is a time: the events of a company stored after it are unread.   *)
(* Names, positions, descriptions, previews and the order of the inbox are *)
(* left out; of a view's filters it matters here whether there are any.    *)
(***************************************************************************)
EXTENDS Accounts

CONSTANTS
  Companies,
  Chats,        \* Telegram chats
  MaxViews,     \* MAX_VIEWS_PER_USER
  CodeLife,     \* how long a Telegram link code is good for
  MaxLists      \* bound: watchlist rows ever inserted

VARIABLES
  list,      \* the watchlist rows in the order they were created
  state,     \* [Users -> [Companies -> the company_read_state row or NoState]]
  view,      \* the feed_view rows in the order they were inserted
  telegram,  \* [Users -> the Telegram channel_config row or NoConfig]
  code,      \* the Telegram link codes handed out
  story,     \* [Companies -> the times its events were stored]
  first      \* history: when the user first added the company, or Never

libraryVars == <<list, state, view, telegram, code, story, first>>

\* The rows.
StateRow(mark, muted) == [mark |-> mark, muted |-> muted]
ListRow(u, companies) == [owner |-> u, companies |-> companies]
ViewRow(u, filters, alerts) == [owner |-> u, filters |-> filters, alerts |-> alerts]
ConfigRow(kind, value, expires) == [kind |-> kind, value |-> value, expires |-> expires]

NoState  == StateRow(-2, FALSE)
Unopened == -1
Never    == -1
NoConfig == ConfigRow("none", 0, 0)
Filters  == {"all", "narrow"}

OwnLists(u) == {l \in DOMAIN list : list[l].owner = u}

\* _user_company_ids
Followed(u) == UNION {list[l].companies : l \in OwnLists(u)}

Unread(u, c) == {e \in story[c] : e > state[u][c].mark}

\* Mutant: a company that is added starts out never opened.
EnsureMutant(u, S, at) ==
  [state EXCEPT ![u] = [c \in Companies |->
     IF c \in S /\ @[c] = NoState THEN StateRow(Unopened, FALSE) ELSE @[c]]]

\* Mutant: a company that is added again starts over.
EnsureAgainMutant(u, S, at) ==
  [state EXCEPT ![u] = [c \in Companies |->
     IF c \in S THEN StateRow(at, FALSE) ELSE @[c]]]

\* CompanyReadState.ensure and upsert, for the companies of one request.  A row
\* another request inserted first is found again: the savepoint sees to that.
Ensure(u, S, at) ==
  [state EXCEPT ![u] = [c \in Companies |->
     IF c \in S /\ @[c] = NoState THEN StateRow(at, FALSE) ELSE @[c]]]

UpsertMark(u, S, at) ==
  [state EXCEPT ![u] = [c \in Companies |->
     IF c \notin S THEN @[c]
     ELSE StateRow(at, @[c] # NoState /\ @[c].muted)]]

UpsertMuted(u, S, muted) ==
  [state EXCEPT ![u] = [c \in Companies |->
     IF c \notin S THEN @[c]
     ELSE StateRow(IF @[c] = NoState THEN Unopened ELSE @[c].mark, muted)]]

\* _clean_alerts: only the empty filter may not carry alerts.
CleanAlerts(alerts, filters) == ~(alerts /\ filters = "all")

\* A request of one step.
Serve ==
  /\ requests < MaxRequests
  /\ requests' = requests + 1
  /\ UNCHANGED <<req, now, faults>>
  /\ UNCHANGED accountVars

Member(u) == u \in signedIn /\ Exists(u)

-----------------------------------------------------------------------------
(* Watchlists.                                                             *)

CreateList(u) ==
  /\ Member(u) /\ Len(list) < MaxLists
  /\ list' = Append(list, ListRow(u, {}))
  /\ Serve
  /\ UNCHANGED <<state, view, telegram, code, story, first>>

DeleteList(u, l) ==
  /\ Member(u) /\ l \in OwnLists(u)
  /\ list' = [list EXCEPT ![l] = ListRow(NoUser, {})]
  /\ Serve
  /\ UNCHANGED <<state, view, telegram, code, story, first>>

\* add_company names the list; track_company takes the user's first one, 0 when
\* there is none yet.  Adding what the list already holds changes nothing.
AddCompany(t, u, l, c) ==
  /\ Member(u) /\ l \in OwnLists(u) /\ c \notin list[l].companies
  /\ Begin(t, [op |-> "add", user |-> u, list |-> l, company |-> c, at |-> now])
  /\ UNCHANGED <<accountVars, libraryVars>>

TrackCompany(t, u, c) ==
  LET l == IF OwnLists(u) = {} THEN 0
           ELSE CHOOSE k \in OwnLists(u) : \A m \in OwnLists(u) : k <= m
  IN  /\ Member(u)
      /\ l # 0 => c \notin list[l].companies
      /\ Begin(t, [op |-> "add", user |-> u, list |-> l, company |-> c, at |-> now])
      /\ UNCHANGED <<accountVars, libraryVars>>

AddCommit(t) ==
  LET r == req[t] IN
  /\ r.op = "add" /\ Exists(r.user)
  /\ IF r.list = 0
     THEN /\ Len(list) < MaxLists
          /\ list' = Append(list, ListRow(r.user, {r.company}))
     ELSE /\ list[r.list].owner = r.user /\ r.company \notin list[r.list].companies
          /\ list' = [list EXCEPT ![r.list].companies = @ \cup {r.company}]
  /\ state' = Ensure(r.user, {r.company}, r.at)
  /\ first' = [first EXCEPT ![r.user][r.company] = IF @ = Never THEN r.at ELSE @]
  /\ Answer(t)
  /\ UNCHANGED <<accountVars, view, telegram, code, story>>

RemoveCompany(u, l, c) ==
  /\ Member(u) /\ l \in OwnLists(u) /\ c \in list[l].companies
  /\ list' = [list EXCEPT ![l].companies = @ \ {c}]
  /\ Serve
  /\ UNCHANGED <<state, view, telegram, code, story, first>>

-----------------------------------------------------------------------------
(* The inbox: single and bulk requests act on what the caller follows.     *)

MarkRead(t, u, S) ==
  /\ Member(u) /\ S \cap Followed(u) # {}
  /\ Begin(t, [op |-> "read", user |-> u, companies |-> S \cap Followed(u), at |-> now,
               floor |-> [c \in Companies |-> state[u][c].mark]])
  /\ UNCHANGED <<accountVars, libraryVars>>

MarkReadCommit(t) ==
  LET r == req[t] IN
  /\ r.op = "read" /\ Exists(r.user)
  /\ state' = UpsertMark(r.user, r.companies, r.at)
  /\ Answer(t)
  /\ UNCHANGED <<accountVars, list, view, telegram, code, story, first>>

SetMute(t, u, S, muted) ==
  /\ Member(u) /\ S \cap Followed(u) # {}
  /\ Begin(t, [op |-> "mute", user |-> u, companies |-> S \cap Followed(u), muted |-> muted])
  /\ UNCHANGED <<accountVars, libraryVars>>

SetMuteCommit(t) ==
  LET r == req[t] IN
  /\ r.op = "mute" /\ Exists(r.user)
  /\ state' = UpsertMuted(r.user, r.companies, r.muted)
  /\ Answer(t)
  /\ UNCHANGED <<accountVars, list, view, telegram, code, story, first>>

RemoveCompanies(t, u, S) ==
  /\ Member(u) /\ S \cap Followed(u) # {}
  /\ Begin(t, [op |-> "remove", user |-> u,
               rows |-> {p \in OwnLists(u) \X S : p[2] \in list[p[1]].companies}])
  /\ UNCHANGED <<accountVars, libraryVars>>

RemoveCommit(t) ==
  LET r == req[t] IN
  /\ r.op = "remove" /\ Exists(r.user)
  /\ \A p \in r.rows : p[2] \in list[p[1]].companies
  /\ list' = [l \in DOMAIN list |->
       [list[l] EXCEPT !.companies = {c \in @ : <<l, c>> \notin r.rows}]]
  /\ Answer(t)
  /\ UNCHANGED <<accountVars, state, view, telegram, code, story, first>>

-----------------------------------------------------------------------------
(* Saved views.                                                            *)

OwnViews(u) == {v \in DOMAIN view : view[v].owner = u}

CreateView(t, u, filters, alerts) ==
  /\ Member(u) /\ CleanAlerts(alerts, filters)
  /\ Cardinality(OwnViews(u)) < MaxViews
  /\ Begin(t, [op |-> "view", user |-> u, filters |-> filters, alerts |-> alerts])
  /\ UNCHANGED <<accountVars, libraryVars>>

CreateViewCommit(t) ==
  LET r == req[t] IN
  /\ r.op = "view" /\ Exists(r.user)
  /\ view' = Append(view, ViewRow(r.user, r.filters, r.alerts))
  /\ Answer(t)
  /\ UNCHANGED <<accountVars, list, state, telegram, code, story, first>>

\* A body without "filters" or "alerts" leaves them as they were read; the
\* update names only the columns the request changed.
UpdateView(t, u, v, filters, alerts) ==
  /\ Member(u) /\ v \in OwnViews(u) /\ CleanAlerts(alerts, filters)
  /\ Begin(t, [op |-> "edit", user |-> u, view |-> v, filters |-> filters, alerts |-> alerts,
               old |-> view[v]])
  /\ UNCHANGED <<accountVars, libraryVars>>

UpdateViewCommit(t) ==
  LET r == req[t] IN
  /\ r.op = "edit" /\ Exists(r.user) /\ view[r.view].owner = r.user
  /\ view' = [view EXCEPT ![r.view] =
       [@ EXCEPT !.filters = IF r.filters # r.old.filters THEN r.filters ELSE @,
                 !.alerts  = IF r.alerts # r.old.alerts THEN r.alerts ELSE @]]
  /\ Answer(t)
  /\ UNCHANGED <<accountVars, list, state, telegram, code, story, first>>

DeleteView(u, v) ==
  /\ Member(u) /\ v \in OwnViews(u)
  /\ view' = [view EXCEPT ![v] = ViewRow(NoUser, "all", FALSE)]
  /\ Serve
  /\ UNCHANGED <<list, state, telegram, code, story, first>>

-----------------------------------------------------------------------------
(* Telegram.                                                               *)

\* A new code takes the place of a chat that was linked.
LinkTelegram(u) ==
  /\ Member(u)
  /\ code' = Append(code, [user |-> u, expires |-> now + CodeLife])
  /\ telegram' = [telegram EXCEPT ![u] =
       ConfigRow("pending", Len(code) + 1, now + CodeLife)]
  /\ Serve
  /\ UNCHANGED <<list, state, view, story, first>>

\* The row whose pending code this is, and whose code has not expired.
Matched(k) ==
  {u \in Users : /\ telegram[u].kind = "pending"
                 /\ telegram[u].value = k
                 /\ now <= telegram[u].expires}

\* The bot's webhook: it carries no account, the code finds the row.
SendCode(t, chat, k) ==
  \E u \in Matched(k) :
    /\ Begin(t, [op |-> "webhook", user |-> u, chat |-> chat])
    /\ UNCHANGED <<accountVars, libraryVars>>

WebhookCommit(t) ==
  LET r == req[t] IN
  /\ r.op = "webhook" /\ telegram[r.user] # NoConfig
  /\ telegram' = [telegram EXCEPT ![r.user] = ConfigRow("linked", r.chat, 0)]
  /\ Answer(t)
  /\ UNCHANGED <<accountVars, list, state, view, code, story, first>>

UnlinkTelegram(u) ==
  /\ Member(u) /\ telegram[u] # NoConfig
  /\ telegram' = [telegram EXCEPT ![u] = NoConfig]
  /\ Serve
  /\ UNCHANGED <<list, state, view, code, story, first>>

-----------------------------------------------------------------------------
\* A row the request needs is gone, or the one it inserts is there already: 500.
LibraryClash(t) ==
  LET r == req[t] IN
  /\ \/ /\ r.op \in {"add", "read", "mute", "remove", "view", "edit"}
        /\ ~Exists(r.user)
     \/ /\ r.op = "add" /\ r.list # 0
        /\ list[r.list].owner # r.user \/ r.company \in list[r.list].companies
     \/ r.op = "remove" /\ \E p \in r.rows : p[2] \notin list[p[1]].companies
     \/ r.op = "edit" /\ view[r.view].owner # r.user
     \/ r.op = "webhook" /\ telegram[r.user] = NoConfig
  /\ Answer(t)
  /\ UNCHANGED <<accountVars, libraryVars>>

\* The subscriber stores an event of the company, later than anything before it.
StoreStory(c) ==
  /\ now < MaxNow
  /\ now' = now + 1
  /\ story' = [story EXCEPT ![c] = @ \cup {now'}]
  /\ UNCHANGED <<req, requests, faults, list, state, view, telegram, code, first>>
  /\ UNCHANGED accountVars

\* What the deletion of an account takes along.
Cascade(u) ==
  /\ list' = [l \in DOMAIN list |->
       IF list[l].owner = u THEN ListRow(NoUser, {}) ELSE list[l]]
  /\ state' = [state EXCEPT ![u] = [c \in Companies |-> NoState]]
  /\ view' = [v \in DOMAIN view |->
       IF view[v].owner = u THEN ViewRow(NoUser, "all", FALSE)
       ELSE view[v]]
  /\ telegram' = [telegram EXCEPT ![u] = NoConfig]
  /\ UNCHANGED <<code, story, first>>

LibraryInit ==
  /\ list = <<>> /\ view = <<>> /\ code = <<>>
  /\ state = [u \in Users |-> [c \in Companies |-> NoState]]
  /\ telegram = [u \in Users |-> NoConfig]
  /\ story = [c \in Companies |-> {}]
  /\ first = [u \in Users |-> [c \in Companies |-> Never]]

LibraryStep(t) ==
  \/ \E u \in Users, c \in Companies :
       TrackCompany(t, u, c) \/ \E l \in DOMAIN list : AddCompany(t, u, l, c)
  \/ \E u \in Users, S \in SUBSET Companies :
       \/ MarkRead(t, u, S)
       \/ RemoveCompanies(t, u, S)
       \/ \E muted \in BOOLEAN : SetMute(t, u, S, muted)
  \/ \E u \in Users, filters \in Filters, alerts \in BOOLEAN :
       \/ CreateView(t, u, filters, alerts)
       \/ \E v \in DOMAIN view : UpdateView(t, u, v, filters, alerts)
  \/ \E chat \in Chats, k \in DOMAIN code : SendCode(t, chat, k)
  \/ AddCommit(t)
  \/ MarkReadCommit(t)
  \/ SetMuteCommit(t)
  \/ RemoveCommit(t)
  \/ CreateViewCommit(t)
  \/ UpdateViewCommit(t)
  \/ WebhookCommit(t)
  \/ LibraryClash(t)

LibraryNext ==
  \/ \E t \in Threads : LibraryStep(t)
  \/ \E u \in Users :
       \/ CreateList(u) \/ LinkTelegram(u) \/ UnlinkTelegram(u)
       \/ \E l \in DOMAIN list :
            DeleteList(u, l) \/ \E c \in Companies : RemoveCompany(u, l, c)
       \/ \E v \in DOMAIN view : DeleteView(u, v)
  \/ \E c \in Companies : StoreStory(c)

\* The API: both modules' requests over one server, one clock and one database.
vars == <<accountVars, serverVars, libraryVars>>

Init == AccountsInit /\ LibraryInit

Next ==
  \/ \E t \in Threads : AccountsStep(t) /\ UNCHANGED libraryVars
  \/ \E u \in Users : \/ Login(u) /\ UNCHANGED libraryVars
                      \/ DeleteAccount(u) /\ Cascade(u)
  \/ Tick /\ UNCHANGED libraryVars
  \/ LibraryNext

Spec == Init /\ [][Next]_vars

-----------------------------------------------------------------------------
\* A company the reader follows has a read state, and shows as unread only
\* events stored after the reader first added it, however it was added,
\* removed, muted, read or added again since, and whichever requests raced.
NoBacklog ==
  \A u \in Users : \A c \in Followed(u) :
    /\ state[u][c] # NoState
    /\ \A e \in Unread(u, c) : e > first[u][c]

\* Only reading moves the mark of a company: no other request makes read events
\* unread again or hides unread ones.  A mark goes back only when two readings
\* of the company overlap, and never to before the slower of them began.
MarkMovesOnlyWhenRead ==
  [][\A u \in Users, c \in Companies :
       state[u][c] # NoState /\ state'[u][c] # NoState /\ state'[u][c].mark # state[u][c].mark
       => \E t \in Threads : /\ req[t].op = "read" /\ req[t].user = u
                             /\ c \in req[t].companies /\ req'[t] = Idle
                             /\ state'[u][c].mark >= req[t].floor[c]]_vars
=============================================================================
