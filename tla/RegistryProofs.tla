--------------------------- MODULE RegistryProofs ---------------------------
(***************************************************************************)
(* What TLAPS proves of the rows the API keeps of readers, their sends and *)
(* the companies listed, for any number of readers, companies and requests *)
(* in progress, whatever requests overlap, fail or are cut short.          *)
(***************************************************************************)
EXTENDS Registry, SequenceTheorems, TLAPS

\* Whatever the registry does, it is a step of the API or leaves its rows alone.
LEMMA RegistryIsApi ==
  /\ RegistryInit => Init
  /\ [RegistryNext]_<<vars, directoryVars, channelVars>> => [Next]_vars
<1>1. RegistryInit => Init
  BY DEF RegistryInit
<1>2. [RegistryNext]_<<vars, directoryVars, channelVars>> => [Next]_vars
  BY DEF RegistryNext
<1> QED
  BY <1>1, <1>2

(***************************************************************************)
(* Accounts.                                                               *)
(***************************************************************************)

RowFields == {"email", "password", "verified", "google", "apple"}

AccountsOK ==
  /\ DOMAIN account = Users
  /\ \A u \in Users : account[u] = NoRow \/ DOMAIN account[u] = RowFields

\* The step that deletes an account and all it owns.
Leaves == \E u \in Users : DeleteAccount(u) /\ Cascade(u)

\* What any other step may do to an account: change a row that is there, or insert
\* one, and sign in, under a key that no one ever had.
AccountMoves(u) ==
  \/ account'[u] = account[u]
  \/ Exists(u) /\ DOMAIN account'[u] = RowFields
  \/ /\ ~Exists(u) /\ u \notin signedIn
     /\ DOMAIN account'[u] = RowFields /\ u \in signedIn'

AccountsMove ==
  /\ DOMAIN account' = Users
  /\ \A u \in Users : AccountMoves(u)
  /\ signedIn \subseteq signedIn'

LEMMA RowIsThere ==
  ASSUME NEW row, DOMAIN row = RowFields
  PROVE  row # NoRow
BY DEF RowFields, NoRow

LEMMA NewAccountRow ==
  ASSUME NEW e, NEW password, NEW verified, NEW google, NEW apple
  PROVE  DOMAIN NewAccount(e, password, verified, google, apple) = RowFields
BY DEF NewAccount, RowFields

\* The steps that change an account, or of which it is known who it is.
AccountStep(t) ==
  \/ RegisterCommit(t) \/ SocialCommit(t) \/ VerifyMagicLink(t) \/ VerifyEmail(t)
  \/ ResetPassword(t) \/ UpdateUserCommit(t)

LEMMA LibraryFrame == LibraryNext => UNCHANGED accountVars
<1> SUFFICES ASSUME LibraryNext PROVE UNCHANGED accountVars
  OBVIOUS
<1>1. ASSUME NEW t \in Threads, LibraryStep(t) PROVE UNCHANGED accountVars
  BY <1>1
  DEF LibraryStep, AddCompany, TrackCompany, AddCommit, MarkRead, MarkReadCommit, SetMute,
      SetMuteCommit, RemoveCompanies, RemoveCommit, CreateView, CreateViewCommit, UpdateView,
      UpdateViewCommit, SendCode, WebhookCommit, LibraryClash
<1>2. ASSUME NEW u \in Users,
             \/ CreateList(u) \/ LinkTelegram(u) \/ UnlinkTelegram(u)
             \/ \E l \in DOMAIN list : DeleteList(u, l) \/ \E c \in Companies : RemoveCompany(u, l, c)
             \/ \E v \in DOMAIN view : DeleteView(u, v)
      PROVE  UNCHANGED accountVars
  BY <1>2
  DEF CreateList, LinkTelegram, UnlinkTelegram, DeleteList, RemoveCompany, DeleteView, Serve
<1>3. ASSUME NEW c \in Companies, StoreStory(c) PROVE UNCHANGED accountVars
  BY <1>3 DEF StoreStory
<1> QED
  BY <1>1, <1>2, <1>3 DEF LibraryNext

LEMMA AccountFrame ==
  ASSUME [Next]_vars
  PROVE  \/ UNCHANGED <<account, trusted>> /\ signedIn \subseteq signedIn'
         \/ \E t \in Threads : AccountStep(t)
         \/ Leaves
<1>1. CASE UNCHANGED vars
  BY <1>1 DEF vars, accountVars
<1>2. CASE LibraryNext
  BY <1>2, LibraryFrame DEF accountVars
<1>3. ASSUME NEW t \in Threads, AccountsStep(t)
      PROVE  \/ UNCHANGED <<account, trusted>> /\ signedIn \subseteq signedIn'
             \/ AccountStep(t)
  BY <1>3
  DEF AccountsStep, AccountStep, Register, SocialLogin, RequestLink, IssueLink,
      ResendVerification, ResendCommit, IssueVerification, FollowLink, ChangePassword,
      ChangePasswordCommit, UpdateUser, Rollback, Clash, accountVars
<1>4. CASE Tick
  BY <1>4 DEF Tick, accountVars
<1>5. ASSUME NEW u \in Users, Login(u)
      PROVE  UNCHANGED <<account, trusted>> /\ signedIn \subseteq signedIn'
  BY <1>5 DEF Login, SignIn
<1> QED
  BY <1>1, <1>2, <1>3, <1>4, <1>5 DEF Next, Leaves

\* One row at a time: what holds of the row that is written holds of all.
LEMMA OneRow ==
  ASSUME AccountsOK, NEW u, NEW n, account' = [account EXCEPT ![u] = n],
         signedIn \subseteq signedIn',
         u \in Users /\ account'[u] = n => AccountMoves(u)
  PROVE  AccountsMove
<1>1. DOMAIN account' = Users
  BY DEF AccountsOK
<1>2. ASSUME NEW v \in Users PROVE AccountMoves(v)
  <2>1. CASE v = u
    BY <2>1 DEF AccountsOK
  <2>2. CASE v # u
    BY <2>2 DEF AccountsOK, AccountMoves
  <2> QED
    BY <2>1, <2>2
<1> QED
  BY <1>1, <1>2 DEF AccountsMove

LEMMA FreshFacts ==
  ASSUME HasFreshUser
  PROVE  FreshUser \in Users /\ ~Exists(FreshUser) /\ FreshUser \notin signedIn
BY DEF HasFreshUser, FreshUser

LEMMA AccountStepMoves ==
  ASSUME AccountsOK, NEW t \in Threads, AccountStep(t)
  PROVE  AccountsMove
<1>1. CASE RegisterCommit(t)
  <2> DEFINE u == FreshUser
             n == NewAccount(req[t].email, TRUE, FALSE, NoSubject, NoSubject)
  <2>1. /\ account' = [account EXCEPT ![u] = n] /\ HasFreshUser
        /\ signedIn' = signedIn \cup {u}
    BY <1>1 DEF RegisterCommit, SignIn
  <2>2. DOMAIN n = RowFields
    BY DEF NewAccount, RowFields
  <2> HIDE DEF u, n
  <2>3. u \in Users /\ ~Exists(u) /\ u \notin signedIn
    BY <2>1, FreshFacts DEF u
  <2>4. u \in Users /\ account'[u] = n => AccountMoves(u)
    BY <2>1, <2>2, <2>3 DEF AccountMoves
  <2> QED
    BY <2>1, <2>4, OneRow
<1>2. CASE SocialCommit(t)
  <2> DEFINE r == req[t]
             u == IF r.new THEN FreshUser ELSE r.user
             row == IF r.new
                    THEN NewAccount(SubjectEmail[r.subject], FALSE, TRUE, NoSubject, NoSubject)
                    ELSE [account[u] EXCEPT !.verified = TRUE]
             n == IF r.new \/ r.link THEN [row EXCEPT ![r.field] = r.subject] ELSE row
  <2>1. /\ account' = [account EXCEPT ![u] = n]
        /\ IF r.new THEN HasFreshUser ELSE Exists(u)
        /\ signedIn' = signedIn \cup {u}
    BY <1>2 DEF SocialCommit, SignIn
  <2>2. CASE r.new
    <3>1. DOMAIN row = RowFields
      BY <2>2, NewAccountRow
    <3> HIDE DEF row
    <3>2. DOMAIN n = RowFields
      BY <3>1
    <3> HIDE DEF n
    <3>3. u \in Users /\ ~Exists(u) /\ u \notin signedIn
      BY <2>1, <2>2, FreshFacts
    <3> HIDE DEF u
    <3>4. u \in Users /\ account'[u] = n => AccountMoves(u)
      BY <2>1, <3>2, <3>3 DEF AccountMoves
    <3> QED
      BY <2>1, <3>4, OneRow
  <2>3. CASE ~r.new
    <3>1. Exists(u)
      BY <2>1, <2>3
    <3>2. u \in Users => DOMAIN row = RowFields
      BY <2>3, <3>1 DEF AccountsOK, Exists
    <3> HIDE DEF row
    <3>3. u \in Users => DOMAIN n = RowFields
      BY <3>2
    <3> HIDE DEF u, n
    <3>4. u \in Users /\ account'[u] = n => AccountMoves(u)
      BY <2>1, <3>1, <3>3 DEF AccountMoves
    <3> QED
      BY <2>1, <3>4, OneRow
  <2> QED
    BY <2>2, <2>3
<1>3. CASE VerifyMagicLink(t) \/ VerifyEmail(t)
  <2> DEFINE u == req[t].user
             n == [account[u] EXCEPT !.verified = TRUE]
  <2>1. /\ account' = [account EXCEPT ![u] = n] /\ Exists(u)
        /\ signedIn \subseteq signedIn'
    BY <1>3 DEF VerifyMagicLink, VerifyEmail, SignIn
  <2>2. u \in Users => DOMAIN n = RowFields
    BY <2>1 DEF AccountsOK, Exists
  <2> HIDE DEF u, n
  <2>3. u \in Users /\ account'[u] = n => AccountMoves(u)
    BY <2>1, <2>2 DEF AccountMoves
  <2> QED
    BY <2>1, <2>3, OneRow
<1>4. CASE ResetPassword(t)
  <2> DEFINE u == req[t].user
             n == [account[u] EXCEPT !.password = TRUE]
  <2>1. account' = [account EXCEPT ![u] = n] /\ Exists(u) /\ signedIn' = signedIn
    BY <1>4 DEF ResetPassword
  <2>2. u \in Users => DOMAIN n = RowFields
    BY <2>1 DEF AccountsOK, Exists, RowFields
  <2> HIDE DEF u, n
  <2>3. u \in Users /\ account'[u] = n => AccountMoves(u)
    BY <2>1, <2>2 DEF AccountMoves
  <2> QED
    BY <2>1, <2>3, OneRow
<1>5. CASE UpdateUserCommit(t)
  <2> DEFINE u == req[t].user
             n == [account[u] EXCEPT !.email = req[t].email]
  <2>1. account' = [account EXCEPT ![u] = n] /\ Exists(u) /\ signedIn' = signedIn
    BY <1>5 DEF UpdateUserCommit
  <2>2. u \in Users => DOMAIN n = RowFields
    BY <2>1 DEF AccountsOK, Exists, RowFields
  <2> HIDE DEF u, n
  <2>3. u \in Users /\ account'[u] = n => AccountMoves(u)
    BY <2>1, <2>2 DEF AccountMoves
  <2> QED
    BY <2>1, <2>3, OneRow
<1> QED
  BY <1>1, <1>2, <1>3, <1>4, <1>5 DEF AccountStep

LEMMA AccountsMoveOn == AccountsOK /\ [Next]_vars => (AccountsMove \/ Leaves) /\ AccountsOK'
<1> SUFFICES ASSUME AccountsOK, [Next]_vars PROVE (AccountsMove \/ Leaves) /\ AccountsOK'
  OBVIOUS
<1>1. AccountsMove \/ Leaves
  <2>1. CASE account' = account /\ signedIn \subseteq signedIn'
    BY <2>1 DEF AccountsOK, AccountsMove, AccountMoves
  <2> QED
    BY <2>1, AccountFrame, AccountStepMoves
<1>2. CASE AccountsMove
  BY <1>2 DEF AccountsMove, AccountMoves, AccountsOK
<1>3. CASE Leaves
  BY <1>3 DEF Leaves, DeleteAccount, AccountsOK
<1> QED
  BY <1>1, <1>2, <1>3

LEMMA AccountsInitially == Init => AccountsOK
BY DEF Init, AccountsInit, AccountsOK

(***************************************************************************)
(* Links sent by mail.                                                     *)
(***************************************************************************)

TokenRows == [user : Users \cup {NoUser}, purpose : Purposes, expires : Int,
              used : BOOLEAN, seen : Nat]

\* A link answers, when it is stored, for the links its request had seen.
TokensOK(toks) ==
  /\ toks \in Seq(TokenRows)
  /\ \A i \in DOMAIN toks : /\ toks[i].seen < i
                            /\ toks[i].user = NoUser => toks[i].used
  /\ \A i, j \in DOMAIN toks :
       /\ j <= toks[i].seen
       /\ toks[j].user = toks[i].user /\ toks[j].purpose = toks[i].purpose
       => toks[j].used

UsedUp(S, toks) == S \subseteq DOMAIN toks /\ \A i \in S : toks[i].used

\* What a request in progress knows of the links.
AsksOK(r, toks) ==
  /\ r.op \in {"link", "resend", "issue"} => r.user \in Users
  /\ r.op \in {"link", "resend", "issue"} => r.seen \in Nat /\ r.seen <= Len(toks)
  /\ r.op = "link" => r.purpose \in Purposes
  /\ r.op = "issue" =>
       \A j \in DOMAIN toks :
         j <= r.seen /\ toks[j].user = r.user /\ toks[j].purpose = "email_verify"
         => toks[j].used
  /\ r.op = "follow" => r.link \in DOMAIN toks

LinksInv ==
  /\ AccountsOK
  /\ now \in Nat /\ DOMAIN req = Threads
  /\ TokensOK(token)
  /\ UsedUp(spent \cup dated, token)
  /\ \A i \in DOMAIN token : token[i].user \in Users => Exists(token[i].user)
  /\ \A t \in Threads : AsksOK(req[t], token)

\* What happens to the links that are there: they are used up, or lose their user.
Kept(toks, new) ==
  /\ new \in Seq(TokenRows) /\ Len(new) = Len(toks)
  /\ \A i \in DOMAIN toks :
       /\ new[i].purpose = toks[i].purpose /\ new[i].seen = toks[i].seen
       /\ toks[i].used => new[i].used
       /\ new[i].user = toks[i].user \/ (new[i].user = NoUser /\ new[i].used)

LEMMA KeptOK ==
  ASSUME NEW toks, NEW new, TokensOK(toks), Kept(toks, new)
  PROVE  /\ TokensOK(new) /\ DOMAIN new = DOMAIN toks
         /\ \A S : UsedUp(S, toks) => UsedUp(S, new)
         /\ \A r : AsksOK(r, toks) => AsksOK(r, new)
<1>1. toks \in Seq(TokenRows) /\ new \in Seq(TokenRows) /\ Len(new) = Len(toks)
  BY DEF TokensOK, Kept
<1>2. DOMAIN new = DOMAIN toks
  BY <1>1
<1>3. TokensOK(new)
  BY <1>1, <1>2 DEF TokensOK, Kept
<1>4. ASSUME NEW S, UsedUp(S, toks) PROVE UsedUp(S, new)
  BY <1>2, <1>4 DEF UsedUp, Kept
<1>5. ASSUME NEW r, AsksOK(r, toks) PROVE AsksOK(r, new)
  BY <1>1, <1>2, <1>5, AccountsAssumption DEF AsksOK, Kept
<1> QED
  BY <1>2, <1>3, <1>4, <1>5

LEMMA AppendOK ==
  ASSUME NEW toks, TokensOK(toks), NEW row \in TokenRows, row.user \in Users,
         row.seen <= Len(toks),
         \A j \in DOMAIN toks :
           j <= row.seen /\ toks[j].user = row.user /\ toks[j].purpose = row.purpose
           => toks[j].used
  PROVE  /\ TokensOK(Append(toks, row)) /\ DOMAIN toks \subseteq DOMAIN Append(toks, row)
         /\ \A i \in DOMAIN Append(toks, row) :
              Append(toks, row)[i] = IF i \in DOMAIN toks THEN toks[i] ELSE row
         /\ \A S : UsedUp(S, toks) => UsedUp(S, Append(toks, row))
         /\ \A r : AsksOK(r, toks) => AsksOK(r, Append(toks, row))
<1> DEFINE new == Append(toks, row)
           n == Len(toks)
<1>1. toks \in Seq(TokenRows) /\ n \in Nat /\ DOMAIN toks = 1..n
  BY DEF TokensOK
<1>2. /\ new \in Seq(TokenRows) /\ Len(new) = n + 1 /\ DOMAIN new = 1..(n + 1)
      /\ new[n + 1] = row
      /\ \A i \in 1..n : new[i] = toks[i]
  BY <1>1
<1>3. \A i \in DOMAIN new : i \in DOMAIN toks \/ (i = n + 1 /\ new[i] = row)
  BY <1>1, <1>2
<1>4. row.seen \in Nat /\ row.seen < n + 1
  BY <1>1 DEF TokenRows
<1> HIDE DEF new
<1>5. TokensOK(new)
  <2>1. ASSUME NEW i \in DOMAIN new
        PROVE  new[i].seen < i /\ (new[i].user = NoUser => new[i].used)
    BY <1>1, <1>2, <1>3, <1>4, AccountsAssumption DEF TokensOK
  <2>2. ASSUME NEW i \in DOMAIN new, NEW j \in DOMAIN new, j <= new[i].seen,
               new[j].user = new[i].user, new[j].purpose = new[i].purpose
        PROVE  new[j].used
    <3>0. i \in 1..(n + 1) /\ new[i] \in TokenRows
      BY <1>2
    <3>1. new[i].seen < i /\ i <= n + 1 /\ i \in Nat /\ new[i].seen \in Nat
      BY <2>1, <1>1, <3>0 DEF TokenRows
    <3>2. j \in DOMAIN toks
      BY <2>2, <3>1, <1>1, <1>2
    <3>3. new[j] = toks[j]
      BY <3>2, <1>1, <1>2
    <3>4. CASE i \in DOMAIN toks
      <4>1. new[i] = toks[i]
        BY <3>4, <1>1, <1>2
      <4> QED
        BY <2>2, <3>2, <3>3, <3>4, <4>1 DEF TokensOK
    <3>5. CASE new[i] = row
      BY <2>2, <3>2, <3>3, <3>5
    <3> QED
      BY <1>3, <3>4, <3>5
  <2> QED
    BY <1>2, <2>1, <2>2 DEF TokensOK
<1>6. ASSUME NEW S, UsedUp(S, toks) PROVE UsedUp(S, new)
  BY <1>1, <1>2, <1>6 DEF UsedUp
<1>7. ASSUME NEW r, AsksOK(r, toks) PROVE AsksOK(r, new)
  <2>1. ASSUME r.op = "issue", NEW j \in DOMAIN new, j <= r.seen, new[j].user = r.user,
               new[j].purpose = "email_verify"
        PROVE  new[j].used
    <3>1. r.seen \in Nat /\ r.seen <= n
      BY <1>7, <2>1 DEF AsksOK
    <3>2. j \in DOMAIN toks
      BY <2>1, <3>1, <1>1, <1>2
    <3> QED
      BY <1>1, <1>2, <1>7, <2>1, <3>2 DEF AsksOK
  <2>2. r.op \in {"link", "resend", "issue"} => r.seen <= Len(new)
    BY <1>1, <1>2, <1>7 DEF AsksOK
  <2>3. r.op = "follow" => r.link \in DOMAIN new
    BY <1>1, <1>2, <1>7 DEF AsksOK
  <2> QED
    BY <1>7, <2>1, <2>2, <2>3 DEF AsksOK
<1>8. /\ DOMAIN toks \subseteq DOMAIN new
      /\ \A i \in DOMAIN new : new[i] = IF i \in DOMAIN toks THEN toks[i] ELSE row
  BY <1>1, <1>2, <1>3
<1> QED
  BY <1>5, <1>6, <1>7, <1>8 DEF new

LEMMA IsSequence ==
  ASSUME NEW S, NEW n \in Nat, NEW f \in [1..n -> S]
  PROVE  f \in Seq(S) /\ Len(f) = n
OBVIOUS

LEMMA InvalidateKept ==
  ASSUME NEW toks, TokensOK(toks), NEW u, NEW p, NEW k
  PROVE  /\ Kept(toks, InvalidateTokens(toks, u, p, k))
         /\ \A j \in DOMAIN toks :
              j <= k /\ toks[j].user = u /\ toks[j].purpose = p
              => InvalidateTokens(toks, u, p, k)[j].used
<1> DEFINE new == InvalidateTokens(toks, u, p, k)
           n == Len(toks)
<1>1. n \in Nat /\ DOMAIN toks = 1..n /\ \A i \in 1..n : toks[i] \in TokenRows
  BY DEF TokensOK
<1>2. DOMAIN new = 1..n /\ new = [i \in 1..n |-> new[i]]
  BY <1>1 DEF InvalidateTokens
<1>3. \A i \in 1..n : new[i] = IF i <= k /\ toks[i].user = u /\ toks[i].purpose = p
                               THEN [toks[i] EXCEPT !.used = TRUE] ELSE toks[i]
  BY <1>1 DEF InvalidateTokens
<1> HIDE DEF new
<1>4. ASSUME NEW i \in 1..n
      PROVE  /\ new[i] \in TokenRows
             /\ new[i].purpose = toks[i].purpose /\ new[i].seen = toks[i].seen
             /\ new[i].user = toks[i].user
             /\ toks[i].used \/ (i <= k /\ toks[i].user = u /\ toks[i].purpose = p) => new[i].used
  BY <1>1, <1>3 DEF TokenRows
<1>5. new \in Seq(TokenRows) /\ Len(new) = n
  <2>1. new \in [1..n -> TokenRows]
    BY <1>2, <1>4
  <2> QED
    BY <1>1, <2>1, IsSequence
<1> QED
  BY <1>1, <1>4, <1>5 DEF Kept, new

LEMMA MarkUsedKept ==
  ASSUME NEW toks, TokensOK(toks), NEW i \in DOMAIN toks
  PROVE  Kept(toks, MarkUsed(toks, i)) /\ MarkUsed(toks, i)[i].used
<1> DEFINE new == MarkUsed(toks, i)
           n == Len(toks)
<1>1. n \in Nat /\ DOMAIN toks = 1..n /\ \A j \in 1..n : toks[j] \in TokenRows
  BY DEF TokensOK
<1>2. DOMAIN new = 1..n /\ new = [j \in 1..n |-> new[j]]
  BY <1>1 DEF MarkUsed
<1>3. \A j \in 1..n : new[j] = IF j = i THEN [toks[j] EXCEPT !.used = TRUE] ELSE toks[j]
  BY <1>1 DEF MarkUsed
<1> HIDE DEF new
<1>4. ASSUME NEW j \in 1..n
      PROVE  /\ new[j] \in TokenRows
             /\ new[j].purpose = toks[j].purpose /\ new[j].seen = toks[j].seen
             /\ new[j].user = toks[j].user
             /\ toks[j].used \/ j = i => new[j].used
  BY <1>1, <1>3 DEF TokenRows
<1>5. new \in Seq(TokenRows) /\ Len(new) = n
  <2>1. new \in [1..n -> TokenRows]
    BY <1>2, <1>4
  <2> QED
    BY <1>1, <2>1, IsSequence
<1> QED
  BY <1>1, <1>4, <1>5 DEF Kept, new

LEMMA KeptTwice ==
  ASSUME NEW a, NEW b, NEW c, TokensOK(a), Kept(a, b), Kept(b, c)
  PROVE  Kept(a, c)
<1>1. DOMAIN a = DOMAIN b
  BY KeptOK
<1> QED
  BY <1>1 DEF Kept

\* The steps that touch the links, or a request that knows of some, or of a provider.
LinkStep(t) ==
  \/ RegisterCommit(t)
  \/ \E u \in Users, p \in Purposes : RequestLink(t, u, p)
  \/ \E u \in Users : ResendVerification(t, u)
  \/ ResendCommit(t)
  \/ \E out \in BOOLEAN : IssueLink(t, out) \/ IssueVerification(t, out)
  \/ \E i \in DOMAIN token, e \in Emails : FollowLink(t, i, e)
  \/ \E field \in {"google", "apple"}, s \in Subjects : SocialLogin(t, field, s)
  \/ VerifyMagicLink(t)
  \/ VerifyEmail(t)
  \/ ResetPassword(t)
  \/ ChangePasswordCommit(t)

Asks(r) == r.op \in {"link", "resend", "issue", "follow", "social"}

\* The other requests come and go, and know of no link and no provider.
OthersMove == \A t \in Threads : req'[t] = req[t] \/ ~Asks(req'[t])

LEMMA OneRequest ==
  ASSUME DOMAIN req = Threads, NEW t \in Threads, NEW r, req' = [req EXCEPT ![t] = r], ~Asks(r)
  PROVE  DOMAIN req' = Threads /\ OthersMove
BY DEF OthersMove

LEMMA IdleAsksNothing == ~Asks(Idle)
BY DEF Asks, Idle

LEMMA AccountsFrame ==
  ASSUME DOMAIN req = Threads, NEW t \in Threads, AccountsStep(t)
  PROVE  \/ LinkStep(t)
         \/ UNCHANGED <<token, spent, dated, now>> /\ DOMAIN req' = Threads /\ OthersMove
<1>1. ASSUME NEW e \in Emails, Register(t, e)
      PROVE  UNCHANGED <<token, spent, dated, now>> /\ DOMAIN req' = Threads /\ OthersMove
  BY <1>1, OneRequest DEF Register, Begin, Asks, accountVars
<1>3. CASE SocialCommit(t) \/ UpdateUserCommit(t) \/ Rollback(t) \/ Clash(t)
  BY <1>3, OneRequest, IdleAsksNothing
  DEF SocialCommit, UpdateUserCommit, Rollback, Clash, Answer, accountVars
<1>4. ASSUME NEW u \in Users, ChangePassword(t, u) \/ \E e \in Emails : UpdateUser(t, u, e)
      PROVE  UNCHANGED <<token, spent, dated, now>> /\ DOMAIN req' = Threads /\ OthersMove
  BY <1>4, OneRequest DEF ChangePassword, UpdateUser, Begin, Asks, accountVars
<1> QED
  BY <1>1, <1>3, <1>4 DEF AccountsStep, LinkStep

LEMMA LibraryRequests ==
  ASSUME DOMAIN req = Threads, LibraryNext
  PROVE  (now' = now \/ now' = now + 1) /\ DOMAIN req' = Threads /\ OthersMove
<1>1. ASSUME NEW t \in Threads, LibraryStep(t)
      PROVE  now' = now /\ DOMAIN req' = Threads /\ OthersMove
  <2>1. ASSUME NEW r, Begin(t, r),
               r.op \in {"add", "read", "mute", "remove", "view", "edit", "webhook"}
        PROVE  now' = now /\ DOMAIN req' = Threads /\ OthersMove
    <3>1. ~Asks(r)
      BY <2>1 DEF Asks
    <3>2. req' = [req EXCEPT ![t] = r] /\ now' = now
      BY <2>1 DEF Begin
    <3> QED
      BY <3>1, <3>2, OneRequest
  <2>2. ASSUME NEW u, NEW c, TrackCompany(t, u, c) \/ \E l : AddCompany(t, u, l, c)
        PROVE  now' = now /\ DOMAIN req' = Threads /\ OthersMove
    BY <2>1, <2>2 DEF TrackCompany, AddCompany
  <2>3. ASSUME NEW u, NEW S, MarkRead(t, u, S)
        PROVE  now' = now /\ DOMAIN req' = Threads /\ OthersMove
    BY <2>1, <2>3 DEF MarkRead
  <2>4. ASSUME NEW u, NEW S, RemoveCompanies(t, u, S)
        PROVE  now' = now /\ DOMAIN req' = Threads /\ OthersMove
    BY <2>1, <2>4 DEF RemoveCompanies
  <2>5. ASSUME NEW u, NEW S, NEW muted, SetMute(t, u, S, muted)
        PROVE  now' = now /\ DOMAIN req' = Threads /\ OthersMove
    BY <2>1, <2>5 DEF SetMute
  <2>6. ASSUME NEW u, NEW filters, NEW alerts, CreateView(t, u, filters, alerts)
        PROVE  now' = now /\ DOMAIN req' = Threads /\ OthersMove
    BY <2>1, <2>6 DEF CreateView
  <2>7. ASSUME NEW u, NEW filters, NEW alerts, NEW v, UpdateView(t, u, v, filters, alerts)
        PROVE  now' = now /\ DOMAIN req' = Threads /\ OthersMove
    BY <2>1, <2>7 DEF UpdateView
  <2>8. ASSUME NEW chat, NEW k, SendCode(t, chat, k)
        PROVE  now' = now /\ DOMAIN req' = Threads /\ OthersMove
    BY <2>1, <2>8 DEF SendCode
  <2>9. CASE \/ AddCommit(t) \/ MarkReadCommit(t) \/ SetMuteCommit(t) \/ RemoveCommit(t)
             \/ CreateViewCommit(t) \/ UpdateViewCommit(t) \/ WebhookCommit(t)
             \/ LibraryClash(t)
    <3>1. Answer(t)
      BY <2>9 DEF AddCommit, MarkReadCommit, SetMuteCommit, RemoveCommit, CreateViewCommit,
                  UpdateViewCommit, WebhookCommit, LibraryClash
    <3> QED
      BY <3>1, OneRequest, IdleAsksNothing DEF Answer
  <2> QED
    BY <1>1, <2>2, <2>3, <2>4, <2>5, <2>6, <2>7, <2>8, <2>9 DEF LibraryStep
<1>2. ASSUME NEW u \in Users,
             \/ CreateList(u) \/ LinkTelegram(u) \/ UnlinkTelegram(u)
             \/ \E l \in DOMAIN list : DeleteList(u, l) \/ \E c \in Companies : RemoveCompany(u, l, c)
             \/ \E v \in DOMAIN view : DeleteView(u, v)
      PROVE  UNCHANGED <<now, req>>
  BY <1>2
  DEF CreateList, LinkTelegram, UnlinkTelegram, DeleteList, RemoveCompany, DeleteView, Serve
<1>3. ASSUME NEW c \in Companies, StoreStory(c) PROVE now' = now + 1 /\ req' = req
  BY <1>3 DEF StoreStory
<1> QED
  BY <1>1, <1>2, <1>3 DEF LibraryNext, OthersMove

LEMMA LinksFrame ==
  ASSUME DOMAIN req = Threads, [Next]_vars
  PROVE  \/ /\ UNCHANGED <<token, spent, dated>> /\ now' \in {now, now + 1}
            /\ DOMAIN req' = Threads /\ OthersMove
         \/ \E t \in Threads : LinkStep(t)
         \/ Leaves
<1>1. CASE UNCHANGED vars
  BY <1>1 DEF vars, accountVars, serverVars, OthersMove
<1>2. CASE LibraryNext
  BY <1>2, LibraryFrame, LibraryRequests DEF accountVars
<1>3. ASSUME NEW t \in Threads, AccountsStep(t)
      PROVE  \/ LinkStep(t)
             \/ UNCHANGED <<token, spent, dated, now>> /\ DOMAIN req' = Threads /\ OthersMove
  BY <1>3, AccountsFrame
<1>4. CASE Tick
  BY <1>4 DEF Tick, accountVars, OthersMove
<1>5. ASSUME NEW u \in Users, Login(u)
      PROVE  UNCHANGED <<token, spent, dated, now, req>>
  BY <1>5 DEF Login, serverVars
<1> QED
  BY <1>1, <1>2, <1>3, <1>4, <1>5 DEF Next, Leaves, OthersMove

LEMMA NoAskOK == ASSUME NEW r, NEW toks, ~Asks(r) PROVE AsksOK(r, toks)
BY DEF Asks, AsksOK

LEMMA AccountsStay == ASSUME AccountsMove, NEW u \in Users, Exists(u) PROVE account'[u] # NoRow
BY RowIsThere DEF AccountsMove, AccountMoves, Exists

\* A step keeps the links if it uses them up or adds one, and its thread goes on
\* with a request that knows of links that are there.
OwnersThere == \A i \in DOMAIN token : token[i].user \in Users => Exists(token[i].user)

LEMMA KeptOn ==
  ASSUME LinksInv, AccountsMove, Kept(token, token')
  PROVE  /\ TokensOK(token') /\ OwnersThere' /\ DOMAIN token' = DOMAIN token
         /\ \A S : UsedUp(S, token) => UsedUp(S, token')
         /\ \A q : AsksOK(q, token) => AsksOK(q, token')
<1>1. /\ TokensOK(token') /\ DOMAIN token' = DOMAIN token
      /\ \A S : UsedUp(S, token) => UsedUp(S, token')
      /\ \A q : AsksOK(q, token) => AsksOK(q, token')
  BY KeptOK DEF LinksInv
<1>2. ASSUME NEW i \in DOMAIN token', token'[i].user \in Users PROVE account'[token'[i].user] # NoRow
  <2>1. token'[i].user = token[i].user
    BY <1>1, <1>2, AccountsAssumption DEF Kept
  <2>2. Exists(token[i].user)
    BY <1>1, <1>2, <2>1 DEF LinksInv
  <2> QED
    BY <1>2, <2>1, <2>2, AccountsStay
<1> QED
  BY <1>1, <1>2 DEF OwnersThere, Exists

LEMMA AppendOn ==
  ASSUME LinksInv, AccountsMove, NEW toks, Kept(token, toks), NEW row \in TokenRows,
         row.user \in Users, Exists(row.user), row.seen <= Len(toks),
         \A j \in DOMAIN toks :
           j <= row.seen /\ toks[j].user = row.user /\ toks[j].purpose = row.purpose
           => toks[j].used,
         token' = Append(toks, row)
  PROVE  /\ TokensOK(token') /\ OwnersThere'
         /\ \A S : UsedUp(S, token) => UsedUp(S, token')
         /\ \A q : AsksOK(q, token) => AsksOK(q, token')
<1>1. /\ TokensOK(toks) /\ DOMAIN toks = DOMAIN token
      /\ \A S : UsedUp(S, token) => UsedUp(S, toks)
      /\ \A q : AsksOK(q, token) => AsksOK(q, toks)
  BY KeptOK DEF LinksInv
<1>2. /\ TokensOK(token')
      /\ \A i \in DOMAIN token' : token'[i] = IF i \in DOMAIN toks THEN toks[i] ELSE row
      /\ \A S : UsedUp(S, toks) => UsedUp(S, token')
      /\ \A q : AsksOK(q, toks) => AsksOK(q, token')
  BY <1>1, AppendOK
<1>3. ASSUME NEW i \in DOMAIN token', token'[i].user \in Users PROVE account'[token'[i].user] # NoRow
  <2>1. CASE i \in DOMAIN toks
    <3>1. token'[i].user = token[i].user
      BY <1>1, <1>2, <1>3, <2>1, AccountsAssumption DEF Kept
    <3>2. Exists(token[i].user)
      BY <1>1, <1>3, <2>1, <3>1 DEF LinksInv
    <3> QED
      BY <1>3, <3>1, <3>2, AccountsStay
  <2>2. CASE i \notin DOMAIN toks
    BY <1>2, <2>2, AccountsStay
  <2> QED
    BY <2>1, <2>2
<1> QED
  BY <1>1, <1>2, <1>3 DEF OwnersThere, Exists

LEMMA LinksOn ==
  ASSUME LinksInv, AccountsOK', NEW t \in Threads, NEW r, req' = [req EXCEPT ![t] = r],
         now' = now, TokensOK(token'), OwnersThere', UsedUp(spent' \cup dated', token'),
         \A q : AsksOK(q, token) => AsksOK(q, token'),
         AsksOK(r, token')
  PROVE  LinksInv'
<1>1. DOMAIN req' = Threads /\ now' \in Nat
  BY DEF LinksInv
<1>2. \A s \in Threads : AsksOK(req'[s], token')
  BY DEF LinksInv
<1> QED
  BY <1>1, <1>2 DEF LinksInv, OwnersThere

LEMMA KeptSame == ASSUME LinksInv PROVE Kept(token, token)
BY DEF LinksInv, TokensOK, Kept

LEMMA UsedUpMore ==
  ASSUME NEW S, NEW T, NEW toks, UsedUp(S, toks), UsedUp(T, toks) PROVE UsedUp(S \cup T, toks)
BY DEF UsedUp

LEMMA NewTokenOK ==
  ASSUME LinksInv, NEW u \in Users, NEW p \in Purposes, NEW n \in Nat
  PROVE  /\ NewToken(u, p, n) \in TokenRows
         /\ NewToken(u, p, n).user = u /\ NewToken(u, p, n).purpose = p
         /\ NewToken(u, p, n).seen = n
<1>1. now + Lifetime[p] \in Int
  BY LifetimeAssumption DEF LinksInv
<1> QED
  BY <1>1 DEF NewToken, TokenRow, TokenRows

\* A request that only begins, or ends, knowing of the links that are there.
LEMMA AskStep ==
  ASSUME LinksInv, AccountsMove, AccountsOK', NEW t \in Threads, LinkStep(t),
         \/ RegisterCommit(t)
         \/ \E u \in Users, p \in Purposes : RequestLink(t, u, p)
         \/ \E u \in Users : ResendVerification(t, u)
         \/ \E i \in DOMAIN token, e \in Emails : FollowLink(t, i, e)
         \/ \E field \in {"google", "apple"}, s \in Subjects : SocialLogin(t, field, s)
  PROVE  LinksInv'
<1>1. Len(token) \in Nat /\ \A j \in DOMAIN token : j <= Len(token)
  BY DEF LinksInv, TokensOK
<1>2. ASSUME NEW r, req' = [req EXCEPT ![t] = r], AsksOK(r, token),
             UNCHANGED <<token, spent, dated, now>>
      PROVE  LinksInv'
  <2>1. /\ TokensOK(token') /\ OwnersThere'
        /\ \A q : AsksOK(q, token) => AsksOK(q, token')
    BY <1>2, KeptSame, KeptOn
  <2>2. UsedUp(spent' \cup dated', token')
    BY <1>2 DEF LinksInv
  <2> QED
    BY <1>2, <2>1, <2>2, LinksOn
<1>3. CASE RegisterCommit(t)
  <2> DEFINE u == FreshUser
             r == [op |-> "issue", user |-> u, seen |-> Len(token)]
  <2>1. u \in Users /\ ~Exists(u)
    BY <1>3, FreshFacts DEF RegisterCommit
  <2> HIDE DEF u
  <2>2. \A j \in DOMAIN token : token[j].user # u
    BY <2>1 DEF LinksInv
  <2>3. AsksOK(r, token)
    BY <1>1, <2>1, <2>2 DEF AsksOK
  <2>4. req' = [req EXCEPT ![t] = r] /\ UNCHANGED <<token, spent, dated, now>>
    BY <1>3 DEF RegisterCommit, Continue, u
  <2> HIDE DEF r
  <2> QED
    BY <1>2, <2>3, <2>4
<1>4. ASSUME NEW u \in Users, NEW p \in Purposes, RequestLink(t, u, p) PROVE LinksInv'
  <2> DEFINE r == [op |-> "link", user |-> u, purpose |-> p, seen |-> Len(token)]
  <2>1. AsksOK(r, token)
    BY <1>1 DEF AsksOK
  <2>2. req' = [req EXCEPT ![t] = r] /\ UNCHANGED <<token, spent, dated, now>>
    BY <1>4 DEF RequestLink, Begin, accountVars
  <2> HIDE DEF r
  <2> QED
    BY <1>2, <2>1, <2>2
<1>5. ASSUME NEW u \in Users, ResendVerification(t, u) PROVE LinksInv'
  <2> DEFINE r == [op |-> "resend", user |-> u, seen |-> Len(token)]
  <2>1. AsksOK(r, token)
    BY <1>1 DEF AsksOK
  <2>2. req' = [req EXCEPT ![t] = r] /\ UNCHANGED <<token, spent, dated, now>>
    BY <1>5 DEF ResendVerification, Begin, accountVars
  <2> HIDE DEF r
  <2> QED
    BY <1>2, <2>1, <2>2
<1>6. ASSUME NEW i \in DOMAIN token, NEW e \in Emails, FollowLink(t, i, e) PROVE LinksInv'
  <2> DEFINE r == [op |-> "follow", user |-> token[i].user, link |-> i, to |-> e,
                   seen |-> Len(token)]
  <2>1. AsksOK(r, token)
    BY <1>1 DEF AsksOK
  <2>2. req' = [req EXCEPT ![t] = r] /\ UNCHANGED <<token, spent, dated, now>>
    BY <1>6 DEF FollowLink, Begin, accountVars
  <2> HIDE DEF r
  <2> QED
    BY <1>2, <2>1, <2>2
<1>7. ASSUME NEW field, NEW s, SocialLogin(t, field, s) PROVE LinksInv'
  <2>1. PICK user, new, link :
          Begin(t, [op |-> "social", field |-> field, subject |-> s, user |-> user,
                    new |-> new, link |-> link])
    BY <1>7 DEF SocialLogin
  <2> DEFINE r == [op |-> "social", field |-> field, subject |-> s, user |-> user,
                   new |-> new, link |-> link]
  <2>2. AsksOK(r, token)
    BY DEF AsksOK
  <2>3. req' = [req EXCEPT ![t] = r] /\ UNCHANGED <<token, spent, dated, now>>
    BY <1>7, <2>1 DEF SocialLogin, Begin, accountVars
  <2> HIDE DEF r
  <2> QED
    BY <1>2, <2>2, <2>3
<1> QED
  BY <1>3, <1>4, <1>5, <1>6, <1>7

LEMMA IssueStep ==
  ASSUME LinksInv, AccountsMove, AccountsOK', NEW t \in Threads, NEW mail \in BOOLEAN,
         IssueLink(t, mail) \/ IssueVerification(t, mail)
  PROVE  LinksInv'
<1> DEFINE r == req[t]
           n == Len(token)
<1>1. AsksOK(r, token) /\ n \in Nat
  BY DEF LinksInv, TokensOK
<1>2. ASSUME NEW p \in Purposes, NEW toks, Kept(token, toks), r.op \in {"link", "issue"},
             Exists(r.user),
             \A j \in DOMAIN token :
               j <= r.seen /\ toks[j].user = r.user /\ toks[j].purpose = p => toks[j].used,
             token' = Append(toks, NewToken(r.user, p, r.seen)),
             req' = [req EXCEPT ![t] = Idle], UNCHANGED <<spent, dated, now>>
      PROVE  LinksInv'
  <2>1. r.user \in Users /\ r.seen \in Nat /\ r.seen <= n
    BY <1>1, <1>2 DEF AsksOK
  <2> DEFINE row == NewToken(r.user, p, r.seen)
  <2>2. row \in TokenRows /\ row.user = r.user /\ row.purpose = p /\ row.seen = r.seen
    BY <2>1, NewTokenOK
  <2> HIDE DEF row
  <2>3. Len(toks) = n /\ DOMAIN toks = DOMAIN token
    BY <1>2, KeptOK DEF Kept, LinksInv
  <2>4. token' = Append(toks, row)
    BY <1>2 DEF row
  <2>5. /\ TokensOK(token') /\ OwnersThere'
        /\ \A S : UsedUp(S, token) => UsedUp(S, token')
        /\ \A q : AsksOK(q, token) => AsksOK(q, token')
    <3>1. /\ row.user \in Users /\ Exists(row.user) /\ row.seen <= Len(toks)
          /\ \A j \in DOMAIN toks :
               j <= row.seen /\ toks[j].user = row.user /\ toks[j].purpose = row.purpose
               => toks[j].used
      BY <1>2, <2>1, <2>2, <2>3
    <3>2. Kept(token, toks) /\ row \in TokenRows
      BY <1>2, <2>2
    <3> HIDE DEF r
    <3> QED
      BY <2>4, <3>1, <3>2, AppendOn
  <2>6. UsedUp(spent' \cup dated', token')
    BY <1>2, <2>5 DEF LinksInv
  <2>7. AsksOK(Idle, token')
    BY NoAskOK, IdleAsksNothing
  <2> QED
    BY <1>2, <2>5, <2>6, <2>7, LinksOn
<1>3. CASE IssueLink(t, mail)
  <2> PICK k \in Updates(r) :
         token' = Append(InvalidateTokens(token, r.user, r.purpose, k),
                         NewToken(r.user, r.purpose, r.seen))
    BY <1>3 DEF IssueLink
  <2> DEFINE toks == InvalidateTokens(token, r.user, r.purpose, k)
  <2>0. k \in Nat /\ r.seen <= k
    BY <1>1 DEF Updates
  <2>1. /\ r.op = "link" /\ Exists(r.user) /\ r.purpose \in Purposes
        /\ token' = Append(toks, NewToken(r.user, r.purpose, r.seen))
        /\ req' = [req EXCEPT ![t] = Idle] /\ UNCHANGED <<spent, dated, now>>
    BY <1>1, <1>3 DEF IssueLink, AsksOK
  <2>2. /\ Kept(token, toks)
        /\ \A j \in DOMAIN token :
             j <= k /\ token[j].user = r.user /\ token[j].purpose = r.purpose => toks[j].used
    BY InvalidateKept DEF LinksInv
  <2> HIDE DEF toks
  <2>3. \A j \in DOMAIN token :
          j <= r.seen /\ toks[j].user = r.user /\ toks[j].purpose = r.purpose => toks[j].used
    <3>1. r.seen \in Nat /\ DOMAIN token \subseteq Nat
      BY <1>1, <2>1 DEF AsksOK, LinksInv, TokensOK
    <3> QED
      BY <2>0, <2>2, <3>1, AccountsAssumption DEF Kept
  <2> QED
    BY <1>2, <2>1, <2>2, <2>3
<1>4. CASE IssueVerification(t, mail)
  <2>1. /\ r.op = "issue" /\ Exists(r.user)
        /\ token' = Append(token, NewToken(r.user, "email_verify", r.seen))
        /\ req' = [req EXCEPT ![t] = Idle] /\ UNCHANGED <<spent, dated, now>>
    BY <1>4 DEF IssueVerification
  <2>2. "email_verify" \in Purposes /\ Kept(token, token)
    BY KeptSame DEF Purposes
  <2>3. \A j \in DOMAIN token :
          j <= r.seen /\ token[j].user = r.user /\ token[j].purpose = "email_verify"
          => token[j].used
    BY <1>1, <2>1 DEF AsksOK
  <2> HIDE DEF r
  <2> QED
    BY <1>2, <2>1, <2>2, <2>3
<1> QED
  BY <1>3, <1>4

LEMMA UseStep ==
  ASSUME LinksInv, AccountsMove, AccountsOK', NEW t \in Threads,
         \/ ResendCommit(t) \/ VerifyMagicLink(t) \/ VerifyEmail(t)
         \/ ResetPassword(t) \/ ChangePasswordCommit(t)
  PROVE  LinksInv'
<1> DEFINE r == req[t]
           i == r.link
           u == r.user
           marked == MarkUsed(token, i)
<1>1. AsksOK(r, token) /\ TokensOK(token) /\ UsedUp(spent \cup dated, token)
  BY DEF LinksInv
<1>2. ASSUME Kept(token, token'), NEW q, req' = [req EXCEPT ![t] = q], AsksOK(q, token'),
             NEW S, UsedUp(S, token'), spent' \cup dated' = (spent \cup dated) \cup S,
             now' = now
      PROVE  LinksInv'
  <2>1. /\ TokensOK(token') /\ OwnersThere'
        /\ UsedUp(spent \cup dated, token')
        /\ \A x : AsksOK(x, token) => AsksOK(x, token')
    BY <1>1, <1>2, KeptOn
  <2>2. UsedUp(spent' \cup dated', token')
    BY <1>2, <2>1, UsedUpMore
  <2> QED
    BY <1>2, <2>1, <2>2, LinksOn
<1>3. AsksOK(Idle, token')
  BY NoAskOK, IdleAsksNothing
<1>4. \A p, k : /\ Kept(token, InvalidateTokens(token, u, p, k))
                /\ \A j \in DOMAIN token :
                     j <= k /\ token[j].user = u /\ token[j].purpose = p
                     => InvalidateTokens(token, u, p, k)[j].used
  BY <1>1, InvalidateKept
<1>5. ASSUME r.op = "follow"
      PROVE  /\ i \in DOMAIN token /\ Kept(token, marked) /\ marked[i].used
             /\ TokensOK(marked) /\ DOMAIN marked = DOMAIN token
  <2>1. i \in DOMAIN token
    BY <1>1, <1>5 DEF AsksOK
  <2>2. Kept(token, marked) /\ marked[i].used
    BY <1>1, <2>1, MarkUsedKept
  <2> QED
    BY <1>1, <2>1, <2>2, KeptOK
<1>6. ASSUME NEW p, NEW k, r.op = "follow"
      PROVE  /\ Kept(token, InvalidateTokens(marked, u, p, k))
             /\ InvalidateTokens(marked, u, p, k)[i].used
             /\ \A j \in DOMAIN token :
                  j <= k /\ token[j].user = u /\ token[j].purpose = p
                  => InvalidateTokens(marked, u, p, k)[j].used
  <2> DEFINE new == InvalidateTokens(marked, u, p, k)
  <2>0. /\ i \in DOMAIN token /\ Kept(token, marked) /\ marked[i].used
        /\ TokensOK(marked) /\ DOMAIN marked = DOMAIN token
    BY <1>5, <1>6
  <2> HIDE DEF marked
  <2>1. /\ Kept(marked, new)
        /\ \A j \in DOMAIN marked :
             j <= k /\ marked[j].user = u /\ marked[j].purpose = p => new[j].used
    BY <2>0, InvalidateKept
  <2> HIDE DEF new
  <2>2. Kept(token, new)
    BY <1>1, <2>0, <2>1, KeptTwice
  <2>3. new[i].used
    BY <2>0, <2>1 DEF Kept
  <2>4. ASSUME NEW j \in DOMAIN token, j <= k, token[j].user = u, token[j].purpose = p
        PROVE  new[j].used
    <3>1. marked[j].purpose = p /\ (marked[j].user = u \/ marked[j].used)
      BY <2>0, <2>4 DEF Kept
    <3> QED
      BY <2>0, <2>1, <2>4, <3>1 DEF Kept
  <2> QED
    BY <2>2, <2>3, <2>4 DEF new
<1>7. ASSUME NEW S, S = {}, NEW toks PROVE UsedUp(S, toks)
  BY <1>7 DEF UsedUp
<1>8. CASE ResendCommit(t)
  <2> DEFINE q == [op |-> "issue", user |-> u, seen |-> r.seen]
  <2> PICK k \in Updates(r) : token' = InvalidateTokens(token, u, "email_verify", k)
    BY <1>8 DEF ResendCommit
  <2>0. k \in Nat /\ r.seen <= k /\ DOMAIN token \subseteq Nat
    BY <1>1 DEF Updates, TokensOK
  <2>1. /\ r.op = "resend"
        /\ req' = [req EXCEPT ![t] = q] /\ UNCHANGED <<spent, dated, now>>
    BY <1>8 DEF ResendCommit, Continue
  <2>2. /\ Kept(token, token')
        /\ \A j \in DOMAIN token :
             j <= k /\ token[j].user = u /\ token[j].purpose = "email_verify" => token'[j].used
    BY <1>4
  <2>3. /\ u \in Users /\ r.seen \in Nat /\ r.seen <= Len(token')
        /\ DOMAIN token' = DOMAIN token
    BY <1>1, <2>1, <2>2, KeptOK DEF AsksOK, Kept
  <2> HIDE DEF r, i, u
  <2>4. AsksOK(q, token')
    <3>1. ASSUME NEW j \in DOMAIN token', j <= r.seen, token'[j].user = u,
                 token'[j].purpose = "email_verify"
          PROVE  token'[j].used
      <4>1. j \in Nat /\ j <= k /\ token[j].purpose = "email_verify"
        BY <2>0, <2>2, <2>3, <3>1 DEF Kept
      <4>2. token[j].user = u
        BY <2>2, <2>3, <3>1, AccountsAssumption DEF Kept
      <4> QED
        BY <2>2, <2>3, <4>1, <4>2
    <3> QED
      BY <2>3, <3>1 DEF AsksOK
  <2> HIDE DEF q
  <2> QED
    BY <1>2, <1>7, <2>1, <2>2, <2>4
<1>9. CASE VerifyMagicLink(t)
  <2> PICK k \in Updates(r) : token' = InvalidateTokens(marked, u, "magic_link", k)
    BY <1>9 DEF VerifyMagicLink
  <2>1. /\ r.op = "follow"
        /\ spent' = spent \cup {i} /\ UNCHANGED <<dated, now>>
        /\ req' = [req EXCEPT ![t] = Idle]
    BY <1>9 DEF VerifyMagicLink, Answer
  <2>2. Kept(token, token') /\ i \in DOMAIN token' /\ token'[i].used
    BY <1>1, <1>5, <1>6, <2>1, KeptOK
  <2>3. UsedUp({i}, token') /\ spent' \cup dated' = (spent \cup dated) \cup {i}
    BY <2>1, <2>2 DEF UsedUp
  <2> QED
    BY <1>2, <1>3, <2>1, <2>2, <2>3
<1>10. CASE VerifyEmail(t)
  <2>1. /\ r.op = "follow" /\ token' = marked
        /\ spent' = spent \cup {i} /\ UNCHANGED <<dated, now>>
        /\ req' = [req EXCEPT ![t] = Idle]
    BY <1>10 DEF VerifyEmail, Answer
  <2>2. Kept(token, token') /\ i \in DOMAIN token' /\ token'[i].used
    BY <1>5, <2>1
  <2>3. UsedUp({i}, token') /\ spent' \cup dated' = (spent \cup dated) \cup {i}
    BY <2>1, <2>2 DEF UsedUp
  <2> QED
    BY <1>2, <1>3, <2>1, <2>2, <2>3
<1>11. CASE ResetPassword(t)
  <2> PICK k \in Updates(r) :
         /\ token' = InvalidateTokens(marked, u, "password_reset", k)
         /\ dated' = dated \cup ResetTokens(u, k)
    BY <1>11 DEF ResetPassword
  <2> DEFINE S == {i} \cup ResetTokens(u, k)
  <2>1. /\ r.op = "follow" /\ spent' = spent \cup {i} /\ now' = now
        /\ req' = [req EXCEPT ![t] = Idle]
    BY <1>11 DEF ResetPassword, Answer
  <2>2. /\ Kept(token, token') /\ DOMAIN token' = DOMAIN token
        /\ i \in DOMAIN token' /\ token'[i].used
    BY <1>1, <1>5, <1>6, <2>1, KeptOK
  <2>3. \A j \in ResetTokens(u, k) : j \in DOMAIN token' /\ token'[j].used
    BY <1>6, <2>1, <2>2 DEF ResetTokens
  <2>4. UsedUp(S, token') /\ spent' \cup dated' = (spent \cup dated) \cup S
    BY <2>1, <2>2, <2>3 DEF UsedUp
  <2> HIDE DEF S
  <2> QED
    BY <1>2, <1>3, <2>1, <2>2, <2>4
<1>12. CASE ChangePasswordCommit(t)
  <2> PICK k \in Updates(r) :
         /\ token' = InvalidateTokens(token, u, "password_reset", k)
         /\ dated' = dated \cup ResetTokens(u, k)
    BY <1>12 DEF ChangePasswordCommit
  <2> DEFINE S == ResetTokens(u, k)
  <2>1. /\ spent' = spent /\ now' = now
        /\ req' = [req EXCEPT ![t] = Idle]
    BY <1>12 DEF ChangePasswordCommit, Answer
  <2>2. Kept(token, token') /\ DOMAIN token' = DOMAIN token
    BY <1>1, <1>4, <2>1, KeptOK
  <2>3. UsedUp(S, token')
    BY <1>4, <2>1, <2>2 DEF ResetTokens, UsedUp
  <2>4. spent' \cup dated' = (spent \cup dated) \cup S
    BY <2>1
  <2> HIDE DEF S
  <2> QED
    BY <1>2, <1>3, <2>1, <2>2, <2>3, <2>4
<1> QED
  BY <1>8, <1>9, <1>10, <1>11, <1>12

LEMMA LeaveStep == ASSUME LinksInv, Leaves, AccountsOK' PROVE LinksInv'
<1> PICK u \in Users : DeleteAccount(u)
  BY DEF Leaves
<1> DEFINE n == Len(token)
<1>1. n \in Nat /\ DOMAIN token = 1..n /\ \A i \in 1..n : token[i] \in TokenRows
  BY DEF LinksInv, TokensOK
<1>2. /\ token' = [i \in DOMAIN token |->
           IF token[i].user = u THEN [token[i] EXCEPT !.user = NoUser, !.used = TRUE]
           ELSE token[i]]
      /\ account' = [account EXCEPT ![u] = NoRow] /\ UNCHANGED <<spent, dated, now, req>>
  BY DEF DeleteAccount
<1>3. \A i \in 1..n : token'[i] =
         IF token[i].user = u THEN [token[i] EXCEPT !.user = NoUser, !.used = TRUE]
         ELSE token[i]
  BY <1>1, <1>2
<1>4. ASSUME NEW i \in 1..n
      PROVE  /\ token'[i] \in TokenRows
             /\ token'[i].purpose = token[i].purpose /\ token'[i].seen = token[i].seen
             /\ token[i].used => token'[i].used
             /\ \/ token'[i].user = token[i].user /\ token[i].user # u
                \/ token'[i].user = NoUser /\ token'[i].used
  BY <1>1, <1>3 DEF TokenRows
<1>5. Kept(token, token')
  <2>1. token' \in [1..n -> TokenRows]
    BY <1>1, <1>2, <1>4
  <2>2. token' \in Seq(TokenRows) /\ Len(token') = n
    BY <1>1, <2>1, IsSequence
  <2> QED
    BY <1>1, <1>4, <2>2 DEF Kept
<1>6. /\ TokensOK(token') /\ DOMAIN token' = DOMAIN token
      /\ \A S : UsedUp(S, token) => UsedUp(S, token')
      /\ \A q : AsksOK(q, token) => AsksOK(q, token')
  BY <1>5, KeptOK DEF LinksInv
<1>7. ASSUME NEW i \in DOMAIN token', token'[i].user \in Users
      PROVE  account'[token'[i].user] # NoRow
  <2>1. token'[i].user = token[i].user /\ token[i].user # u
    BY <1>1, <1>4, <1>6, <1>7, AccountsAssumption
  <2>2. Exists(token[i].user)
    BY <1>6, <1>7, <2>1 DEF LinksInv
  <2> QED
    BY <1>2, <1>7, <2>1, <2>2 DEF LinksInv, AccountsOK, Exists
<1> QED
  BY <1>2, <1>6, <1>7 DEF LinksInv, Exists

LEMMA LinksStep == LinksInv /\ [Next]_vars => LinksInv'
<1> SUFFICES ASSUME LinksInv, [Next]_vars PROVE LinksInv'
  OBVIOUS
<1>1. (AccountsMove \/ Leaves) /\ AccountsOK'
  BY AccountsMoveOn DEF LinksInv
<1>2. CASE Leaves
  BY <1>1, <1>2, LeaveStep
<1>3. ASSUME AccountsMove, NEW t \in Threads, LinkStep(t) PROVE LinksInv'
  BY <1>1, <1>3, AskStep, IssueStep, UseStep DEF LinkStep
<1>4. ASSUME AccountsMove, UNCHANGED <<token, spent, dated>>, now' \in {now, now + 1},
             DOMAIN req' = Threads, OthersMove
      PROVE  LinksInv'
  <2>1. TokensOK(token') /\ OwnersThere'
    BY <1>4, KeptSame, KeptOn
  <2>2. UsedUp(spent' \cup dated', token') /\ now' \in Nat
    BY <1>4 DEF LinksInv
  <2>3. ASSUME NEW s \in Threads PROVE AsksOK(req'[s], token')
    BY <1>4, NoAskOK DEF LinksInv, OthersMove
  <2> QED
    BY <1>1, <1>4, <2>1, <2>2, <2>3 DEF LinksInv, OwnersThere
<1> QED
  BY <1>1, <1>2, <1>3, <1>4, LinksFrame DEF LinksInv

LEMMA LinksInit == Init => LinksInv
<1> SUFFICES ASSUME Init PROVE LinksInv
  OBVIOUS
<1>1. AccountsOK
  BY AccountsInitially
<1>2. token = <<>> /\ now = 0 /\ spent = {} /\ dated = {} /\ req = [t \in Threads |-> Idle]
  BY DEF Init, AccountsInit
<1>3. \A t \in Threads : AsksOK(req[t], token)
  BY <1>2, NoAskOK, IdleAsksNothing
<1>4. TokensOK(token) /\ DOMAIN token = {}
  BY <1>2 DEF TokensOK
<1> QED
  BY <1>1, <1>2, <1>3, <1>4 DEF LinksInv, UsedUp

\* A mailed link that did its work, that a newer one of its kind replaced, or that
\* resets a password set since, is used up and opens nothing again (DeadLinks), for
\* any number of accounts, links and requests that overlap (routes/auth.py).
THEOREM LinksDie == RegistrySpec => []DeadLinks
<1>1. LinksInv => DeadLinks
  BY DEF LinksInv, TokensOK, UsedUp, DeadLinks
<1> QED
  BY RegistryIsApi, LinksInit, LinksStep, <1>1, PTL DEF RegistrySpec

(***************************************************************************)
(* Addresses: what is known of one when an account counts as verified.     *)
(***************************************************************************)

\* A row that says "verified" has an address trusted to be its user's; one with a
\* subject at Apple has the address reported for it, or one trusted since.
RowBacked(u, row, trusts, keys) ==
  /\ u \in keys
  /\ row.verified => <<u, row.email>> \in trusts
  /\ row.apple # NoSubject =>
       /\ row.apple \in Subjects
       /\ row.email = SubjectEmail[row.apple] \/ <<u, row.email>> \in trusts

RowsBacked == \A u \in Users : Exists(u) => RowBacked(u, account[u], trusted, signedIn)

\* Whoever shows that address e is u's shows it of u's row, or its row's was shown.
Backed(u, e, rows, trusts) == rows[u].email = e \/ <<u, rows[u].email>> \in trusts

MailBacked ==
  /\ \A m \in mailed : m[1] \in DOMAIN token
  /\ \A m \in mailed : token[m[1]].user \in Users =>
       Backed(token[m[1]].user, m[2], account, trusted)

\* What a request in progress knows of an address.
AskBacked(r, rows, trusts, keys) ==
  /\ r.op = "follow" =>
       /\ r.user \in keys
       /\ r.user \in Users /\ rows[r.user] # NoRow => Backed(r.user, r.to, rows, trusts)
  /\ r.op = "social" =>
       /\ r.subject \in Subjects /\ r.field \in {"google", "apple"}
       /\ ~r.new =>
            /\ r.user \in keys
            /\ r.user \in Users /\ rows[r.user] # NoRow =>
                 Backed(r.user, SubjectEmail[r.subject], rows, trusts)

VerifiedInv ==
  /\ RowsBacked
  /\ MailBacked
  /\ \A t \in Threads : AskBacked(req[t], account, trusted, signedIn)

\* What a step leaves of the addresses of users who have been there.
EmailsStay ==
  /\ trusted \subseteq trusted' /\ signedIn \subseteq signedIn'
  /\ \A v \in Users :
       v \in signedIn /\ account'[v] # NoRow =>
         /\ Exists(v)
         /\ account'[v].email = account[v].email \/ <<v, account'[v].email>> \in trusted'

LEMMA BackedOn ==
  ASSUME EmailsStay, NEW v \in Users, v \in signedIn, account'[v] # NoRow, NEW e,
         Backed(v, e, account, trusted)
  PROVE  Backed(v, e, account', trusted')
BY DEF EmailsStay, Backed

LEMMA AskBackedOn ==
  ASSUME EmailsStay, NEW r, AskBacked(r, account, trusted, signedIn)
  PROVE  AskBacked(r, account', trusted', signedIn')
<1>1. ASSUME r.op = "follow"
      PROVE  /\ r.user \in signedIn'
             /\ r.user \in Users /\ account'[r.user] # NoRow =>
                  Backed(r.user, r.to, account', trusted')
  BY <1>1, BackedOn DEF AskBacked, EmailsStay, Exists
<1>2. ASSUME r.op = "social", ~r.new
      PROVE  /\ r.user \in signedIn'
             /\ r.user \in Users /\ account'[r.user] # NoRow =>
                  Backed(r.user, SubjectEmail[r.subject], account', trusted')
  BY <1>2, BackedOn DEF AskBacked, EmailsStay, Exists
<1>3. r.op = "social" => r.subject \in Subjects /\ r.field \in {"google", "apple"}
  BY DEF AskBacked
<1> QED
  BY <1>1, <1>2, <1>3 DEF AskBacked

LEMMA NoAskBacked ==
  ASSUME NEW r, r.op \notin {"follow", "social"}, NEW rows, NEW trusts, NEW keys
  PROVE  AskBacked(r, rows, trusts, keys)
BY DEF AskBacked

LEMMA OneRowBacked ==
  ASSUME AccountsOK, RowsBacked, trusted \subseteq trusted', signedIn \subseteq signedIn',
         NEW u, NEW n, account' = [account EXCEPT ![u] = n],
         u \in Users =>
           /\ RowBacked(u, n, trusted', signedIn')
           /\ IF Exists(u) THEN n.email = account[u].email \/ <<u, n.email>> \in trusted'
              ELSE u \notin signedIn
  PROVE  RowsBacked' /\ EmailsStay
<1>1. ASSUME NEW v \in Users, v # u
      PROVE  account'[v] = account[v] /\ (Exists(v) => RowBacked(v, account[v], trusted', signedIn'))
  BY <1>1 DEF AccountsOK, RowsBacked, RowBacked
<1>2. u \in Users => account'[u] = n
  BY DEF AccountsOK
<1>3. RowsBacked'
  BY <1>1, <1>2 DEF RowsBacked, Exists
<1>4. EmailsStay
  BY <1>1, <1>2 DEF EmailsStay, Exists
<1> QED
  BY <1>3, <1>4

LEMMA SameRowsBacked ==
  ASSUME RowsBacked, UNCHANGED <<account, trusted>>, signedIn \subseteq signedIn'
  PROVE  RowsBacked' /\ EmailsStay
BY DEF RowsBacked, RowBacked, EmailsStay, Exists

LEMMA RowsStep ==
  ASSUME AccountsOK, VerifiedInv, [Next]_vars
  PROVE  RowsBacked' /\ EmailsStay
<1>1. RowsBacked
  BY DEF VerifiedInv
<1>2. CASE UNCHANGED <<account, trusted>> /\ signedIn \subseteq signedIn'
  BY <1>1, <1>2, SameRowsBacked
<1>3. CASE Leaves
  <2>1. PICK u \in Users : account' = [account EXCEPT ![u] = NoRow] /\ UNCHANGED <<signedIn, trusted>>
    BY <1>3 DEF Leaves, DeleteAccount
  <2> QED
    BY <1>1, <2>1 DEF AccountsOK, RowsBacked, RowBacked, EmailsStay, Exists
<1>4. ASSUME NEW t \in Threads, RegisterCommit(t) PROVE RowsBacked' /\ EmailsStay
  <2> DEFINE u == FreshUser
             n == NewAccount(req[t].email, TRUE, FALSE, NoSubject, NoSubject)
  <2>1. /\ account' = [account EXCEPT ![u] = n] /\ HasFreshUser
        /\ signedIn' = signedIn \cup {u} /\ trusted' = trusted
    BY <1>4 DEF RegisterCommit, SignIn
  <2>2. n.verified = FALSE /\ n.apple = NoSubject
    BY DEF NewAccount
  <2>3. ~Exists(u) /\ u \notin signedIn
    BY <2>1, FreshFacts
  <2> HIDE DEF n, u
  <2>4. RowBacked(u, n, trusted', signedIn')
    BY <2>1, <2>2 DEF RowBacked
  <2> QED
    BY <1>1, <2>1, <2>3, <2>4, OneRowBacked
<1>5. ASSUME NEW t \in Threads, SocialCommit(t) PROVE RowsBacked' /\ EmailsStay
  <2> DEFINE r == req[t]
             e == SubjectEmail[r.subject]
             u == IF r.new THEN FreshUser ELSE r.user
             row == IF r.new THEN NewAccount(e, FALSE, TRUE, NoSubject, NoSubject)
                    ELSE [account[u] EXCEPT !.verified = TRUE]
             n == IF r.new \/ r.link THEN [row EXCEPT ![r.field] = r.subject] ELSE row
  <2>1. /\ account' = [account EXCEPT ![u] = n]
        /\ IF r.new THEN HasFreshUser ELSE Exists(u)
        /\ signedIn' = signedIn \cup {u}
        /\ trusted' = trusted \cup {<<u, e>>}
        /\ r.op = "social"
    BY <1>5 DEF SocialCommit, SignIn
  <2>2. /\ r.subject \in Subjects /\ r.field \in {"google", "apple"}
        /\ ~r.new /\ u \in Users => Backed(u, e, account, trusted)
    BY <2>1 DEF VerifiedInv, AskBacked, Exists
  <2>3. CASE r.new
    <3>1. /\ DOMAIN row = RowFields /\ row.email = e /\ row.apple = NoSubject
      BY <2>3 DEF NewAccount, RowFields
    <3> HIDE DEF row
    <3>2. n = [row EXCEPT ![r.field] = r.subject]
      BY <2>3
    <3> HIDE DEF n
    <3>3. n.email = e /\ n.apple \in {NoSubject, r.subject}
      BY <2>2, <3>1, <3>2 DEF RowFields
    <3>4. ~Exists(u) /\ u \notin signedIn
      BY <2>1, <2>3, FreshFacts
    <3>5. RowBacked(u, n, trusted', signedIn')
      BY <2>1, <2>2, <3>3 DEF RowBacked
    <3> HIDE DEF u
    <3> QED
      BY <1>1, <2>1, <3>4, <3>5, OneRowBacked
  <2>4. CASE ~r.new
    <3> SUFFICES ASSUME u \in Users PROVE RowsBacked' /\ EmailsStay
      <4>1. trusted \subseteq trusted' /\ signedIn \subseteq signedIn'
        BY <2>1
      <4> HIDE DEF n, u
      <4>2. CASE u \in Users
        BY <4>2
      <4>3. CASE u \notin Users
        BY <1>1, <2>1, <4>1, <4>3, OneRowBacked
      <4> QED
        BY <4>2, <4>3
    <3>1. Exists(u) /\ DOMAIN account[u] = RowFields /\ RowBacked(u, account[u], trusted, signedIn)
      BY <1>1, <2>1, <2>4 DEF AccountsOK, Exists, RowsBacked
    <3>2. row = [account[u] EXCEPT !.verified = TRUE]
      BY <2>4
    <3> HIDE DEF row
    <3>3. /\ DOMAIN row = RowFields /\ row.email = account[u].email
          /\ row.apple = account[u].apple
      BY <3>1, <3>2 DEF RowFields
    <3>4. n.email = account[u].email /\ n.apple \in {account[u].apple, r.subject}
      BY <2>2, <3>3 DEF RowFields
    <3> HIDE DEF n
    <3>5. <<u, n.email>> \in trusted'
      BY <2>1, <2>2, <2>4, <3>4 DEF Backed
    <3>6. RowBacked(u, n, trusted', signedIn')
      BY <2>1, <2>2, <3>1, <3>4, <3>5 DEF RowBacked
    <3> HIDE DEF u
    <3> QED
      BY <1>1, <2>1, <3>1, <3>4, <3>6, OneRowBacked
  <2> QED
    BY <2>3, <2>4
<1>6. ASSUME NEW t \in Threads, VerifyMagicLink(t) \/ VerifyEmail(t)
      PROVE  RowsBacked' /\ EmailsStay
  <2> DEFINE u == req[t].user
             n == [account[u] EXCEPT !.verified = TRUE]
  <2>1. /\ account' = [account EXCEPT ![u] = n] /\ Exists(u)
        /\ signedIn \subseteq signedIn' /\ trusted' = trusted \cup {<<u, req[t].to>>}
        /\ req[t].op = "follow"
    BY <1>6 DEF VerifyMagicLink, VerifyEmail, SignIn
  <2>2. u \in Users => /\ Backed(u, req[t].to, account, trusted)
                       /\ DOMAIN account[u] = RowFields /\ RowBacked(u, account[u], trusted, signedIn)
    BY <1>1, <2>1 DEF VerifiedInv, AskBacked, AccountsOK, RowsBacked, Exists
  <2>3. u \in Users => n.email = account[u].email /\ n.apple = account[u].apple
    BY <2>2 DEF RowFields
  <2> HIDE DEF n
  <2>4. u \in Users => <<u, n.email>> \in trusted'
    BY <2>1, <2>2, <2>3 DEF Backed
  <2>5. u \in Users => RowBacked(u, n, trusted', signedIn')
    BY <2>1, <2>2, <2>3, <2>4 DEF RowBacked
  <2> HIDE DEF u
  <2> QED
    BY <1>1, <2>1, <2>3, <2>5, OneRowBacked
<1>7. ASSUME NEW t \in Threads, ResetPassword(t) PROVE RowsBacked' /\ EmailsStay
  <2> DEFINE u == req[t].user
             n == [account[u] EXCEPT !.password = TRUE]
  <2>1. /\ account' = [account EXCEPT ![u] = n] /\ Exists(u)
        /\ signedIn' = signedIn /\ trusted' = trusted
    BY <1>7 DEF ResetPassword
  <2>2. u \in Users => DOMAIN account[u] = RowFields /\ RowBacked(u, account[u], trusted, signedIn)
    BY <1>1, <2>1 DEF AccountsOK, RowsBacked, Exists
  <2>3. u \in Users => /\ n.email = account[u].email /\ n.apple = account[u].apple
                       /\ n.verified = account[u].verified
    BY <2>2 DEF RowFields
  <2> HIDE DEF n
  <2>4. u \in Users => RowBacked(u, n, trusted', signedIn')
    BY <2>1, <2>2, <2>3 DEF RowBacked
  <2> HIDE DEF u
  <2> QED
    BY <1>1, <2>1, <2>3, <2>4, OneRowBacked
<1>8. ASSUME NEW t \in Threads, UpdateUserCommit(t) PROVE RowsBacked' /\ EmailsStay
  <2> DEFINE u == req[t].user
             n == [account[u] EXCEPT !.email = req[t].email]
  <2>1. /\ account' = [account EXCEPT ![u] = n] /\ Exists(u)
        /\ signedIn' = signedIn /\ trusted' = trusted \cup {<<u, req[t].email>>}
    BY <1>8 DEF UpdateUserCommit
  <2>2. u \in Users => DOMAIN account[u] = RowFields /\ RowBacked(u, account[u], trusted, signedIn)
    BY <1>1, <2>1 DEF AccountsOK, RowsBacked, Exists
  <2>3. u \in Users => n.email = req[t].email /\ n.apple = account[u].apple
    BY <2>2 DEF RowFields
  <2> HIDE DEF n
  <2>4. u \in Users => <<u, n.email>> \in trusted' /\ RowBacked(u, n, trusted', signedIn')
    BY <2>1, <2>2, <2>3 DEF RowBacked
  <2> HIDE DEF u
  <2> QED
    BY <1>1, <2>1, <2>4, OneRowBacked
<1> QED
  BY <1>2, <1>3, <1>4, <1>5, <1>6, <1>7, <1>8, AccountFrame DEF AccountStep

\* Tokens keep their user, or lose it.
UsersKept == \A i \in DOMAIN token : /\ i \in DOMAIN token'
                                     /\ token'[i].user \in {token[i].user, NoUser}

LEMMA KeptUsers ==
  ASSUME TokensOK(token), NEW toks, Kept(token, toks)
  PROVE  /\ toks \in Seq(TokenRows) /\ Len(toks) = Len(token) /\ DOMAIN toks = DOMAIN token
         /\ \A i \in DOMAIN token : toks[i].user \in {token[i].user, NoUser}
BY DEF Kept, TokensOK

LEMMA AppendUsers ==
  ASSUME TokensOK(token), NEW toks, Kept(token, toks), NEW row, token' = Append(toks, row)
  PROVE  /\ UsersKept
         /\ Len(token) + 1 \in DOMAIN token' /\ token'[Len(token) + 1] = row
<1>1. /\ toks \in Seq(TokenRows) /\ Len(toks) = Len(token) /\ DOMAIN toks = DOMAIN token
      /\ \A i \in DOMAIN token : toks[i].user \in {token[i].user, NoUser}
  BY KeptUsers
<1>2. Len(toks) \in Nat /\ DOMAIN toks = 1..Len(toks) /\ toks \in Seq(TokenRows \cup {row})
  BY <1>1
<1>3. DOMAIN token' = 1..(Len(toks) + 1) /\ token'[Len(toks) + 1] = row
  BY <1>2
<1>4. \A i \in 1..Len(toks) : token'[i] = toks[i]
  BY <1>2
<1> QED
  BY <1>1, <1>2, <1>3, <1>4 DEF UsersKept

LEMMA UsersKeptOn ==
  ASSUME LinksInv, [Next]_vars
  PROVE  UsersKept
<1>1. TokensOK(token) /\ DOMAIN req = Threads
  BY DEF LinksInv
<1>2. ASSUME Kept(token, token') PROVE UsersKept
  BY <1>1, <1>2, KeptUsers DEF UsersKept
<1>3. CASE token' = token
  BY <1>3 DEF UsersKept
<1>4. CASE Leaves
  <2>1. PICK u \in Users :
          token' = [i \in DOMAIN token |->
                      IF token[i].user = u THEN [token[i] EXCEPT !.user = NoUser, !.used = TRUE]
                      ELSE token[i]]
    BY <1>4 DEF Leaves, DeleteAccount
  <2>2. DOMAIN token' = DOMAIN token
    BY <2>1
  <2>3. ASSUME NEW i \in DOMAIN token PROVE token'[i].user \in {token[i].user, NoUser}
    <3>1. token[i] \in TokenRows
      BY <1>1 DEF TokensOK
    <3> QED
      BY <2>1, <3>1 DEF TokenRows
  <2> QED
    BY <2>2, <2>3 DEF UsersKept
<1>5. ASSUME NEW t \in Threads, NEW mail \in BOOLEAN, IssueLink(t, mail) PROVE UsersKept
  <2> PICK k \in Updates(req[t]) :
        token' = Append(InvalidateTokens(token, req[t].user, req[t].purpose, k),
                        NewToken(req[t].user, req[t].purpose, req[t].seen))
    BY <1>5 DEF IssueLink
  <2>1. Kept(token, InvalidateTokens(token, req[t].user, req[t].purpose, k))
    BY <1>1, InvalidateKept
  <2> QED
    BY <1>1, <2>1, AppendUsers
<1>6. ASSUME NEW t \in Threads, NEW mail \in BOOLEAN, IssueVerification(t, mail) PROVE UsersKept
  <2>1. Kept(token, token)
    BY KeptSame
  <2>2. token' = Append(token, NewToken(req[t].user, "email_verify", req[t].seen))
    BY <1>6 DEF IssueVerification
  <2> QED
    BY <1>1, <2>1, <2>2, AppendUsers
<1>7. ASSUME NEW t \in Threads, ResendCommit(t) \/ ChangePasswordCommit(t) PROVE UsersKept
  <2> PICK p, k : token' = InvalidateTokens(token, req[t].user, p, k)
    BY <1>7 DEF ResendCommit, ChangePasswordCommit
  <2> QED
    BY <1>1, <1>2, InvalidateKept
<1>8. ASSUME NEW t \in Threads, VerifyMagicLink(t) \/ VerifyEmail(t) \/ ResetPassword(t)
      PROVE  UsersKept
  <2>1. AsksOK(req[t], token) /\ req[t].op = "follow"
    BY <1>8 DEF LinksInv, VerifyMagicLink, VerifyEmail, ResetPassword
  <2>2. req[t].link \in DOMAIN token
    BY <2>1 DEF AsksOK
  <2> DEFINE marked == MarkUsed(token, req[t].link)
  <2>3. Kept(token, marked)
    BY <1>1, <2>2, MarkUsedKept
  <2>4. TokensOK(marked)
    BY <1>1, <2>3, KeptOK
  <2>5. token' = marked \/ \E p, k : token' = InvalidateTokens(marked, req[t].user, p, k)
    BY <1>8 DEF VerifyMagicLink, VerifyEmail, ResetPassword
  <2> HIDE DEF marked
  <2>6. CASE token' = marked
    BY <1>2, <2>3, <2>6
  <2>7. ASSUME NEW p, NEW k, token' = InvalidateTokens(marked, req[t].user, p, k) PROVE UsersKept
    <3>1. Kept(marked, InvalidateTokens(marked, req[t].user, p, k))
      BY <2>4, InvalidateKept
    <3> QED
      BY <1>1, <1>2, <2>3, <2>7, <3>1, KeptTwice
  <2> QED
    BY <2>5, <2>6, <2>7
<1>9. ASSUME NEW t \in Threads,
             \/ RegisterCommit(t)
             \/ \E u \in Users, p \in Purposes : RequestLink(t, u, p)
             \/ \E u \in Users : ResendVerification(t, u)
             \/ \E i \in DOMAIN token, e \in Emails : FollowLink(t, i, e)
             \/ \E field \in {"google", "apple"}, s \in Subjects : SocialLogin(t, field, s)
      PROVE  token' = token
  BY <1>9 DEF RegisterCommit, RequestLink, ResendVerification, FollowLink, SocialLogin, accountVars
<1> QED
  BY <1>1, <1>3, <1>4, <1>5, <1>6, <1>7, <1>8, <1>9, LinksFrame DEF LinkStep

LEMMA MailFrame ==
  ASSUME [Next]_vars
  PROVE  \/ mailed' = mailed
         \/ \E t \in Threads, mail \in BOOLEAN : IssueLink(t, mail) \/ IssueVerification(t, mail)
<1>1. CASE UNCHANGED vars
  BY <1>1 DEF vars, accountVars
<1>2. CASE LibraryNext
  BY <1>2, LibraryFrame DEF accountVars
<1>3. ASSUME NEW t \in Threads, AccountsStep(t)
      PROVE  \/ mailed' = mailed
             \/ \E mail \in BOOLEAN : IssueLink(t, mail) \/ IssueVerification(t, mail)
  BY <1>3
  DEF AccountsStep, Register, RegisterCommit, SocialLogin, SocialCommit, RequestLink,
      ResendVerification, ResendCommit, FollowLink, VerifyMagicLink, VerifyEmail, ResetPassword,
      ChangePassword, ChangePasswordCommit, UpdateUser, UpdateUserCommit, Rollback, Clash,
      accountVars
<1>4. CASE Tick \/ Leaves
  BY <1>4 DEF Tick, Leaves, DeleteAccount, accountVars
<1>5. ASSUME NEW u \in Users, Login(u) PROVE mailed' = mailed
  BY <1>5 DEF Login
<1> QED
  BY <1>1, <1>2, <1>3, <1>4, <1>5 DEF Next, Leaves

LEMMA MailStep ==
  ASSUME LinksInv, LinksInv', VerifiedInv, EmailsStay, [Next]_vars
  PROVE  MailBacked'
<1>1. UsersKept /\ MailBacked
  BY UsersKeptOn DEF VerifiedInv
<1>2. ASSUME NEW m \in mailed
      PROVE  /\ m[1] \in DOMAIN token'
             /\ token'[m[1]].user \in Users => Backed(token'[m[1]].user, m[2], account', trusted')
  <2>1. m[1] \in DOMAIN token /\ m[1] \in DOMAIN token'
    BY <1>1 DEF MailBacked, UsersKept
  <2>2. PICK v : v = token'[m[1]].user
    OBVIOUS
  <2>3. ASSUME v \in Users PROVE Backed(v, m[2], account', trusted')
    <3>1. v = token[m[1]].user
      BY <1>1, <2>1, <2>2, <2>3, AccountsAssumption DEF UsersKept
    <3>2. Exists(v) /\ account'[v] # NoRow
      BY <2>1, <2>2, <2>3, <3>1 DEF LinksInv, Exists
    <3>3. v \in signedIn
      BY <2>3, <3>2 DEF VerifiedInv, RowsBacked, RowBacked
    <3>4. Backed(v, m[2], account, trusted)
      BY <1>1, <2>3, <3>1 DEF MailBacked
    <3> QED
      BY <2>3, <3>2, <3>3, <3>4, BackedOn
  <2> QED
    BY <2>1, <2>2, <2>3
<1>3. CASE mailed' = mailed
  BY <1>2, <1>3 DEF MailBacked
<1>4. ASSUME NEW u, NEW row, NEW toks, NEW mail \in BOOLEAN, Kept(token, toks),
             token' = Append(toks, row), row.user = u, Mail(u, mail),
             UNCHANGED <<account, trusted>>
      PROVE  MailBacked'
  <2>1. Len(token) + 1 \in DOMAIN token' /\ token'[Len(token) + 1] = row
    BY <1>4, AppendUsers DEF LinksInv
  <2>2. PICK new : new = <<Len(token) + 1, account[u].email>>
    OBVIOUS
  <2>3. \A m \in mailed' : m \in mailed \/ m = new
    BY <1>4, <2>2 DEF Mail
  <2>4. /\ new[1] \in DOMAIN token'
        /\ Backed(token'[new[1]].user, new[2], account', trusted')
    BY <1>4, <2>1, <2>2 DEF Backed
  <2> QED
    BY <1>2, <2>3, <2>4 DEF MailBacked
<1>5. ASSUME NEW t \in Threads, NEW mail \in BOOLEAN, IssueLink(t, mail) PROVE MailBacked'
  <2> DEFINE r == req[t]
  <2> PICK k \in Updates(r) :
        token' = Append(InvalidateTokens(token, r.user, r.purpose, k),
                        NewToken(r.user, r.purpose, r.seen))
    BY <1>5 DEF IssueLink
  <2>1. Kept(token, InvalidateTokens(token, r.user, r.purpose, k))
    BY InvalidateKept DEF LinksInv
  <2>2. NewToken(r.user, r.purpose, r.seen).user = r.user
    BY DEF NewToken, TokenRow
  <2>3. Mail(r.user, mail) /\ UNCHANGED <<account, trusted>>
    BY <1>5 DEF IssueLink
  <2> HIDE DEF r
  <2> QED
    BY <1>4, <2>1, <2>2, <2>3
<1>6. ASSUME NEW t \in Threads, NEW mail \in BOOLEAN, IssueVerification(t, mail) PROVE MailBacked'
  <2> DEFINE r == req[t]
  <2>1. Kept(token, token)
    BY KeptSame
  <2>2. NewToken(r.user, "email_verify", r.seen).user = r.user
    BY DEF NewToken, TokenRow
  <2>3. /\ token' = Append(token, NewToken(r.user, "email_verify", r.seen))
        /\ Mail(r.user, mail) /\ UNCHANGED <<account, trusted>>
    BY <1>6 DEF IssueVerification
  <2> HIDE DEF r
  <2> QED
    BY <1>4, <2>1, <2>2, <2>3
<1> QED
  BY <1>3, <1>5, <1>6, MailFrame

\* One thread's request changes, to one that knows no more than it should.
LEMMA OneAskBacked ==
  ASSUME VerifiedInv, EmailsStay, DOMAIN req = Threads, NEW t \in Threads, NEW r,
         req' = [req EXCEPT ![t] = r], AskBacked(r, account', trusted', signedIn')
  PROVE  \A s \in Threads : AskBacked(req'[s], account', trusted', signedIn')
<1> SUFFICES ASSUME NEW s \in Threads PROVE AskBacked(req'[s], account', trusted', signedIn')
  OBVIOUS
<1>1. CASE s = t
  BY <1>1
<1>2. CASE s # t
  <2>1. AskBacked(req[s], account, trusted, signedIn) /\ req'[s] = req[s]
    BY <1>2 DEF VerifiedInv
  <2> QED
    BY <2>1, AskBackedOn
<1> QED
  BY <1>1, <1>2

LEMMA AsksBackedStep ==
  ASSUME LinksInv, VerifiedInv, EmailsStay, [Next]_vars
  PROVE  \A s \in Threads : AskBacked(req'[s], account', trusted', signedIn')
<1>1. DOMAIN req = Threads /\ RowsBacked /\ MailBacked
  BY DEF LinksInv, VerifiedInv
<1>2. CASE OthersMove
  <2> SUFFICES ASSUME NEW s \in Threads PROVE AskBacked(req'[s], account', trusted', signedIn')
    OBVIOUS
  <2>1. CASE req'[s] = req[s]
    BY <2>1, AskBackedOn DEF VerifiedInv
  <2>2. CASE ~Asks(req'[s])
    BY <2>2, NoAskBacked DEF Asks
  <2> QED
    BY <1>2, <2>1, <2>2 DEF OthersMove
<1>3. CASE Leaves
  <2>1. req' = req
    BY <1>3 DEF Leaves, DeleteAccount
  <2> QED
    BY <2>1, AskBackedOn DEF VerifiedInv
<1>4. ASSUME NEW t \in Threads, NEW r, r.op \notin {"follow", "social"},
             req' = [req EXCEPT ![t] = r]
      PROVE  \A s \in Threads : AskBacked(req'[s], account', trusted', signedIn')
  BY <1>1, <1>4, NoAskBacked, OneAskBacked
<1>5. ASSUME NEW t \in Threads,
             \/ \E out \in BOOLEAN : IssueLink(t, out) \/ IssueVerification(t, out)
             \/ VerifyMagicLink(t) \/ VerifyEmail(t) \/ ResetPassword(t) \/ ChangePasswordCommit(t)
      PROVE  \A s \in Threads : AskBacked(req'[s], account', trusted', signedIn')
  <2>1. req' = [req EXCEPT ![t] = Idle]
    BY <1>5 DEF IssueLink, IssueVerification, VerifyMagicLink, VerifyEmail, ResetPassword,
                ChangePasswordCommit, Answer
  <2>2. Idle.op \notin {"follow", "social"}
    BY DEF Idle
  <2> QED
    BY <1>4, <2>1, <2>2
<1>6. ASSUME NEW t \in Threads, RegisterCommit(t) \/ ResendCommit(t)
      PROVE  \A s \in Threads : AskBacked(req'[s], account', trusted', signedIn')
  <2>1. PICK u, seen : req' = [req EXCEPT ![t] = [op |-> "issue", user |-> u, seen |-> seen]]
    BY <1>6 DEF RegisterCommit, ResendCommit, Continue
  <2> QED
    BY <1>4, <2>1
<1>7. ASSUME NEW t \in Threads, NEW u \in Users,
             ResendVerification(t, u) \/ \E p \in Purposes : RequestLink(t, u, p)
      PROVE  \A s \in Threads : AskBacked(req'[s], account', trusted', signedIn')
  <2>1. ASSUME NEW r, r.op \notin {"follow", "social"}, Begin(t, r)
        PROVE  \A s \in Threads : AskBacked(req'[s], account', trusted', signedIn')
    BY <1>4, <2>1 DEF Begin
  <2>2. CASE ResendVerification(t, u)
    <3>1. PICK r : r = [op |-> "resend", user |-> u, seen |-> Len(token)]
      OBVIOUS
    <3> QED
      BY <2>1, <2>2, <3>1 DEF ResendVerification
  <2>3. ASSUME NEW p \in Purposes, RequestLink(t, u, p)
        PROVE  \A s \in Threads : AskBacked(req'[s], account', trusted', signedIn')
    <3>1. PICK r : r = [op |-> "link", user |-> u, purpose |-> p, seen |-> Len(token)]
      OBVIOUS
    <3> QED
      BY <2>1, <2>3, <3>1 DEF RequestLink
  <2> QED
    BY <1>7, <2>2, <2>3
<1>8. ASSUME NEW t \in Threads, NEW i \in DOMAIN token, NEW e \in Emails, FollowLink(t, i, e)
      PROVE  \A s \in Threads : AskBacked(req'[s], account', trusted', signedIn')
  <2> DEFINE r == [op |-> "follow", user |-> token[i].user, link |-> i, to |-> e,
                   seen |-> Len(token)]
  <2>1. /\ req' = [req EXCEPT ![t] = r] /\ <<i, e>> \in mailed /\ Exists(token[i].user)
        /\ UNCHANGED <<account, trusted, signedIn>>
    BY <1>8 DEF FollowLink, Begin, accountVars
  <2>2. token[i].user \in Users
    <3>1. token \in Seq(TokenRows) /\ i \in DOMAIN token
      BY DEF LinksInv, TokensOK
    <3>2. token[i] \in TokenRows
      BY <3>1
    <3>3. token[i].user \in Users \cup {NoUser} /\ (token[i].user = NoUser => token[i].used)
      BY <3>1, <3>2 DEF LinksInv, TokensOK, TokenRows
    <3>4. ~token[i].used
      BY <1>8 DEF FollowLink, IsValid
    <3> QED
      BY <3>3, <3>4
  <2>3. token[i].user \in signedIn
    BY <1>1, <2>1, <2>2 DEF RowsBacked, RowBacked
  <2>4. Backed(token[i].user, e, account, trusted)
    <3>1. PICK m : m = <<i, e>>
      OBVIOUS
    <3>2. m \in mailed /\ m[1] = i /\ m[2] = e
      BY <2>1, <3>1
    <3> QED
      BY <1>1, <2>2, <3>2 DEF MailBacked
  <2>5. AskBacked(r, account', trusted', signedIn')
    BY <2>1, <2>3, <2>4 DEF AskBacked
  <2> HIDE DEF r
  <2> QED
    BY <1>1, <2>1, <2>5, OneAskBacked
<1>9. ASSUME NEW t \in Threads, NEW field \in {"google", "apple"}, NEW x \in Subjects,
             SocialLogin(t, field, x)
      PROVE  \A s \in Threads : AskBacked(req'[s], account', trusted', signedIn')
  <2> DEFINE byApple == field = "apple" /\ BySubject("apple", x) # {}
             known == IF byApple THEN BySubject("apple", x) ELSE ByEmail(SubjectEmail[x])
             user  == IF known = {} THEN NoUser ELSE CHOOSE u \in known : TRUE
  <2>1. PICK link :
          Begin(t, [op |-> "social", field |-> field, subject |-> x, user |-> user,
                    new |-> known = {}, link |-> link])
    BY <1>9 DEF SocialLogin
  <2> DEFINE r == [op |-> "social", field |-> field, subject |-> x, user |-> user,
                   new |-> known = {}, link |-> link]
  <2>2. req' = [req EXCEPT ![t] = r] /\ UNCHANGED <<account, trusted, signedIn>>
    BY <1>9, <2>1 DEF SocialLogin, Begin, accountVars
  <2>3. ASSUME known # {} PROVE user \in signedIn /\ Backed(user, SubjectEmail[x], account, trusted)
    <3>1. user \in known
      BY <2>3
    <3>2. CASE byApple
      <4>1. user \in Users /\ Exists(user) /\ account[user].apple = x
        BY <3>1, <3>2 DEF BySubject
      <4> HIDE DEF user, known, byApple
      <4> QED
        BY <1>1, <4>1, AccountsAssumption DEF RowsBacked, RowBacked, Backed
    <3>3. CASE ~byApple
      <4>1. user \in Users /\ Exists(user) /\ account[user].email = SubjectEmail[x]
        BY <3>1, <3>3 DEF ByEmail
      <4> HIDE DEF user, known, byApple
      <4> QED
        BY <1>1, <4>1 DEF RowsBacked, RowBacked, Backed
    <3> QED
      BY <3>2, <3>3
  <2> HIDE DEF user, known, byApple
  <2>4. AskBacked(r, account', trusted', signedIn')
    BY <2>2, <2>3 DEF AskBacked
  <2> HIDE DEF r
  <2> QED
    BY <1>1, <2>2, <2>4, OneAskBacked
<1> QED
  BY <1>1, <1>2, <1>3, <1>5, <1>6, <1>7, <1>8, <1>9, LinksFrame DEF LinkStep

LEMMA VerifiedStep ==
  ASSUME LinksInv, VerifiedInv, [Next]_vars
  PROVE  VerifiedInv'
<1>1. LinksInv'
  BY LinksStep
<1>2. RowsBacked' /\ EmailsStay
  BY RowsStep DEF LinksInv
<1>3. MailBacked'
  BY <1>1, <1>2, MailStep
<1>4. \A s \in Threads : AskBacked(req'[s], account', trusted', signedIn')
  BY <1>2, AsksBackedStep
<1> QED
  BY <1>2, <1>3, <1>4 DEF VerifiedInv

LEMMA VerifiedInit == Init => VerifiedInv
<1> SUFFICES ASSUME Init PROVE VerifiedInv
  OBVIOUS
<1>1. /\ account = [u \in Users |-> NoRow] /\ mailed = {}
      /\ req = [t \in Threads |-> Idle]
  BY DEF Init, AccountsInit
<1>2. \A t \in Threads : AskBacked(req[t], account, trusted, signedIn)
  BY <1>1, NoAskBacked DEF Idle
<1> QED
  BY <1>1, <1>2 DEF VerifiedInv, RowsBacked, MailBacked, Exists

\* The address of a verified account is one a link mailed to it was followed from for
\* this account, one a provider reported for it, or one its owner wrote in later, which
\* the code takes on trust: for any number of accounts and requests in progress.
THEOREM VerifiedIsProven == RegistrySpec => []VerifiedForAReason
<1>1. RegistryInit => LinksInv /\ VerifiedInv
  BY RegistryIsApi, LinksInit, VerifiedInit
<1>2. LinksInv /\ VerifiedInv /\ [RegistryNext]_<<vars, directoryVars, channelVars>>
        => LinksInv' /\ VerifiedInv'
  BY RegistryIsApi, LinksStep, VerifiedStep
<1>3. VerifiedInv => VerifiedForAReason
  BY DEF VerifiedInv, RowsBacked, RowBacked, VerifiedForAReason
<1> QED
  BY <1>1, <1>2, <1>3, PTL DEF RegistrySpec

(***************************************************************************)
(* The inbox.                                                              *)
(***************************************************************************)

Keys == signedIn

StateRows == [mark : Int, muted : BOOLEAN]
ListRows  == [owner : Users \cup {NoUser}, companies : SUBSET Companies]

\* A read state lies between the time its company was first added and now.
RowOK(row, added, n) ==
  /\ -1 <= added /\ added <= n
  /\ row # NoState => added # Never /\ added <= row.mark /\ row.mark <= n

\* What a request in progress knows of the rows it read.
ReaderAskOK(r, s, f, n, a, k) ==
  /\ r.op \in {"add", "read", "mute"} => r.user \in Users /\ r.user \in k
  /\ r.op = "add" => r.company \in Companies /\ r.at \in Nat /\ r.at <= n
  /\ r.op \in {"read", "mute"} =>
       \A c \in r.companies : /\ c \in Companies
                              /\ a[r.user] # NoRow => s[r.user][c] # NoState
  /\ r.op = "mute" => r.muted \in BOOLEAN
  /\ r.op = "read" =>
       /\ r.at \in Nat /\ r.at <= n
       /\ \A c \in r.companies : /\ f[r.user][c] # Never /\ f[r.user][c] <= r.at
                                 /\ r.floor[c] <= r.at

FollowedHaveState ==
  \A l \in DOMAIN list : list[l].owner \in Users =>
    \A c \in list[l].companies : state[list[l].owner][c] # NoState

InboxInv ==
  /\ AccountsOK
  /\ now \in Nat /\ DOMAIN req = Threads
  /\ state \in [Users -> [Companies -> StateRows]]
  /\ first \in [Users -> [Companies -> Int]]
  /\ story \in [Companies -> SUBSET Int]
  /\ list \in Seq(ListRows)
  /\ FollowedHaveState
  /\ \A u \in Users, c \in Companies :
       /\ RowOK(state[u][c], first[u][c], now)
       /\ Exists(u) /\ first[u][c] # Never => state[u][c] # NoState
       /\ Exists(u) \/ first[u][c] # Never => u \in Keys
  /\ \A t \in Threads : ReaderAskOK(req[t], state, first, now, account, Keys)

\* What a step may do to the read state of a company: leave it alone, begin it when
\* the company is first added, read it, mute it, delete it with its account.
Added(u, c) ==
  /\ u \in Keys /\ state[u][c] = NoState /\ first[u][c] = Never
  /\ first'[u][c] \in Nat /\ first'[u][c] <= now
  /\ state'[u][c] = StateRow(first'[u][c], FALSE)

Read(u, c) ==
  /\ state[u][c] # NoState /\ first'[u][c] = first[u][c]
  /\ \E t \in Threads :
       /\ req[t].op = "read" /\ req[t].user = u /\ c \in req[t].companies /\ req'[t] = Idle
       /\ req[t].floor[c] <= req[t].at /\ first[u][c] <= req[t].at /\ req[t].at <= now
       /\ req[t].at \in Nat
       /\ state'[u][c] = StateRow(req[t].at, state[u][c].muted)

Muted(u, c) ==
  /\ state[u][c] # NoState /\ first'[u][c] = first[u][c]
  /\ \E muted \in BOOLEAN : state'[u][c] = StateRow(state[u][c].mark, muted)

Deleted(u, c) ==
  state'[u][c] = NoState /\ account'[u] = NoRow /\ first'[u][c] = first[u][c]

RowMoves(u, c) ==
  \/ state'[u][c] = state[u][c] /\ first'[u][c] = first[u][c]
  \/ Added(u, c) \/ Read(u, c) \/ Muted(u, c) \/ Deleted(u, c)

InboxMoves ==
  /\ now' \in Nat /\ now <= now'
  /\ Keys \subseteq Keys'
  /\ \A u \in Users :
       account'[u] # NoRow => Exists(u) \/ (u \notin Keys /\ u \in Keys')
  /\ \A u \in Users, c \in Companies : RowMoves(u, c)
  /\ state' = [u \in Users |-> state'[u]] /\ first' = [u \in Users |-> first'[u]]
  /\ \A u \in Users : /\ state'[u] = [c \in Companies |-> state'[u][c]]
                      /\ first'[u] = [c \in Companies |-> first'[u][c]]

LEMMA StateRowFacts ==
  NoState \in StateRows /\ NoState.mark = -2 /\ Never = -1
BY DEF NoState, StateRow, StateRows, Never

LEMMA RowGoesOn ==
  ASSUME InboxInv, InboxMoves, NEW u \in Users, NEW c \in Companies
  PROVE  /\ state'[u][c] \in StateRows /\ first'[u][c] \in Int
         /\ RowOK(state'[u][c], first'[u][c], now')
         /\ first[u][c] # Never => first'[u][c] = first[u][c]
         /\ state[u][c] # NoState => state'[u][c] # NoState \/ account'[u] = NoRow
         /\ first'[u][c] # Never => first[u][c] # Never \/ u \in Keys
         /\ account'[u] # NoRow /\ first'[u][c] # Never => state'[u][c] # NoState
<1> DEFINE r == state[u][c]
           f == first[u][c]
           s == state'[u][c]
           g == first'[u][c]
<1>1. /\ r \in StateRows /\ f \in Int /\ now \in Nat /\ now' \in Nat /\ now <= now'
      /\ -1 <= f /\ f <= now
      /\ r # NoState => f # Never /\ f <= r.mark /\ r.mark <= now
      /\ account[u] # NoRow /\ f # Never => r # NoState
      /\ f # Never => u \in Keys
      /\ account'[u] # NoRow => account[u] # NoRow \/ u \notin Keys
  BY DEF InboxInv, InboxMoves, RowOK, Exists
<1>2. r.mark \in Int /\ r.muted \in BOOLEAN
  BY <1>1 DEF StateRows
<1> SUFFICES /\ s \in StateRows /\ g \in Int
             /\ -1 <= g /\ g <= now'
             /\ s # NoState => g # Never /\ g <= s.mark /\ s.mark <= now'
             /\ f # Never => g = f
             /\ r # NoState => s # NoState \/ account'[u] = NoRow
             /\ g # Never => f # Never \/ u \in Keys
             /\ account'[u] # NoRow /\ g # Never => s # NoState
  BY DEF RowOK
<1>3. RowMoves(u, c)
  BY DEF InboxMoves
<1>4. CASE s = r /\ g = f
  <2> HIDE DEF r, f, s, g
  <2>1. r # NoState => r.mark <= now'
    BY <1>1, <1>2
  <2> QED
    BY <1>1, <1>2, <1>4, <2>1
<1>5. CASE Added(u, c)
  <2>1. g \in Nat /\ g <= now /\ u \in Keys /\ r = NoState /\ f = Never /\ s = StateRow(g, FALSE)
    BY <1>5 DEF Added
  <2> HIDE DEF r, f, s, g
  <2>2. g \in Int /\ g # -2 /\ FALSE \in BOOLEAN
    BY <2>1
  <2>3. s \in StateRows /\ s.mark = g /\ s # NoState /\ g # Never
    BY <2>1, <2>2 DEF StateRow, StateRows, NoState, Never
  <2>4. g \in Int /\ -1 <= g /\ g <= now'
    <3>1. now \in Nat /\ now' \in Nat /\ now <= now'
      BY <1>1
    <3> QED
      BY <2>1, <3>1
  <2>5. g <= s.mark /\ s.mark <= now'
    BY <2>3, <2>4
  <2> QED
    BY <2>1, <2>3, <2>4, <2>5
<1>6. CASE Read(u, c)
  <2>1. PICK t \in Threads : /\ req[t].at \in Nat /\ f <= req[t].at /\ req[t].at <= now
                             /\ s = StateRow(req[t].at, r.muted)
    BY <1>6 DEF Read
  <2> DEFINE m == req[t].at
  <2>2. r # NoState /\ g = f
    BY <1>6 DEF Read
  <2>3. m \in Nat /\ f <= m /\ m <= now /\ s = StateRow(m, r.muted)
    BY <2>1
  <2> HIDE DEF m, r, f, s, g
  <2>4. m \in Int /\ m # -2
    BY <2>3
  <2>5. s \in StateRows /\ s.mark = m /\ s # NoState
    BY <1>2, <2>3, <2>4 DEF StateRow, StateRows, NoState
  <2> QED
    BY <1>1, <2>2, <2>3, <2>5
<1>7. CASE Muted(u, c)
  <2>1. PICK b \in BOOLEAN : s = StateRow(r.mark, b)
    BY <1>7 DEF Muted
  <2>2. r # NoState /\ g = f
    BY <1>7 DEF Muted
  <2> HIDE DEF r, f, s, g
  <2>3. r.mark # -2
    BY <1>1, <1>2, <2>2
  <2>4. s \in StateRows /\ s.mark = r.mark /\ s # NoState
    BY <1>2, <2>1, <2>3 DEF StateRow, StateRows, NoState
  <2> QED
    BY <1>1, <1>2, <2>2, <2>4
<1>8. CASE Deleted(u, c)
  <2>1. s = NoState /\ account'[u] = NoRow /\ g = f
    BY <1>8 DEF Deleted
  <2> HIDE DEF r, f, s, g
  <2> QED
    BY <1>1, <2>1, StateRowFacts
<1> QED
  BY <1>3, <1>4, <1>5, <1>6, <1>7, <1>8 DEF RowMoves

LEMMA AskGoesOn ==
  ASSUME InboxInv, InboxMoves, NEW r, ReaderAskOK(r, state, first, now, account, Keys)
  PROVE  ReaderAskOK(r, state', first', now', account', Keys')
<1>1. now \in Nat /\ now' \in Nat /\ now <= now' /\ Keys \subseteq Keys'
  BY DEF InboxInv, InboxMoves
<1>2. r.op \in {"add", "read", "mute"} =>
        /\ r.user \in Users /\ r.user \in Keys
        /\ account'[r.user] # NoRow => account[r.user] # NoRow
  BY DEF ReaderAskOK, InboxMoves, Exists
<1>3. ASSUME r.op \in {"read", "mute"}, NEW c \in r.companies
      PROVE  c \in Companies /\ (account'[r.user] # NoRow => state'[r.user][c] # NoState)
  BY <1>2, <1>3, RowGoesOn DEF ReaderAskOK
<1>4. ASSUME r.op = "read", NEW c \in r.companies
      PROVE  first'[r.user][c] # Never /\ first'[r.user][c] <= r.at /\ r.floor[c] <= r.at
  BY <1>2, <1>4, RowGoesOn DEF ReaderAskOK
<1>5. r.op \in {"add", "read"} => r.at \in Nat /\ r.at <= now'
  BY <1>1 DEF ReaderAskOK
<1> QED
  BY <1>1, <1>2, <1>3, <1>4, <1>5 DEF ReaderAskOK

LEMMA InboxOn ==
  ASSUME InboxInv, InboxMoves, AccountsOK', DOMAIN req' = Threads,
         story' \in [Companies -> SUBSET Int], list' \in Seq(ListRows), FollowedHaveState',
         \A t \in Threads : ReaderAskOK(req'[t], state, first, now, account, Keys)
  PROVE  InboxInv'
<1>1. state' \in [Users -> [Companies -> StateRows]] /\ first' \in [Users -> [Companies -> Int]]
  <2>1. ASSUME NEW u \in Users
        PROVE  state'[u] \in [Companies -> StateRows] /\ first'[u] \in [Companies -> Int]
    BY RowGoesOn DEF InboxMoves
  <2>2. state' = [u \in Users |-> state'[u]] /\ first' = [u \in Users |-> first'[u]]
    BY DEF InboxMoves
  <2> QED
    BY <2>1, <2>2
<1>2. ASSUME NEW u \in Users, NEW c \in Companies
      PROVE  /\ RowOK(state'[u][c], first'[u][c], now')
             /\ account'[u] # NoRow /\ first'[u][c] # Never => state'[u][c] # NoState
             /\ account'[u] # NoRow \/ first'[u][c] # Never => u \in Keys'
  <2>1. Exists(u) \/ first[u][c] # Never => u \in Keys
    BY DEF InboxInv
  <2>2. account'[u] # NoRow \/ first'[u][c] # Never => u \in Keys'
    BY <2>1, RowGoesOn DEF InboxMoves
  <2> QED
    BY <2>2, RowGoesOn
<1>3. \A t \in Threads : ReaderAskOK(req'[t], state', first', now', account', Keys')
  BY AskGoesOn
<1> QED
  BY <1>1, <1>2, <1>3 DEF InboxInv, InboxMoves, Exists

ReaderAsks(r) == r.op \in {"add", "read", "mute"}

LEMMA NoReaderAskOK ==
  ASSUME NEW r, NEW s, NEW f, NEW n, NEW a, NEW k, ~ReaderAsks(r)
  PROVE  ReaderAskOK(r, s, f, n, a, k)
BY DEF ReaderAsks, ReaderAskOK

\* Every other request than these comes and goes without a word on the inbox.
SilentMove == \A t \in Threads : req'[t] = req[t] \/ ~ReaderAsks(req'[t])

LEMMA AccountsSilent ==
  ASSUME DOMAIN req = Threads, NEW t \in Threads, AccountsStep(t)
  PROVE  now' = now /\ DOMAIN req' = Threads /\ SilentMove
<1>1. ASSUME NEW r, req' = [req EXCEPT ![t] = r], ~ReaderAsks(r), now' = now
      PROVE  now' = now /\ DOMAIN req' = Threads /\ SilentMove
  BY <1>1 DEF SilentMove
<1>2. ASSUME NEW r, r.op \notin {"add", "read", "mute"}, Begin(t, r) \/ Continue(t, r)
      PROVE  now' = now /\ DOMAIN req' = Threads /\ SilentMove
  <2>1. ~ReaderAsks(r) /\ req' = [req EXCEPT ![t] = r] /\ now' = now
    BY <1>2 DEF Begin, Continue, ReaderAsks
  <2> QED
    BY <1>1, <2>1
<1>3. ASSUME NEW e, Register(t, e)
      PROVE  now' = now /\ DOMAIN req' = Threads /\ SilentMove
  BY <1>2, <1>3 DEF Register
<1>4. ASSUME NEW field, NEW s, SocialLogin(t, field, s)
      PROVE  now' = now /\ DOMAIN req' = Threads /\ SilentMove
  <2>1. PICK user, new, link :
          Begin(t, [op |-> "social", field |-> field, subject |-> s, user |-> user,
                    new |-> new, link |-> link])
    BY <1>4 DEF SocialLogin
  <2> DEFINE r == [op |-> "social", field |-> field, subject |-> s, user |-> user,
                   new |-> new, link |-> link]
  <2>2. r.op \notin {"add", "read", "mute"} /\ Begin(t, r)
    BY <2>1
  <2> HIDE DEF r
  <2> QED
    BY <1>2, <2>2
<1>5. ASSUME NEW u, \/ \E p : RequestLink(t, u, p)
                    \/ ResendVerification(t, u) \/ ChangePassword(t, u)
      PROVE  now' = now /\ DOMAIN req' = Threads /\ SilentMove
  BY <1>2, <1>5 DEF RequestLink, ResendVerification, ChangePassword
<1>6. ASSUME NEW u, NEW e, UpdateUser(t, u, e)
      PROVE  now' = now /\ DOMAIN req' = Threads /\ SilentMove
  BY <1>2, <1>6 DEF UpdateUser
<1>7. ASSUME NEW i, NEW e, FollowLink(t, i, e)
      PROVE  now' = now /\ DOMAIN req' = Threads /\ SilentMove
  BY <1>2, <1>7 DEF FollowLink
<1>8. CASE RegisterCommit(t) \/ ResendCommit(t)
  BY <1>2, <1>8 DEF RegisterCommit, ResendCommit
<1>9. CASE \/ SocialCommit(t) \/ VerifyMagicLink(t) \/ VerifyEmail(t) \/ ResetPassword(t)
           \/ ChangePasswordCommit(t) \/ UpdateUserCommit(t) \/ Rollback(t) \/ Clash(t)
           \/ \E mail : IssueLink(t, mail) \/ IssueVerification(t, mail)
  <2>1. req' = [req EXCEPT ![t] = Idle] /\ now' = now
    BY <1>9 DEF SocialCommit, VerifyMagicLink, VerifyEmail, ResetPassword,
                ChangePasswordCommit, UpdateUserCommit, Rollback, Clash, IssueLink,
                IssueVerification, Answer
  <2>2. ~ReaderAsks(Idle)
    BY DEF ReaderAsks, Idle
  <2> QED
    BY <1>1, <2>1, <2>2
<1> QED
  BY <1>3, <1>4, <1>5, <1>6, <1>7, <1>8, <1>9 DEF AccountsStep

\* A step that leaves the library alone.
LEMMA QuietStep ==
  ASSUME InboxInv, AccountsMove, AccountsOK', UNCHANGED libraryVars,
         now' \in {now, now + 1}, DOMAIN req' = Threads, SilentMove
  PROVE  InboxInv' /\ InboxMoves
<1>1. now \in Nat /\ now' \in Nat /\ now <= now'
  BY DEF InboxInv
<1>2. UNCHANGED <<list, state, story, first>>
  BY DEF libraryVars
<1>3. Keys \subseteq Keys'
  BY DEF AccountsMove, Keys
<1>4. ASSUME NEW u \in Users, account'[u] # NoRow
      PROVE  Exists(u) \/ (u \notin Keys /\ u \in Keys')
  BY <1>4 DEF AccountsMove, AccountMoves, Exists, Keys
<1>5. \A u \in Users, c \in Companies : RowMoves(u, c)
  BY <1>2 DEF RowMoves
<1>6. /\ state' = [u \in Users |-> state'[u]] /\ first' = [u \in Users |-> first'[u]]
      /\ \A u \in Users : /\ state'[u] = [c \in Companies |-> state'[u][c]]
                          /\ first'[u] = [c \in Companies |-> first'[u][c]]
  BY <1>2 DEF InboxInv
<1>7. InboxMoves
  BY <1>1, <1>3, <1>4, <1>5, <1>6 DEF InboxMoves
<1>8. story' \in [Companies -> SUBSET Int] /\ list' \in Seq(ListRows) /\ FollowedHaveState'
  BY <1>2 DEF InboxInv, FollowedHaveState
<1>9. ASSUME NEW s \in Threads
      PROVE  ReaderAskOK(req'[s], state, first, now, account, Keys)
  BY NoReaderAskOK DEF SilentMove, InboxInv
<1> QED
  BY <1>7, <1>8, <1>9, InboxOn

LEMMA LeavesInbox == ASSUME InboxInv, AccountsOK', Leaves PROVE InboxInv' /\ InboxMoves
<1> PICK u \in Users : DeleteAccount(u) /\ Cascade(u)
  BY DEF Leaves
<1> DEFINE n == Len(list)
<1>1. /\ account' = [account EXCEPT ![u] = NoRow]
      /\ UNCHANGED <<signedIn, now, req, story, first>>
      /\ list' = [l \in DOMAIN list |->
                   IF list[l].owner = u THEN ListRow(NoUser, {}) ELSE list[l]]
      /\ state' = [state EXCEPT ![u] = [c \in Companies |-> NoState]]
  BY DEF DeleteAccount, Cascade
<1>2. n \in Nat /\ DOMAIN list = 1..n /\ \A l \in 1..n : list[l] \in ListRows
  BY DEF InboxInv
<1>3. now \in Nat /\ now' \in Nat /\ now <= now' /\ Keys' = Keys
  BY <1>1 DEF InboxInv, Keys
<1>4. \A v \in Users : account'[v] # NoRow => Exists(v)
  BY <1>1 DEF InboxInv, AccountsOK, Exists
<1>5. ASSUME NEW v \in Users, NEW c \in Companies PROVE RowMoves(v, c)
  <2>1. CASE v = u
    BY <1>1, <2>1 DEF InboxInv, AccountsOK, RowMoves, Deleted
  <2>2. CASE v # u
    BY <1>1, <2>2 DEF InboxInv, RowMoves
  <2> QED
    BY <2>1, <2>2
<1>6. /\ state' = [v \in Users |-> state'[v]] /\ first' = [v \in Users |-> first'[v]]
      /\ \A v \in Users : /\ state'[v] = [c \in Companies |-> state'[v][c]]
                          /\ first'[v] = [c \in Companies |-> first'[v][c]]
  BY <1>1 DEF InboxInv
<1>7. InboxMoves
  BY <1>3, <1>4, <1>5, <1>6 DEF InboxMoves
<1>8. ASSUME NEW l \in 1..n
      PROVE  /\ list'[l] \in ListRows
             /\ list'[l] = list[l] \/ list'[l].owner = NoUser
             /\ list'[l].owner # u
  BY <1>1, <1>2, AccountsAssumption DEF ListRow, ListRows
<1>9. list' \in Seq(ListRows) /\ DOMAIN list' = 1..n
  <2>1. list' \in [1..n -> ListRows]
    BY <1>1, <1>2, <1>8
  <2> QED
    BY <1>2, <2>1, IsSequence
<1>10. ASSUME NEW l \in DOMAIN list', list'[l].owner \in Users, NEW c \in list'[l].companies
       PROVE  state'[list'[l].owner][c] # NoState
  <2>1. list'[l] = list[l] /\ list[l].owner # u
    BY <1>8, <1>9, <1>10, AccountsAssumption
  <2>2. state[list[l].owner][c] # NoState
    BY <1>2, <1>9, <1>10, <2>1 DEF InboxInv, FollowedHaveState
  <2> QED
    BY <1>1, <1>10, <2>1, <2>2 DEF InboxInv
<1>11. FollowedHaveState'
  BY <1>10 DEF FollowedHaveState
<1>12. DOMAIN req' = Threads /\ story' \in [Companies -> SUBSET Int]
  BY <1>1 DEF InboxInv
<1>13. \A t \in Threads : ReaderAskOK(req'[t], state, first, now, account, Keys)
  BY <1>1 DEF InboxInv
<1> QED
  BY <1>7, <1>9, <1>11, <1>12, <1>13, InboxOn

\* What a request of the library may do to a read state.
RowServed(u, c) ==
  \/ state'[u][c] = state[u][c] /\ first'[u][c] = first[u][c]
  \/ Added(u, c) \/ Read(u, c) \/ Muted(u, c)

LEMMA ServedStays ==
  ASSUME InboxInv, NEW u \in Users, NEW c \in Companies, RowServed(u, c), state[u][c] # NoState
  PROVE  state'[u][c] # NoState
<1> DEFINE r == state[u][c]
<1>1. r.mark \in Int /\ r.mark # -2
  <2>1. r \in StateRows /\ first[u][c] \in Int /\ -1 <= first[u][c] /\ first[u][c] <= r.mark
    BY DEF InboxInv, RowOK
  <2> QED
    BY <2>1 DEF StateRows
<1>2. CASE Read(u, c)
  <2>1. PICK t \in Threads : req[t].at \in Nat /\ state'[u][c] = StateRow(req[t].at, r.muted)
    BY <1>2 DEF Read
  <2> DEFINE m == req[t].at
  <2>2. m # -2
    BY <2>1
  <2> HIDE DEF m
  <2> QED
    BY <2>1, <2>2 DEF StateRow, NoState, m
<1>3. CASE Muted(u, c)
  BY <1>1, <1>3 DEF Muted, StateRow, NoState
<1> QED
  BY <1>2, <1>3 DEF RowServed, Added

LEMMA LibraryOn ==
  ASSUME InboxInv, UNCHANGED accountVars, now' \in {now, now + 1}, DOMAIN req' = Threads,
         \A t \in Threads : ReaderAskOK(req'[t], state, first, now, account, Keys),
         \A u \in Users, c \in Companies : RowServed(u, c),
         state' = [u \in Users |-> state'[u]], first' = [u \in Users |-> first'[u]],
         \A u \in Users : /\ state'[u] = [c \in Companies |-> state'[u][c]]
                          /\ first'[u] = [c \in Companies |-> first'[u][c]],
         story' \in [Companies -> SUBSET Int], list' \in Seq(ListRows),
         \A l \in DOMAIN list' : list'[l].owner \in Users =>
           \A c \in list'[l].companies :
             state[list'[l].owner][c] # NoState \/ state'[list'[l].owner][c] # NoState
  PROVE  InboxInv' /\ InboxMoves
<1>1. now \in Nat /\ now' \in Nat /\ now <= now'
  BY DEF InboxInv
<1>2. account' = account /\ Keys' = Keys
  BY DEF accountVars, Keys
<1>3. \A u \in Users : account'[u] # NoRow => Exists(u)
  BY <1>2 DEF Exists
<1>4. \A u \in Users, c \in Companies : RowMoves(u, c)
  BY DEF RowServed, RowMoves
<1>5. InboxMoves
  BY <1>1, <1>2, <1>3, <1>4 DEF InboxMoves
<1>6. AccountsOK'
  BY <1>2 DEF InboxInv, AccountsOK
<1>7. ASSUME NEW l \in DOMAIN list', list'[l].owner \in Users, NEW c \in list'[l].companies
      PROVE  state'[list'[l].owner][c] # NoState
  <2>1. list'[l] \in ListRows
    OBVIOUS
  <2>2. c \in Companies
    BY <1>7, <2>1 DEF ListRows
  <2> QED
    BY <1>7, <2>2, ServedStays
<1>8. FollowedHaveState'
  BY <1>7 DEF FollowedHaveState
<1> QED
  BY <1>5, <1>6, <1>8, InboxOn

\* A request that changes no read state.
LEMMA ListsOnly ==
  ASSUME InboxInv, UNCHANGED accountVars, UNCHANGED <<state, first>>, now' \in {now, now + 1},
         DOMAIN req' = Threads,
         \A t \in Threads : ReaderAskOK(req'[t], state, first, now, account, Keys),
         story' \in [Companies -> SUBSET Int], list' \in Seq(ListRows),
         \A l \in DOMAIN list' : list'[l].owner \in Users =>
           \A c \in list'[l].companies : state[list'[l].owner][c] # NoState
  PROVE  InboxInv' /\ InboxMoves
<1>1. /\ state' = [u \in Users |-> state'[u]] /\ first' = [u \in Users |-> first'[u]]
      /\ \A u \in Users : /\ state'[u] = [c \in Companies |-> state'[u][c]]
                          /\ first'[u] = [c \in Companies |-> first'[u][c]]
  BY DEF InboxInv
<1>2. \A u \in Users, c \in Companies : RowServed(u, c)
  BY DEF RowServed
<1> QED
  BY <1>1, <1>2, LibraryOn

LEMMA SameLists ==
  ASSUME InboxInv, NEW l \in DOMAIN list, list[l].owner \in Users, NEW c \in list[l].companies
  PROVE  state[list[l].owner][c] # NoState
BY DEF InboxInv, FollowedHaveState

LEMMA BeginOn ==
  ASSUME InboxInv, NEW t \in Threads, NEW r, Begin(t, r), UNCHANGED <<accountVars, libraryVars>>,
         ReaderAskOK(r, state, first, now, account, Keys)
  PROVE  InboxInv' /\ InboxMoves
<1>1. req' = [req EXCEPT ![t] = r] /\ now' = now
  BY DEF Begin
<1>2. DOMAIN req' = Threads
  BY <1>1 DEF InboxInv
<1>3. ASSUME NEW q \in Threads PROVE ReaderAskOK(req'[q], state, first, now, account, Keys)
  BY <1>1 DEF InboxInv
<1>4. UNCHANGED <<state, first, list, story>>
  BY DEF libraryVars
<1>5. story' \in [Companies -> SUBSET Int] /\ list' \in Seq(ListRows)
  BY <1>4 DEF InboxInv
<1>6. \A l \in DOMAIN list' : list'[l].owner \in Users =>
        \A c \in list'[l].companies : state[list'[l].owner][c] # NoState
  BY <1>4, SameLists
<1> QED
  BY <1>1, <1>2, <1>3, <1>4, <1>5, <1>6, ListsOnly

LEMMA FollowedFacts ==
  ASSUME InboxInv, NEW u \in Users, NEW c \in Followed(u)
  PROVE  /\ c \in Companies /\ state[u][c] # NoState /\ state[u][c].mark \in Int
         /\ first[u][c] # Never /\ first[u][c] <= now /\ state[u][c].mark <= now
<1>1. PICK l \in DOMAIN list : list[l].owner = u /\ c \in list[l].companies
  BY DEF Followed, OwnLists
<1>2. c \in Companies
  <2>1. list[l] \in ListRows
    BY DEF InboxInv
  <2> QED
    BY <1>1, <2>1 DEF ListRows
<1>3. state[u][c] # NoState
  BY <1>1, SameLists
<1>4. RowOK(state[u][c], first[u][c], now) /\ state[u][c] \in StateRows
  BY <1>2 DEF InboxInv
<1> QED
  BY <1>2, <1>3, <1>4 DEF RowOK, StateRows

LEMMA MemberFacts ==
  ASSUME NEW u, Member(u) PROVE u \in Keys /\ Exists(u)
BY DEF Member, Keys

LEMMA ReaderBegins ==
  ASSUME InboxInv, NEW t \in Threads, NEW u \in Users,
         \/ \E c \in Companies : TrackCompany(t, u, c) \/ \E l \in DOMAIN list : AddCompany(t, u, l, c)
         \/ \E S \in SUBSET Companies :
              \/ MarkRead(t, u, S) \/ RemoveCompanies(t, u, S)
              \/ \E muted \in BOOLEAN : SetMute(t, u, S, muted)
         \/ \E filters \in Filters, alerts \in BOOLEAN :
              \/ CreateView(t, u, filters, alerts)
              \/ \E v \in DOMAIN view : UpdateView(t, u, v, filters, alerts)
  PROVE  InboxInv' /\ InboxMoves
<1>1. now \in Nat
  BY DEF InboxInv
<1>2. ASSUME NEW c \in Companies, NEW l, Member(u),
             Begin(t, [op |-> "add", user |-> u, list |-> l, company |-> c, at |-> now]),
             UNCHANGED <<accountVars, libraryVars>>
      PROVE  InboxInv' /\ InboxMoves
  <2> DEFINE r == [op |-> "add", user |-> u, list |-> l, company |-> c, at |-> now]
  <2>1. ReaderAskOK(r, state, first, now, account, Keys)
    BY <1>1, <1>2, MemberFacts DEF ReaderAskOK
  <2>2. Begin(t, r)
    BY <1>2
  <2> HIDE DEF r
  <2> QED
    BY <1>2, <2>1, <2>2, BeginOn
<1>3. ASSUME NEW c \in Companies, TrackCompany(t, u, c) PROVE InboxInv' /\ InboxMoves
  BY <1>2, <1>3 DEF TrackCompany
<1>4. ASSUME NEW c \in Companies, NEW l, AddCompany(t, u, l, c) PROVE InboxInv' /\ InboxMoves
  BY <1>2, <1>4 DEF AddCompany
<1>5. ASSUME NEW S \in SUBSET Companies, MarkRead(t, u, S) PROVE InboxInv' /\ InboxMoves
  <2> DEFINE r == [op |-> "read", user |-> u, companies |-> S \cap Followed(u), at |-> now,
                   floor |-> [c \in Companies |-> state[u][c].mark]]
  <2>1. /\ Begin(t, r) /\ UNCHANGED <<accountVars, libraryVars>> /\ Member(u)
    BY <1>5 DEF MarkRead
  <2>2. /\ r.op = "read" /\ r.user = u /\ r.at = now
        /\ \A c \in r.companies : c \in Followed(u) /\ c \in Companies /\ r.floor[c] = state[u][c].mark
    OBVIOUS
  <2> HIDE DEF r
  <2>3. u \in Keys
    BY <2>1, MemberFacts
  <2>4. ReaderAskOK(r, state, first, now, account, Keys)
    BY <1>1, <2>2, <2>3, FollowedFacts DEF ReaderAskOK
  <2> QED
    BY <2>1, <2>4, BeginOn
<1>6. ASSUME NEW S \in SUBSET Companies, RemoveCompanies(t, u, S) PROVE InboxInv' /\ InboxMoves
  <2>1. PICK rows : /\ Begin(t, [op |-> "remove", user |-> u, rows |-> rows])
                    /\ UNCHANGED <<accountVars, libraryVars>>
    BY <1>6 DEF RemoveCompanies
  <2> DEFINE r == [op |-> "remove", user |-> u, rows |-> rows]
  <2>2. ~ReaderAsks(r) /\ Begin(t, r)
    BY <2>1 DEF ReaderAsks
  <2> HIDE DEF r
  <2> QED
    BY <2>1, <2>2, NoReaderAskOK, BeginOn
<1>7. ASSUME NEW S \in SUBSET Companies, NEW muted \in BOOLEAN, SetMute(t, u, S, muted)
      PROVE  InboxInv' /\ InboxMoves
  <2> DEFINE r == [op |-> "mute", user |-> u, companies |-> S \cap Followed(u), muted |-> muted]
  <2>1. /\ Begin(t, r) /\ UNCHANGED <<accountVars, libraryVars>> /\ Member(u)
    BY <1>7 DEF SetMute
  <2>2. /\ r.op = "mute" /\ r.user = u /\ r.muted \in BOOLEAN
        /\ \A c \in r.companies : c \in Followed(u) /\ c \in Companies
    OBVIOUS
  <2> HIDE DEF r
  <2>3. u \in Keys
    BY <2>1, MemberFacts
  <2>4. ReaderAskOK(r, state, first, now, account, Keys)
    BY <2>2, <2>3, FollowedFacts DEF ReaderAskOK
  <2> QED
    BY <2>1, <2>4, BeginOn
<1>8. ASSUME NEW filters \in Filters, NEW alerts \in BOOLEAN,
             \/ CreateView(t, u, filters, alerts)
             \/ \E v \in DOMAIN view : UpdateView(t, u, v, filters, alerts)
      PROVE  InboxInv' /\ InboxMoves
  <2>1. /\ UNCHANGED <<accountVars, libraryVars>>
        /\ \E r : Begin(t, r) /\ r.op \in {"view", "edit"}
    <3>1. CASE CreateView(t, u, filters, alerts)
      BY <3>1 DEF CreateView
    <3>2. ASSUME NEW v, UpdateView(t, u, v, filters, alerts) PROVE <2>1!1 /\ <2>1!2
      BY <3>2 DEF UpdateView
    <3> QED
      BY <1>8, <3>1, <3>2
  <2>2. PICK r : Begin(t, r) /\ r.op \in {"view", "edit"}
    BY <2>1
  <2>3. ~ReaderAsks(r)
    BY <2>2 DEF ReaderAsks
  <2> QED
    BY <2>1, <2>2, <2>3, NoReaderAskOK, BeginOn
<1> QED
  BY <1>3, <1>4, <1>5, <1>6, <1>7, <1>8

\* What a commit may rest on: the request it ends, and the rows as they are now.
LEMMA AnswerAsks ==
  ASSUME InboxInv, NEW t \in Threads, Answer(t)
  PROVE  /\ DOMAIN req' = Threads /\ now' = now /\ req'[t] = Idle
         /\ \A q \in Threads : ReaderAskOK(req'[q], state, first, now, account, Keys)
<1>1. req' = [req EXCEPT ![t] = Idle] /\ now' = now /\ DOMAIN req = Threads
  BY DEF Answer, InboxInv
<1>2. ReaderAskOK(Idle, state, first, now, account, Keys)
  BY NoReaderAskOK DEF ReaderAsks, Idle
<1>3. ASSUME NEW q \in Threads PROVE ReaderAskOK(req'[q], state, first, now, account, Keys)
  BY <1>1, <1>2 DEF InboxInv
<1> QED
  BY <1>1, <1>3

LEMMA MarkReadStep ==
  ASSUME InboxInv, NEW t \in Threads, MarkReadCommit(t)
  PROVE  InboxInv' /\ InboxMoves
<1> DEFINE r == req[t]
           u == r.user
           S == r.companies
           a == r.at
<1>1. /\ r.op = "read" /\ Exists(u) /\ Answer(t) /\ state' = UpsertMark(u, S, a)
      /\ UNCHANGED <<accountVars, list, story, first>>
  BY DEF MarkReadCommit
<1>2. ReaderAskOK(r, state, first, now, account, Keys)
  BY DEF InboxInv
<1>3. /\ u \in Users /\ a \in Nat /\ a <= now
      /\ \A c \in S : /\ c \in Companies /\ state[u][c] # NoState
                      /\ first[u][c] <= a /\ r.floor[c] <= a
  BY <1>1, <1>2 DEF ReaderAskOK, Exists
<1>4. DOMAIN state = Users /\ \A v \in Users : state[v] = [c \in Companies |-> state[v][c]]
  BY DEF InboxInv
<1>5. /\ state' = [v \in Users |-> state'[v]]
      /\ \A v \in Users : v # u => state'[v] = state[v]
      /\ state'[u] = [c \in Companies |->
           IF c \notin S THEN state[u][c]
           ELSE StateRow(a, state[u][c] # NoState /\ state[u][c].muted)]
  BY <1>1, <1>3, <1>4 DEF UpsertMark, InboxInv
<1>6. ASSUME NEW v \in Users, NEW c \in Companies PROVE RowServed(v, c)
  <2>1. first'[v][c] = first[v][c]
    BY <1>1
  <2>2. CASE v = u /\ c \in S
    <3>1. state[u][c] # NoState /\ state[u][c].muted \in BOOLEAN
      BY <1>3, <2>2 DEF InboxInv, StateRows
    <3>2. state'[u][c] = StateRow(a, state[u][c].muted)
      BY <1>5, <2>2, <3>1
    <3>3. req'[t] = Idle
      BY <1>1, AnswerAsks
    <3>4. Read(u, c)
      BY <1>1, <1>3, <2>1, <2>2, <3>1, <3>2, <3>3 DEF Read
    <3> QED
      BY <2>2, <3>4 DEF RowServed
  <2>3. CASE ~(v = u /\ c \in S)
    <3>1. state'[v][c] = state[v][c]
      BY <1>4, <1>5, <2>3
    <3> QED
      BY <2>1, <3>1 DEF RowServed
  <2> QED
    BY <2>2, <2>3
<1>7. \A v \in Users : state'[v] = [c \in Companies |-> state'[v][c]]
  BY <1>4, <1>5
<1>8. /\ first' = [v \in Users |-> first'[v]]
      /\ \A v \in Users : first'[v] = [c \in Companies |-> first'[v][c]]
      /\ story' \in [Companies -> SUBSET Int] /\ list' \in Seq(ListRows)
  BY <1>1 DEF InboxInv
<1>9. /\ DOMAIN req' = Threads /\ now' = now
      /\ \A q \in Threads : ReaderAskOK(req'[q], state, first, now, account, Keys)
  BY <1>1, AnswerAsks
<1>10. \A l \in DOMAIN list' : list'[l].owner \in Users =>
         \A c \in list'[l].companies : state[list'[l].owner][c] # NoState
  BY <1>1, SameLists
<1> QED
  BY <1>1, <1>5, <1>6, <1>7, <1>8, <1>9, <1>10, LibraryOn

LEMMA SetMuteStep ==
  ASSUME InboxInv, NEW t \in Threads, SetMuteCommit(t)
  PROVE  InboxInv' /\ InboxMoves
<1> DEFINE r == req[t]
           u == r.user
           S == r.companies
<1>1. /\ r.op = "mute" /\ Exists(u) /\ Answer(t) /\ state' = UpsertMuted(u, S, r.muted)
      /\ UNCHANGED <<accountVars, list, story, first>>
  BY DEF SetMuteCommit
<1>2. ReaderAskOK(r, state, first, now, account, Keys)
  BY DEF InboxInv
<1>3. /\ u \in Users /\ r.muted \in BOOLEAN
      /\ \A c \in S : c \in Companies /\ state[u][c] # NoState
  BY <1>1, <1>2 DEF ReaderAskOK, Exists
<1>4. DOMAIN state = Users /\ \A v \in Users : state[v] = [c \in Companies |-> state[v][c]]
  BY DEF InboxInv
<1>5. /\ state' = [v \in Users |-> state'[v]]
      /\ \A v \in Users : v # u => state'[v] = state[v]
      /\ state'[u] = [c \in Companies |->
           IF c \notin S THEN state[u][c]
           ELSE StateRow(IF state[u][c] = NoState THEN Unopened ELSE state[u][c].mark, r.muted)]
  BY <1>1, <1>3, <1>4 DEF UpsertMuted, InboxInv
<1>6. ASSUME NEW v \in Users, NEW c \in Companies PROVE RowServed(v, c)
  <2>1. first'[v][c] = first[v][c]
    BY <1>1
  <2>2. CASE v = u /\ c \in S
    <3>1. state[u][c] # NoState
      BY <1>3, <2>2
    <3>2. state'[u][c] = StateRow(state[u][c].mark, r.muted)
      BY <1>5, <2>2, <3>1
    <3>3. Muted(u, c)
      BY <1>3, <2>1, <2>2, <3>1, <3>2 DEF Muted
    <3> QED
      BY <2>2, <3>3 DEF RowServed
  <2>3. CASE ~(v = u /\ c \in S)
    <3>1. state'[v][c] = state[v][c]
      BY <1>4, <1>5, <2>3
    <3> QED
      BY <2>1, <3>1 DEF RowServed
  <2> QED
    BY <2>2, <2>3
<1>7. \A v \in Users : state'[v] = [c \in Companies |-> state'[v][c]]
  BY <1>4, <1>5
<1>8. /\ first' = [v \in Users |-> first'[v]]
      /\ \A v \in Users : first'[v] = [c \in Companies |-> first'[v][c]]
      /\ story' \in [Companies -> SUBSET Int] /\ list' \in Seq(ListRows)
  BY <1>1 DEF InboxInv
<1>9. /\ DOMAIN req' = Threads /\ now' = now
      /\ \A q \in Threads : ReaderAskOK(req'[q], state, first, now, account, Keys)
  BY <1>1, AnswerAsks
<1>10. \A l \in DOMAIN list' : list'[l].owner \in Users =>
         \A c \in list'[l].companies : state[list'[l].owner][c] # NoState
  BY <1>1, SameLists
<1> QED
  BY <1>1, <1>5, <1>6, <1>7, <1>8, <1>9, <1>10, LibraryOn

LEMMA AddStep ==
  ASSUME InboxInv, NEW t \in Threads, AddCommit(t)
  PROVE  InboxInv' /\ InboxMoves
<1> DEFINE r == req[t]
           u == r.user
           k == r.company
           a == r.at
           n == Len(list)
<1>1. /\ r.op = "add" /\ Exists(u) /\ Answer(t) /\ state' = Ensure(u, {k}, a)
      /\ first' = [first EXCEPT ![u][k] = IF first[u][k] = Never THEN a ELSE first[u][k]]
      /\ \/ list' = Append(list, ListRow(u, {k}))
         \/ /\ list[r.list].owner = u
            /\ list' = [list EXCEPT ![r.list].companies = list[r.list].companies \cup {k}]
      /\ UNCHANGED <<accountVars, story>>
  BY DEF AddCommit
<1>2. ReaderAskOK(r, state, first, now, account, Keys)
  BY DEF InboxInv
<1>3. u \in Users /\ u \in Keys /\ k \in Companies /\ a \in Nat /\ a <= now
  BY <1>1, <1>2 DEF ReaderAskOK
<1>4. /\ DOMAIN state = Users /\ \A v \in Users : state[v] = [c \in Companies |-> state[v][c]]
      /\ DOMAIN first = Users /\ \A v \in Users : first[v] = [c \in Companies |-> first[v][c]]
  BY DEF InboxInv
<1>5. /\ state' = [v \in Users |-> state'[v]]
      /\ \A v \in Users : v # u => state'[v] = state[v]
      /\ state'[u] = [c \in Companies |->
           IF c \in {k} /\ state[u][c] = NoState THEN StateRow(a, FALSE) ELSE state[u][c]]
  BY <1>1, <1>3, <1>4 DEF Ensure, InboxInv
<1>6. /\ first' = [v \in Users |-> first'[v]]
      /\ \A v \in Users : first'[v] = [c \in Companies |-> first'[v][c]]
      /\ \A v \in Users : v # u => first'[v] = first[v]
      /\ \A c \in Companies : first'[u][c] =
           IF c = k /\ first[u][k] = Never THEN a ELSE first[u][c]
  BY <1>1, <1>3, <1>4 DEF InboxInv
<1>7. ASSUME NEW v \in Users, NEW c \in Companies PROVE RowServed(v, c)
  <2>1. CASE v = u /\ c = k /\ state[u][k] = NoState
    <3>1. first[u][k] = Never
      BY <1>1, <1>3, <2>1 DEF InboxInv
    <3>2. first'[u][k] = a /\ state'[u][k] = StateRow(a, FALSE)
      BY <1>3, <1>5, <1>6, <2>1, <3>1
    <3> HIDE DEF u, k, a
    <3>3. Added(u, k)
      BY <1>3, <2>1, <3>1, <3>2 DEF Added
    <3> QED
      BY <2>1, <3>3 DEF RowServed
  <2>2. CASE ~(v = u /\ c = k /\ state[u][k] = NoState)
    <3>0. state'[u][c] = IF c \in {k} /\ state[u][c] = NoState THEN StateRow(a, FALSE)
                         ELSE state[u][c]
      BY <1>5
    <3>1. state'[v][c] = state[v][c]
      <4>1. CASE v # u
        BY <1>5, <4>1
      <4>2. CASE v = u
        <5>1. ~(c \in {k} /\ state[u][c] = NoState)
          BY <2>2, <4>2
        <5> HIDE DEF u, k, a
        <5> QED
          BY <3>0, <4>2, <5>1
      <4> QED
        BY <4>1, <4>2
    <3>2. v = u /\ c = k => first[u][k] # Never
      BY <1>3, <2>2 DEF InboxInv, RowOK
    <3>3. first'[v][c] = first[v][c]
      BY <1>6, <3>2
    <3> QED
      BY <3>1, <3>3 DEF RowServed
  <2> QED
    BY <2>1, <2>2
<1>8. state'[u][k] # NoState
  <2>1. a # -2
    BY <1>3
  <2> HIDE DEF a
  <2> QED
    BY <1>3, <1>5, <2>1 DEF StateRow, NoState
<1>9. \A v \in Users : state'[v] = [c \in Companies |-> state'[v][c]]
  BY <1>4, <1>5
<1>10. n \in Nat /\ DOMAIN list = 1..n /\ \A l \in 1..n : list[l] \in ListRows
  BY DEF InboxInv
<1>11. /\ list' \in Seq(ListRows)
       /\ \A l \in DOMAIN list' :
            \/ l \in DOMAIN list /\ list'[l] = list[l]
            \/ list'[l].owner = u /\ list'[l].companies = {k}
            \/ /\ l \in DOMAIN list /\ list'[l].owner = u /\ list[l].owner = u
               /\ list'[l].companies = list[l].companies \cup {k}
  <2>1. CASE list' = Append(list, ListRow(u, {k}))
    <3> DEFINE row == ListRow(u, {k})
    <3>1. row \in ListRows /\ row.owner = u /\ row.companies = {k}
      BY <1>3 DEF ListRow, ListRows
    <3> HIDE DEF row
    <3>2. list \in Seq(ListRows) /\ list' = Append(list, row)
      BY <2>1 DEF InboxInv, row
    <3> HIDE DEF u, k
    <3> QED
      BY <1>10, <3>1, <3>2
  <2>2. CASE /\ list[r.list].owner = u
             /\ list' = [list EXCEPT ![r.list].companies = list[r.list].companies \cup {k}]
    <3> DEFINE m == r.list
    <3> HIDE DEF r, m
    <3>1. list' = [list EXCEPT ![m] = [list[m] EXCEPT !.companies = list[m].companies \cup {k}]]
      BY <2>2 DEF m
    <3>2. list[m].owner = u
      BY <2>2 DEF m
    <3> HIDE DEF u, k
    <3>3. ASSUME NEW l \in 1..n
          PROVE  /\ list'[l] \in ListRows
                 /\ \/ list'[l] = list[l]
                    \/ /\ list'[l].owner = u /\ list[l].owner = u
                       /\ list'[l].companies = list[l].companies \cup {k}
      BY <1>3, <1>10, <3>1, <3>2 DEF ListRows
    <3>4. list' \in [1..n -> ListRows]
      BY <1>10, <3>1, <3>3
    <3>5. list' \in Seq(ListRows)
      BY <1>10, <3>4, IsSequence
    <3>6. DOMAIN list' = 1..n
      BY <3>4
    <3> QED
      BY <1>10, <3>3, <3>5, <3>6
  <2> QED
    BY <1>1, <2>1, <2>2
<1>12. \A l \in DOMAIN list' : list'[l].owner \in Users =>
         \A c \in list'[l].companies :
           state[list'[l].owner][c] # NoState \/ state'[list'[l].owner][c] # NoState
  <2> HIDE DEF u, k
  <2> QED
    BY <1>8, <1>11, SameLists
<1>13. /\ DOMAIN req' = Threads /\ now' = now
       /\ \A q \in Threads : ReaderAskOK(req'[q], state, first, now, account, Keys)
  BY <1>1, AnswerAsks
<1>14. story' \in [Companies -> SUBSET Int]
  BY <1>1 DEF InboxInv
<1> QED
  BY <1>1, <1>5, <1>6, <1>7, <1>9, <1>11, <1>12, <1>13, <1>14, LibraryOn

\* A commit or a request of one step that leaves the read states alone: its lists
\* hold no company that they did not hold.
LEMMA ListStep ==
  ASSUME InboxInv, UNCHANGED <<accountVars, state, first, story>>, now' = now,
         DOMAIN req' = Threads,
         \A q \in Threads : ReaderAskOK(req'[q], state, first, now, account, Keys),
         list' \in Seq(ListRows),
         \A l \in DOMAIN list' :
           \/ list'[l].owner = NoUser
           \/ list'[l].companies = {}
           \/ /\ l \in DOMAIN list /\ list'[l].owner = list[l].owner
              /\ list'[l].companies \subseteq list[l].companies
  PROVE  InboxInv' /\ InboxMoves
<1>1. \A l \in DOMAIN list' : list'[l].owner \in Users =>
        \A c \in list'[l].companies : state[list'[l].owner][c] # NoState
  BY SameLists, AccountsAssumption
<1>2. story' \in [Companies -> SUBSET Int]
  BY DEF InboxInv
<1> QED
  BY <1>1, <1>2, ListsOnly

LEMMA OtherCommits ==
  ASSUME InboxInv, NEW t \in Threads,
         \/ RemoveCommit(t) \/ CreateViewCommit(t) \/ UpdateViewCommit(t)
         \/ WebhookCommit(t) \/ LibraryClash(t)
  PROVE  InboxInv' /\ InboxMoves
<1> DEFINE n == Len(list)
<1>1. n \in Nat /\ DOMAIN list = 1..n /\ \A l \in 1..n : list[l] \in ListRows
  BY DEF InboxInv
<1>2. UNCHANGED <<accountVars, state, first, story>> /\ Answer(t)
  BY DEF RemoveCommit, CreateViewCommit, UpdateViewCommit, WebhookCommit, LibraryClash,
         libraryVars
<1>3. /\ DOMAIN req' = Threads /\ now' = now
      /\ \A q \in Threads : ReaderAskOK(req'[q], state, first, now, account, Keys)
  BY <1>2, AnswerAsks
<1>4. CASE RemoveCommit(t)
  <2> DEFINE rows == req[t].rows
  <2>1. list' = [l \in DOMAIN list |->
          [list[l] EXCEPT !.companies = {c \in list[l].companies : <<l, c>> \notin rows}]]
    BY <1>4 DEF RemoveCommit
  <2> HIDE DEF rows
  <2>2. ASSUME NEW l \in 1..n
        PROVE  /\ list'[l] \in ListRows /\ list'[l].owner = list[l].owner
               /\ list'[l].companies \subseteq list[l].companies
    BY <1>1, <2>1 DEF ListRows
  <2>3. list' \in Seq(ListRows) /\ DOMAIN list' = 1..n
    <3>1. list' \in [1..n -> ListRows]
      BY <1>1, <2>1, <2>2
    <3> QED
      BY <1>1, <3>1, IsSequence
  <2>4. \A l \in DOMAIN list' : /\ l \in DOMAIN list /\ list'[l].owner = list[l].owner
                                /\ list'[l].companies \subseteq list[l].companies
    BY <1>1, <2>2, <2>3
  <2> QED
    BY <1>2, <1>3, <2>3, <2>4, ListStep
<1>5. CASE list' = list
  BY <1>2, <1>3, <1>5, ListStep DEF InboxInv
<1> QED
  BY <1>4, <1>5
  DEF CreateViewCommit, UpdateViewCommit, WebhookCommit, LibraryClash, libraryVars

LEMMA ServedAtOnce ==
  ASSUME InboxInv, NEW u \in Users,
         \/ CreateList(u) \/ LinkTelegram(u) \/ UnlinkTelegram(u)
         \/ \E l \in DOMAIN list : DeleteList(u, l) \/ \E c \in Companies : RemoveCompany(u, l, c)
         \/ \E v \in DOMAIN view : DeleteView(u, v)
  PROVE  InboxInv' /\ InboxMoves
<1> DEFINE n == Len(list)
<1>1. n \in Nat /\ DOMAIN list = 1..n /\ \A l \in 1..n : list[l] \in ListRows
  BY DEF InboxInv
<1>2. UNCHANGED <<accountVars, state, first, story, now, req>>
  BY DEF CreateList, LinkTelegram, UnlinkTelegram, DeleteList, RemoveCompany, DeleteView, Serve
<1>3. /\ DOMAIN req' = Threads /\ now' = now
      /\ \A q \in Threads : ReaderAskOK(req'[q], state, first, now, account, Keys)
  BY <1>2 DEF InboxInv
<1>4. CASE CreateList(u)
  <2> DEFINE row == ListRow(u, {})
  <2>1. list' = Append(list, row) /\ list \in Seq(ListRows)
    BY <1>4 DEF CreateList, InboxInv
  <2>2. row \in ListRows /\ row.companies = {}
    BY DEF ListRow, ListRows
  <2> HIDE DEF row
  <2>3. /\ list' \in Seq(ListRows)
        /\ \A l \in DOMAIN list' :
             \/ list'[l].companies = {}
             \/ l \in DOMAIN list /\ list'[l] = list[l]
    BY <1>1, <2>1, <2>2
  <2> QED
    BY <1>2, <1>3, <2>3, ListStep
<1>5. ASSUME NEW l \in DOMAIN list, DeleteList(u, l) PROVE InboxInv' /\ InboxMoves
  <2> DEFINE row == ListRow(NoUser, {})
  <2>1. list' = [list EXCEPT ![l] = row]
    BY <1>5 DEF DeleteList
  <2>2. row \in ListRows /\ row.companies = {}
    BY DEF ListRow, ListRows
  <2> HIDE DEF row
  <2>3. list' \in [1..n -> ListRows] /\ \A m \in 1..n : list'[m] = row \/ list'[m] = list[m]
    BY <1>1, <2>1, <2>2
  <2>4. list' \in Seq(ListRows) /\ DOMAIN list' = 1..n
    BY <1>1, <2>3, IsSequence
  <2> QED
    BY <1>1, <1>2, <1>3, <2>2, <2>3, <2>4, ListStep
<1>6. ASSUME NEW l \in DOMAIN list, NEW c \in Companies, RemoveCompany(u, l, c)
      PROVE  InboxInv' /\ InboxMoves
  <2>1. list' = [list EXCEPT ![l] = [list[l] EXCEPT !.companies = list[l].companies \ {c}]]
    BY <1>6 DEF RemoveCompany
  <2>2. ASSUME NEW m \in 1..n
        PROVE  /\ list'[m] \in ListRows /\ list'[m].owner = list[m].owner
               /\ list'[m].companies \subseteq list[m].companies
    BY <1>1, <2>1 DEF ListRows
  <2>3. list' \in [1..n -> ListRows]
    BY <1>1, <2>1, <2>2
  <2>4. list' \in Seq(ListRows) /\ DOMAIN list' = 1..n
    BY <1>1, <2>3, IsSequence
  <2> QED
    BY <1>1, <1>2, <1>3, <2>2, <2>4, ListStep
<1>7. CASE list' = list
  BY <1>2, <1>3, <1>7, ListStep DEF InboxInv
<1> QED
  BY <1>4, <1>5, <1>6, <1>7 DEF LinkTelegram, UnlinkTelegram, DeleteView

LEMMA StoryStep ==
  ASSUME InboxInv, NEW k \in Companies, StoreStory(k)
  PROVE  InboxInv' /\ InboxMoves
<1>1. /\ now' = now + 1 /\ story' = [story EXCEPT ![k] = story[k] \cup {now'}]
      /\ UNCHANGED <<accountVars, state, first, list, req>>
  BY DEF StoreStory
<1>2. story' \in [Companies -> SUBSET Int]
  BY <1>1 DEF InboxInv
<1>3. /\ DOMAIN req' = Threads
      /\ \A q \in Threads : ReaderAskOK(req'[q], state, first, now, account, Keys)
  BY <1>1 DEF InboxInv
<1>4. \A l \in DOMAIN list' : list'[l].owner \in Users =>
        \A c \in list'[l].companies : state[list'[l].owner][c] # NoState
  BY <1>1, SameLists
<1>5. list' \in Seq(ListRows)
  BY <1>1 DEF InboxInv
<1> QED
  BY <1>1, <1>2, <1>3, <1>4, <1>5, ListsOnly

LEMMA InboxStep == InboxInv /\ [Next]_vars => InboxInv' /\ InboxMoves
<1> SUFFICES ASSUME InboxInv, [Next]_vars PROVE InboxInv' /\ InboxMoves
  OBVIOUS
<1>1. (AccountsMove \/ Leaves) /\ AccountsOK' /\ DOMAIN req = Threads
  BY AccountsMoveOn DEF InboxInv
<1>2. CASE Leaves
  BY <1>1, <1>2, LeavesInbox
<1>3. ASSUME AccountsMove, UNCHANGED libraryVars, now' \in {now, now + 1},
             DOMAIN req' = Threads, SilentMove
      PROVE  InboxInv' /\ InboxMoves
  BY <1>1, <1>3, QuietStep
<1>4. CASE AccountsMove /\ UNCHANGED vars
  BY <1>1, <1>3, <1>4 DEF vars, serverVars, SilentMove
<1>5. ASSUME AccountsMove, NEW t \in Threads, AccountsStep(t), UNCHANGED libraryVars
      PROVE  InboxInv' /\ InboxMoves
  BY <1>1, <1>3, <1>5, AccountsSilent
<1>6. ASSUME AccountsMove, NEW u \in Users, Login(u), UNCHANGED libraryVars
      PROVE  InboxInv' /\ InboxMoves
  BY <1>1, <1>3, <1>6 DEF Login, serverVars, SilentMove
<1>7. CASE AccountsMove /\ Tick /\ UNCHANGED libraryVars
  BY <1>1, <1>3, <1>7 DEF Tick, SilentMove
<1>8. CASE LibraryNext
  <2>1. ASSUME NEW t \in Threads, NEW chat, NEW k, SendCode(t, chat, k)
        PROVE  InboxInv' /\ InboxMoves
    <3>1. PICK r : Begin(t, r) /\ r.op = "webhook" /\ UNCHANGED <<accountVars, libraryVars>>
      BY <2>1 DEF SendCode
    <3>2. ~ReaderAsks(r)
      BY <3>1 DEF ReaderAsks
    <3> QED
      BY <3>1, <3>2, NoReaderAskOK, BeginOn
  <2>2. ASSUME NEW t \in Threads, LibraryStep(t) PROVE InboxInv' /\ InboxMoves
    BY <2>1, <2>2, ReaderBegins, AddStep, MarkReadStep, SetMuteStep, OtherCommits
    DEF LibraryStep
  <2> QED
    BY <1>8, <2>2, ServedAtOnce, StoryStep DEF LibraryNext
<1> QED
  BY <1>1, <1>2, <1>4, <1>5, <1>6, <1>7, <1>8 DEF Next, Leaves

LEMMA InboxInit == Init => InboxInv
<1> SUFFICES ASSUME Init PROVE InboxInv
  OBVIOUS
<1>1. AccountsOK /\ \A u \in Users : ~Exists(u)
  BY AccountsInitially DEF Init, AccountsInit, Exists
<1>2. /\ now = 0 /\ req = [t \in Threads |-> Idle] /\ list = <<>>
      /\ state = [u \in Users |-> [c \in Companies |-> NoState]]
      /\ first = [u \in Users |-> [c \in Companies |-> Never]]
      /\ story = [c \in Companies |-> {}]
  BY DEF Init, AccountsInit, LibraryInit
<1>3. \A t \in Threads : ReaderAskOK(req[t], state, first, now, account, Keys)
  BY <1>2, NoReaderAskOK DEF ReaderAsks, Idle
<1>4. /\ state \in [Users -> [Companies -> StateRows]] /\ first \in [Users -> [Companies -> Int]]
      /\ story \in [Companies -> SUBSET Int]
  BY <1>2, StateRowFacts
<1>5. \A u \in Users, c \in Companies : RowOK(state[u][c], first[u][c], now)
  BY <1>2, StateRowFacts DEF RowOK
<1>6. list \in Seq(ListRows) /\ FollowedHaveState
  BY <1>2 DEF FollowedHaveState
<1> QED
  BY <1>1, <1>2, <1>3, <1>4, <1>5, <1>6 DEF InboxInv

LEMMA InboxImplies == InboxInv => NoBacklog
<1> SUFFICES ASSUME InboxInv, NEW u \in Users, NEW c \in Followed(u)
             PROVE  /\ state[u][c] # NoState
                    /\ \A e \in Unread(u, c) : e > first[u][c]
  BY DEF NoBacklog
<1>1. c \in Companies /\ state[u][c] # NoState /\ state[u][c].mark \in Int
  BY FollowedFacts
<1>2. first[u][c] \in Int /\ first[u][c] <= state[u][c].mark
  BY <1>1 DEF InboxInv, RowOK
<1>3. ASSUME NEW e \in Unread(u, c) PROVE e > first[u][c]
  <2>1. e \in Int /\ e > state[u][c].mark
    BY <1>1 DEF Unread, InboxInv
  <2> QED
    BY <1>1, <1>2, <2>1
<1> QED
  BY <1>1, <1>3

\* A company a reader follows has a read state, and shows as unread only events
\* stored after the reader first added it (NoBacklog), for any number of readers,
\* companies and requests that overlap (routes/watchlists.py, routes/inbox.py).
THEOREM NoBacklogEver == RegistrySpec => []NoBacklog
BY RegistryIsApi, InboxInit, InboxStep, InboxImplies, PTL DEF RegistrySpec

\* Only reading moves the mark of a company, and never to before the slower of two
\* readings that overlap began (MarkMovesOnlyWhenRead), for any number of readers,
\* companies and requests that overlap (models/company_read_state.py).
THEOREM MarksMoveByReading == RegistrySpec => MarkMovesOnlyWhenRead
<1> DEFINE Moves ==
      \A u \in Users, c \in Companies :
        state[u][c] # NoState /\ state'[u][c] # NoState /\ state'[u][c].mark # state[u][c].mark
        => \E t \in Threads : /\ req[t].op = "read" /\ req[t].user = u
                              /\ c \in req[t].companies /\ req'[t] = Idle
                              /\ state'[u][c].mark >= req[t].floor[c]
<1>1. ASSUME InboxInv, InboxMoves PROVE Moves
  <2> SUFFICES ASSUME NEW u \in Users, NEW c \in Companies, state[u][c] # NoState,
                      state'[u][c] # NoState, state'[u][c].mark # state[u][c].mark
               PROVE  \E t \in Threads : /\ req[t].op = "read" /\ req[t].user = u
                                         /\ c \in req[t].companies /\ req'[t] = Idle
                                         /\ state'[u][c].mark >= req[t].floor[c]
    OBVIOUS
  <2>1. ~Muted(u, c)
    <3> SUFFICES ASSUME NEW b \in BOOLEAN, state'[u][c] = StateRow(state[u][c].mark, b)
                 PROVE  FALSE
      BY DEF Muted
    <3> QED
      BY DEF StateRow
  <2>2. Read(u, c)
    BY <1>1, <2>1 DEF InboxMoves, RowMoves, Added, Deleted
  <2> QED
    BY <2>2 DEF Read, StateRow
<1>2. InboxInv /\ [RegistryNext]_<<vars, directoryVars, channelVars>> => [Moves]_vars
  BY <1>1, InboxStep, RegistryIsApi
<1>3. RegistryInit => InboxInv
  BY InboxInit, RegistryIsApi
<1>4. InboxInv /\ [RegistryNext]_<<vars, directoryVars, channelVars>> => InboxInv'
  BY InboxStep, RegistryIsApi
<1> HIDE DEF Moves
<1>5. RegistrySpec => [][Moves]_vars
  BY <1>2, <1>3, <1>4, PTL DEF RegistrySpec
<1> QED
  BY <1>5 DEF MarkMovesOnlyWhenRead, Moves
(***************************************************************************)
(* Where alerts go: what a notification's outcome says.                    *)
(***************************************************************************)

Places == Browsers \cup Names
Targets == Places \X Nat

SendRow == [pc : {"waiting", "next", "prune", "sent", "failed"},
         left : SUBSET Targets, hand : Targets \cup {<<>>}, expired : BOOLEAN,
         read : SUBSET Places, reached : SUBSET Places, refused : SUBSET Places,
         cut : BOOLEAN]

SettingsOK ==
  /\ sub \in [Browsers -> [owner : Readers \cup {NoOwner}, id : Nat]]
  /\ config \in [Readers -> [Names -> Data \cup {NoData}]]
  /\ \A u \in Readers, ch \in Names : config[u][ch] # NoData => Accepts(ch, config[u][ch])

\* What is left to try was read and not tried; nothing counts twice.
Tidy(s) ==
  /\ s.reached \cap s.refused = {}
  /\ s.reached \subseteq s.read
  /\ \A r \in s.left : r[1] \in s.read /\ r[1] \notin s.reached /\ r[1] \notin s.refused
  /\ \A r, q \in s.left : r[1] = q[1] => r = q

\* On its way, a send has tried what was read, knows it gone or has it left.
OnItsWay(s, g) ==
  s.pc \in {"next", "prune"} =>
    \A x \in s.read : x \in s.reached \/ x \in s.refused \/ x \in g \/ \E r \in s.left : r[1] = x

OutcomeOK(s, g) ==
  /\ s.pc = "sent" => /\ s.read \subseteq s.reached \cup s.refused \cup g
                      /\ s.read # {} => s.refused # s.read
  /\ s.pc = "failed" => s.reached = {} \/ s.cut
  /\ s.cut => s.pc = "failed"

SendSound(s, g) == s \in SendRow /\ Tidy(s) /\ OnItsWay(s, g) /\ OutcomeOK(s, g)

SendsInv ==
  /\ SettingsOK
  /\ send \in [Senders -> SendRow]
  /\ \A t \in Senders : SendSound(send[t], gone)

\* Settings that were accepted hold what the channel needs.
LEMMA AcceptedIsUsable ==
  ASSUME NEW ch, NEW data \in Data, Accepts(ch, data)
  PROVE  data \in Usable(ch)
BY DEF Accepts, Usable

LEMMA InitSends == ChannelsInit => SendsInv
<1> SUFFICES ASSUME ChannelsInit PROVE SendsInv
  OBVIOUS
<1>1. SettingsOK
  BY BegunAssumption DEF ChannelsInit, SettingsOK, Subscription
<1>2. SendSound(Waiting, {})
  BY DEF SendSound, Tidy, OnItsWay, OutcomeOK, Waiting, SendRow
<1>3. Waiting \in SendRow
  BY <1>2 DEF SendSound
<1> QED
  BY <1>1, <1>2, <1>3 DEF ChannelsInit, SendsInv

\* A step that leaves every send alone.
LEMMA NoSend ==
  ASSUME SendsInv, SettingsOK', send' = send, gone \subseteq gone'
  PROVE  SendsInv'
<1>1. ASSUME NEW t \in Senders PROVE SendSound(send[t], gone')
  BY <1>1 DEF SendsInv, SendSound, OnItsWay, OutcomeOK
<1> QED
  BY <1>1 DEF SendsInv

\* A step that replaces one thread's send by a sound one.
LEMMA OneSend ==
  ASSUME SendsInv, SettingsOK', gone' = gone, NEW t \in Senders, NEW s, Becomes(t, s),
         SendSound(s, gone)
  PROVE  SendsInv'
<1>1. s \in SendRow
  BY DEF SendSound
<1>2. send' \in [Senders -> SendRow]
  BY <1>1 DEF Becomes, SendsInv
<1>3. \A x \in Senders : send'[x] = IF x = t THEN s ELSE send[x]
  BY DEF Becomes, SendsInv
<1>4. \A x \in Senders : SendSound(send'[x], gone')
  BY <1>3 DEF SendsInv
<1> QED
  BY <1>2, <1>4 DEF SendsInv

LEMMA StartSound ==
  ASSUME SendsInv, NEW t \in Senders, NEW u \in Readers, NEW ch \in Names, StartSend(t, u, ch)
  PROVE  SendsInv'
<1> DEFINE rows == IF ch \notin Served THEN {}
                   ELSE IF ch = "push" THEN Registered(u)
                   ELSE IF config[u][ch] \in Usable(ch) THEN {<<ch, 0>>} ELSE {}
           setUp == IF ch \in Served /\ ch \notin {"push", "email"} /\ config[u][ch] # NoData
                    THEN {ch} ELSE {r[1] : r \in rows}
           s == [Waiting EXCEPT !.pc = IF rows = {} THEN "sent" ELSE "next",
                                !.left = rows, !.read = setUp]
<1>1. /\ rows \subseteq Targets
      /\ \A r, q \in rows : r[1] = q[1] => r = q
  <2>1. /\ Registered(u) \subseteq Targets
        /\ \A r, q \in Registered(u) : r[1] = q[1] => r = q
    BY DEF Registered, SendsInv, SettingsOK, Targets, Places
  <2>2. <<ch, 0>> \in Targets
    BY DEF Targets, Places
  <2> QED
    BY <2>1, <2>2
<1>2. setUp = {r[1] : r \in rows}
  <2>1. CASE ch \in Served /\ ch \notin {"push", "email"} /\ config[u][ch] # NoData
    <3>1. config[u][ch] \in Data /\ Accepts(ch, config[u][ch])
      BY <2>1 DEF SendsInv, SettingsOK
    <3>2. config[u][ch] \in Usable(ch)
      BY <3>1, AcceptedIsUsable
    <3>3. rows = {<<ch, 0>>}
      BY <2>1, <3>2
    <3> HIDE DEF rows
    <3> QED
      BY <2>1, <3>3
  <2>2. CASE ~(ch \in Served /\ ch \notin {"push", "email"} /\ config[u][ch] # NoData)
    BY <2>2
  <2> QED
    BY <2>1, <2>2
<1>3. Becomes(t, s) /\ gone' = gone /\ SettingsOK'
  BY DEF StartSend, SendsInv, SettingsOK
<1> HIDE DEF rows, setUp
<1>4. /\ s.pc = (IF rows = {} THEN "sent" ELSE "next") /\ s.left = rows
      /\ s.hand = <<>> /\ s.expired = FALSE
      /\ s.read = setUp /\ s.reached = {}
      /\ s.refused = {} /\ s.cut = FALSE
  BY DEF Waiting
<1>5. setUp \subseteq Places /\ \A r \in rows : r[1] \in setUp
  BY <1>1, <1>2 DEF Targets
<1>6. s \in SendRow
  <2>1. Waiting \in SendRow
    BY DEF Waiting, SendRow
  <2>2. rows \in SUBSET Targets /\ setUp \in SUBSET Places
    BY <1>1, <1>5
  <2> QED
    BY <2>1, <2>2 DEF SendRow
<1> HIDE DEF s
<1>7. Tidy(s)
  BY <1>1, <1>4, <1>5 DEF Tidy
<1>8. OnItsWay(s, gone)
  BY <1>2, <1>4 DEF OnItsWay
<1>9. OutcomeOK(s, gone)
  BY <1>2, <1>4 DEF OutcomeOK
<1>10. SendSound(s, gone)
  BY <1>6, <1>7, <1>8, <1>9 DEF SendSound
<1> QED
  BY <1>3, <1>10, OneSend

LEMMA PostSound ==
  ASSUME SendsInv, NEW t \in Senders, NEW r \in send[t].left, Post(t, r)
  PROVE  SendsInv'
<1> DEFINE s == send[t]
           on == [s EXCEPT !.left = @ \ {r}]
<1>1. SendSound(s, gone) /\ s.pc = "next"
  BY DEF SendsInv, Post
<1>2. gone' = gone /\ SettingsOK'
  BY DEF Post, During, SendsInv, SettingsOK
<1>3. s \in SendRow /\ r \in Targets /\ r[1] \in Places /\ r[1] \in s.read /\ r \in s.left
  BY <1>1 DEF SendSound, SendRow, Tidy, Targets
<1>4. /\ r[1] \in gone => Becomes(t, [on EXCEPT !.pc = "prune", !.hand = r])
      /\ r[1] \notin gone => \/ Becomes(t, [on EXCEPT !.reached = @ \cup {r[1]}])
                             \/ Becomes(t, [on EXCEPT !.refused = @ \cup {r[1]}])
  BY DEF Post
<1> HIDE DEF s
<1>5. CASE r[1] \in gone
  <2> DEFINE n == [on EXCEPT !.pc = "prune", !.hand = r]
  <2>1. Becomes(t, n)
    BY <1>5, <1>4
  <2>2. /\ n.pc = "prune" /\ n.left = s.left \ {r}
        /\ n.hand = r /\ n.expired = s.expired
        /\ n.read = s.read /\ n.reached = s.reached
        /\ n.refused = s.refused /\ n.cut = s.cut
    BY <1>1, <1>3 DEF SendRow
  <2>3. n \in SendRow
    BY <1>3, <2>2 DEF SendRow
  <2> HIDE DEF n
  <2>4. Tidy(n)
    BY <1>1, <2>2 DEF SendSound, Tidy
  <2>5. OnItsWay(n, gone) /\ OutcomeOK(n, gone)
    BY <1>1, <1>5, <2>2 DEF SendSound, OnItsWay, OutcomeOK
  <2> QED
    BY <1>2, <2>1, <2>3, <2>4, <2>5, OneSend DEF SendSound
<1>6. CASE Becomes(t, [on EXCEPT !.reached = @ \cup {r[1]}])
  <2> DEFINE n == [on EXCEPT !.reached = @ \cup {r[1]}]
  <2>2. /\ n.pc = "next" /\ n.left = s.left \ {r}
        /\ n.hand = s.hand /\ n.expired = s.expired
        /\ n.read = s.read /\ n.reached = s.reached \cup {r[1]}
        /\ n.refused = s.refused /\ n.cut = s.cut
    BY <1>1, <1>3 DEF SendRow
  <2>3. n \in SendRow
    BY <1>3, <2>2 DEF SendRow
  <2> HIDE DEF n
  <2>4. Tidy(n)
    BY <1>1, <1>3, <2>2 DEF SendSound, Tidy
  <2>5. OnItsWay(n, gone) /\ OutcomeOK(n, gone)
    BY <1>1, <2>2 DEF SendSound, OnItsWay, OutcomeOK
  <2> QED
    BY <1>2, <1>6, <2>3, <2>4, <2>5, OneSend DEF SendSound, n
<1>7. CASE Becomes(t, [on EXCEPT !.refused = @ \cup {r[1]}])
  <2> DEFINE n == [on EXCEPT !.refused = @ \cup {r[1]}]
  <2>2. /\ n.pc = "next" /\ n.left = s.left \ {r}
        /\ n.hand = s.hand /\ n.expired = s.expired
        /\ n.read = s.read /\ n.reached = s.reached
        /\ n.refused = s.refused \cup {r[1]} /\ n.cut = s.cut
    BY <1>1, <1>3 DEF SendRow
  <2>3. n \in SendRow
    BY <1>3, <2>2 DEF SendRow
  <2> HIDE DEF n
  <2>4. Tidy(n)
    BY <1>1, <1>3, <2>2 DEF SendSound, Tidy
  <2>5. OnItsWay(n, gone) /\ OutcomeOK(n, gone)
    BY <1>1, <2>2 DEF SendSound, OnItsWay, OutcomeOK
  <2> QED
    BY <1>2, <1>7, <2>3, <2>4, <2>5, OneSend DEF SendSound, n
<1> QED
  BY <1>4, <1>5, <1>6, <1>7

LEMMA PruneSound ==
  ASSUME SendsInv, NEW t \in Senders, Prune(t)
  PROVE  SendsInv'
<1> DEFINE s == send[t]
           n == [s EXCEPT !.pc = "next", !.hand = <<>>, !.expired = TRUE]
<1>1. SendSound(s, gone) /\ s \in SendRow /\ s.pc = "prune"
  BY DEF SendsInv, Prune, SendSound
<1>2. gone' = gone /\ Becomes(t, n)
  BY DEF Prune, During
<1>3. SettingsOK'
  <2>1. sub' \in [Browsers -> [owner : Readers \cup {NoOwner}, id : Nat]]
    <3> DEFINE b == s.hand[1]
               o == IF sub[b].id = s.hand[2] THEN NoOwner ELSE sub[b].owner
    <3>1. sub' = [sub EXCEPT ![b] = [sub[b] EXCEPT !.owner = o]]
      BY DEF Prune, SendsInv, SettingsOK
    <3>2. ASSUME b \in Browsers
          PROVE  [sub[b] EXCEPT !.owner = o] \in [owner : Readers \cup {NoOwner}, id : Nat]
      BY <3>2 DEF SendsInv, SettingsOK
    <3> HIDE DEF b, o
    <3> QED
      BY <3>1, <3>2 DEF SendsInv, SettingsOK
  <2> QED
    BY <2>1 DEF Prune, During, SendsInv, SettingsOK
<1> HIDE DEF s
<1>4. /\ n.pc = "next" /\ n.left = s.left
      /\ n.hand = <<>> /\ n.expired = TRUE
      /\ n.read = s.read /\ n.reached = s.reached
      /\ n.refused = s.refused /\ n.cut = s.cut
  BY <1>1 DEF SendRow
<1>5. n \in SendRow
  BY <1>1, <1>4 DEF SendRow
<1> HIDE DEF n
<1>6. Tidy(n) /\ OnItsWay(n, gone) /\ OutcomeOK(n, gone)
  BY <1>1, <1>4 DEF SendSound, Tidy, OnItsWay, OutcomeOK
<1> QED
  BY <1>2, <1>3, <1>5, <1>6, OneSend DEF SendSound

LEMMA CutShortSound ==
  ASSUME SendsInv, NEW t \in Senders, CutShort(t)
  PROVE  SendsInv'
<1> DEFINE s == send[t]
           n == [s EXCEPT !.pc = "failed", !.left = {}, !.hand = <<>>, !.cut = TRUE]
<1>1. SendSound(s, gone) /\ s \in SendRow
  BY DEF SendsInv, SendSound
<1>2. gone' = gone /\ SettingsOK' /\ Becomes(t, n)
  BY DEF CutShort, During, SendsInv, SettingsOK
<1> HIDE DEF s
<1>3. /\ n.pc = "failed" /\ n.left = {}
      /\ n.hand = <<>> /\ n.expired = s.expired
      /\ n.read = s.read /\ n.reached = s.reached
      /\ n.refused = s.refused /\ n.cut = TRUE
  BY <1>1 DEF SendRow
<1>4. n \in SendRow
  BY <1>1, <1>3 DEF SendRow
<1> HIDE DEF n
<1>5. Tidy(n) /\ OnItsWay(n, gone) /\ OutcomeOK(n, gone)
  BY <1>1, <1>3 DEF SendSound, Tidy, OnItsWay, OutcomeOK
<1> QED
  BY <1>2, <1>4, <1>5, OneSend DEF SendSound

LEMMA NoAnswerSound ==
  ASSUME SendsInv, NEW t \in Senders, NEW r \in send[t].left, NoAnswer(t, r)
  PROVE  SendsInv'
<1> DEFINE s == send[t]
<1>1. SendSound(s, gone) /\ s \in SendRow /\ r \in s.left
  BY DEF SendsInv, SendSound
<1>2. PICK got \in SUBSET ({r[1]} \ gone) :
        Becomes(t, [s EXCEPT !.pc = "failed", !.left = {}, !.reached = @ \cup got, !.cut = TRUE])
  BY DEF NoAnswer
<1> DEFINE n == [s EXCEPT !.pc = "failed", !.left = {}, !.reached = @ \cup got, !.cut = TRUE]
<1>3. gone' = gone /\ SettingsOK' /\ Becomes(t, n)
  BY <1>2 DEF NoAnswer, During, SendsInv, SettingsOK
<1> HIDE DEF s
<1>4. r[1] \in Places /\ r[1] \in s.read /\ r[1] \notin s.refused /\ got \subseteq {r[1]}
  BY <1>1 DEF SendSound, SendRow, Tidy, Targets
<1>5. /\ n.pc = "failed" /\ n.left = {}
      /\ n.hand = s.hand /\ n.expired = s.expired
      /\ n.read = s.read /\ n.reached = s.reached \cup got
      /\ n.refused = s.refused /\ n.cut = TRUE
  BY <1>1 DEF SendRow
<1>6. n \in SendRow
  BY <1>1, <1>4, <1>5 DEF SendRow
<1> HIDE DEF n
<1>7. Tidy(n)
  BY <1>1, <1>4, <1>5 DEF SendSound, Tidy
<1>8. OnItsWay(n, gone) /\ OutcomeOK(n, gone)
  BY <1>5 DEF OnItsWay, OutcomeOK
<1> QED
  BY <1>3, <1>6, <1>7, <1>8, OneSend DEF SendSound

LEMMA FinishSound ==
  ASSUME SendsInv, NEW t \in Senders, FinishSend(t)
  PROVE  SendsInv'
<1> DEFINE s == send[t]
           n == [s EXCEPT !.pc = IF s.refused = s.read THEN "failed" ELSE "sent"]
<1>1. SendSound(s, gone) /\ s \in SendRow /\ s.pc = "next" /\ s.left = {}
  BY DEF SendsInv, SendSound, FinishSend
<1>2. gone' = gone /\ SettingsOK' /\ Becomes(t, n)
  BY DEF FinishSend, During, SendsInv, SettingsOK
<1> HIDE DEF s
<1>3. /\ n.pc = (IF s.refused = s.read THEN "failed" ELSE "sent") /\ n.left = {}
      /\ n.hand = s.hand /\ n.expired = s.expired
      /\ n.read = s.read /\ n.reached = s.reached
      /\ n.refused = s.refused /\ n.cut = s.cut
  BY <1>1 DEF SendRow
<1>4. n \in SendRow
  BY <1>1, <1>3 DEF SendRow
<1> HIDE DEF n
<1>5. Tidy(n) /\ OnItsWay(n, gone)
  BY <1>1, <1>3 DEF SendSound, Tidy, OnItsWay
<1>6. OutcomeOK(n, gone)
  <2>1. s.read \subseteq s.reached \cup s.refused \cup gone
    BY <1>1 DEF SendSound, OnItsWay
  <2>2. s.refused = s.read => s.reached = {}
    BY <1>1 DEF SendSound, Tidy
  <2>3. ~s.cut
    BY <1>1 DEF SendSound, OutcomeOK
  <2> QED
    BY <1>3, <2>1, <2>2, <2>3 DEF OutcomeOK
<1> QED
  BY <1>2, <1>4, <1>5, <1>6, OneSend DEF SendSound

\* The readers' requests, and a browser that goes.
LEMMA RequestSound ==
  ASSUME SendsInv, NEW u \in Readers,
         \/ \E b \in Browsers : Subscribe(u, b) \/ Unsubscribe(u, b)
         \/ \E ch \in Names : \/ \E data \in Data : UpdateChannelConfig(u, ch, data)
                              \/ DeleteChannelConfig(u, ch)
  PROVE  SendsInv'
<1>1. ASSUME NEW b \in Browsers, Subscribe(u, b) PROVE SendsInv'
  <2>1. sub' \in [Browsers -> [owner : Readers \cup {NoOwner}, id : Nat]]
    <3>1. Subscription(u, IF sub[b].owner = NoOwner THEN sub[b].id + 1 ELSE sub[b].id)
            \in [owner : Readers \cup {NoOwner}, id : Nat]
      BY DEF Subscription, SendsInv, SettingsOK
    <3> QED
      BY <1>1, <3>1 DEF Subscribe, SendsInv, SettingsOK
  <2> QED
    BY <1>1, <2>1, NoSend DEF Subscribe, Edit, SendsInv, SettingsOK
<1>2. ASSUME NEW b \in Browsers, Unsubscribe(u, b) PROVE SendsInv'
  <2>1. sub' \in [Browsers -> [owner : Readers \cup {NoOwner}, id : Nat]]
    <3>1. [sub[b] EXCEPT !.owner = NoOwner] \in [owner : Readers \cup {NoOwner}, id : Nat]
      BY DEF SendsInv, SettingsOK
    <3>2. sub' = [sub EXCEPT ![b] = [sub[b] EXCEPT !.owner = NoOwner]]
      BY <1>2 DEF Unsubscribe, SendsInv, SettingsOK
    <3> QED
      BY <3>1, <3>2 DEF SendsInv, SettingsOK
  <2> QED
    BY <1>2, <2>1, NoSend DEF Unsubscribe, Edit, SendsInv, SettingsOK
<1>3. ASSUME NEW ch \in Names, NEW data \in Data \cup {NoData},
             data # NoData => Accepts(ch, data),
             config' = [config EXCEPT ![u] = [config[u] EXCEPT ![ch] = data]],
             sub' = sub, send' = send, gone' = gone
      PROVE  SendsInv'
  <2>1. [config[u] EXCEPT ![ch] = data] \in [Names -> Data \cup {NoData}]
    BY DEF SendsInv, SettingsOK
  <2>2. config' \in [Readers -> [Names -> Data \cup {NoData}]]
    BY <1>3, <2>1 DEF SendsInv, SettingsOK
  <2>3. \A v \in Readers, k \in Names :
          config'[v][k] = IF v = u /\ k = ch THEN data ELSE config[v][k]
    BY <1>3 DEF SendsInv, SettingsOK
  <2>4. SettingsOK'
    BY <1>3, <2>2, <2>3 DEF SendsInv, SettingsOK
  <2> QED
    BY <1>3, <2>4, NoSend
<1>4. ASSUME NEW ch \in Names, NEW data \in Data, UpdateChannelConfig(u, ch, data) PROVE SendsInv'
  BY <1>3, <1>4 DEF UpdateChannelConfig, Edit, SendsInv, SettingsOK
<1>5. ASSUME NEW ch \in Names, DeleteChannelConfig(u, ch) PROVE SendsInv'
  BY <1>3, <1>5 DEF DeleteChannelConfig, Edit, SendsInv, SettingsOK
<1> QED
  BY <1>1, <1>2, <1>4, <1>5

LEMMA StepSends == SendsInv /\ [ChannelsNext]_channelVars => SendsInv'
<1> SUFFICES ASSUME SendsInv, [ChannelsNext]_channelVars PROVE SendsInv'
  OBVIOUS
<1>1. CASE \E u \in Readers, b \in Browsers : Subscribe(u, b) \/ Unsubscribe(u, b)
  BY <1>1, RequestSound
<1>2. CASE \E u \in Readers, ch \in Names :
             \/ \E data \in Data : UpdateChannelConfig(u, ch, data)
             \/ DeleteChannelConfig(u, ch)
  BY <1>2, RequestSound
<1>3. CASE \E u \in Readers, ch \in Names, t \in Senders : StartSend(t, u, ch)
  BY <1>3, StartSound
<1>4. CASE \E b \in Browsers : Drop(b)
  BY <1>4, NoSend DEF Drop, SendsInv, SettingsOK
<1>5. CASE \E t \in Senders : \E r \in send[t].left : Post(t, r) \/ NoAnswer(t, r)
  BY <1>5, PostSound, NoAnswerSound
<1>6. CASE \E t \in Senders : Prune(t) \/ CutShort(t) \/ FinishSend(t)
  BY <1>6, PruneSound, CutShortSound, FinishSound
<1>7. CASE UNCHANGED channelVars
  BY <1>7, NoSend DEF channelVars, SendsInv, SettingsOK
<1> QED
  BY <1>1, <1>2, <1>3, <1>4, <1>5, <1>6, <1>7 DEF ChannelsNext

LEMMA RestSound == NoChannels => SendsInv
<1> SUFFICES ASSUME NoChannels PROVE SendsInv
  OBVIOUS
<1>1. SettingsOK
  BY DEF NoChannels, SettingsOK, Subscription
<1>2. SendSound(Waiting, {})
  BY DEF SendSound, Tidy, OnItsWay, OutcomeOK, Waiting, SendRow
<1>3. Waiting \in SendRow
  BY <1>2 DEF SendSound
<1> QED
  BY <1>1, <1>2, <1>3 DEF NoChannels, SendsInv

\* An alert that counts as sent went to every browser or channel its reader had
\* set up but for refusals and browsers that are gone, one whose sending raised never
\* counts as sent, and one that failed reached nobody unless its sending raised: for
\* any number of readers, browsers, threads, lost answers and failures.
THEOREM OutcomeIsTrue == RegistrySpec => []SentMeansReached
<1>1. SendsInv => SentMeansReached
  BY DEF SendsInv, SendSound, OutcomeOK, SentMeansReached
<1>2. RegistryInit => SendsInv
  BY InitSends, RestSound DEF RegistryInit
<1>3. SendsInv /\ [RegistryNext]_<<vars, directoryVars, channelVars>> => SendsInv'
  <2>1. [RegistryNext]_<<vars, directoryVars, channelVars>> => [ChannelsNext]_channelVars
    BY DEF RegistryNext
  <2> QED
    BY <2>1, StepSends
<1> QED
  BY <1>1, <1>2, <1>3, PTL DEF RegistrySpec

(***************************************************************************)
(* The company directory: where a symbol leads.                            *)
(***************************************************************************)

Tables == [Ids -> Rows \cup {Nobody}]
AliasMaps == [Symbols -> Aliases \cup {Nobody}]

\* A row has the CIK that its ticker's issuer has, or none if FMP knows none.
RowGood(row) == IF row.cik = NoCik THEN Cik[row.ticker] = NoCik ELSE Fits(row.cik, row.ticker)

\* Row i of a table may be shown for symbol s.
Owns(tab, i, s) ==
  /\ i \in Known(tab)
  /\ Fits(tab[i].cik, s) \/ (tab[i].cik = NoCik /\ tab[i].ticker = s)

TableOK(tab) ==
  /\ tab \in Tables
  /\ \A i \in Known(tab) : RowGood(tab[i])
  /\ \A i, k \in Known(tab) : tab[i].ticker = tab[k].ticker => i = k

AliasesOK(tab, al) ==
  /\ al \in AliasMaps
  /\ \A s \in Symbols : al[s] # Nobody => Owns(tab, al[s].of, s)

EventsOK(tab, ev) ==
  \A e \in Events : ev[e] # Nobody =>
    /\ ev[e] \in [ticker : Symbols, of : Ids \cup {Nobody}]
    /\ ev[e].of # Nobody => Owns(tab, ev[e].of, ev[e].ticker)

\* A ticker or an alias of this name.
Opens(tab, al, s) == Live(tab, s) # {} \/ al[s] # Nobody

\* No row is lost or given to another issuer, and one without a CIK keeps its name.
Follows(old, new) ==
  \A i \in Known(old) :
    /\ i \in Known(new) /\ new[i].cik = old[i].cik
    /\ old[i].cik = NoCik => new[i].ticker = old[i].ticker

\* What a commit of the session would leave.
Mix(tab, d) == [i \in Ids |-> IF i \in d.touched THEN d.company[i] ELSE tab[i]]

DraftGood(tab, al, d, tickers) ==
  /\ d \in [company : Tables, alias : AliasMaps, touched : SUBSET Ids]
  /\ d.touched \subseteq Known(d.company)
  /\ \A i \in Known(d.company) \ d.touched : tab[i] = d.company[i]
  /\ \A i \in d.touched : d.company[i].ticker \in tickers
  /\ TableOK(Mix(tab, d)) /\ AliasesOK(Mix(tab, d), d.alias)
  /\ Follows(tab, Mix(tab, d))
  /\ \A s \in Symbols : Opens(tab, al, s) => Opens(Mix(tab, d), d.alias, s)

RunRow == [universe : SUBSET Symbols, todo : SUBSET Symbols, tickers : SUBSET Symbols,
           ciks : SUBSET Ids, classes : SUBSET Symbols, budget : Nat, pending : BOOLEAN,
           dirty : Nat]

\* What was looked up opens something.
RunGood(tab, d, r, left) ==
  /\ r \in RunRow /\ r.todo \subseteq r.universe
  /\ r.ciks \subseteq Known(d.company)
  /\ \A s \in r.classes : Opens(Mix(tab, d), d.alias, s)
  /\ ~r.pending => \A s \in r.universe \ left : Opens(Mix(tab, d), d.alias, s)

DirectoryInv ==
  /\ TableOK(company) /\ AliasesOK(company, alias) /\ EventsOK(company, event)
  /\ pc = "rows" => /\ DraftGood(company, alias, draft, run.tickers)
                    /\ RunGood(company, draft, run, run.todo)
  /\ pc \in {"delist", "alias", "link", "ended"} =>
       /\ run.universe \subseteq Symbols
       /\ ~run.pending => \A s \in run.universe : Opens(company, alias, s)
  /\ fmp \subseteq Symbols

\* What one step leaves standing.
DirectoryMoves ==
  /\ Follows(company, company')
  /\ \A s \in Symbols : Opens(company, alias, s) => Opens(company', alias', s)
  /\ \A e \in Events : event[e] # Nobody /\ event[e].of # Nobody => event'[e] = event[e]

LEMMA RowFacts ==
  ASSUME NEW t \in Symbols, NEW c \in Ciks, NEW l \in {"yes", "no", "new"}
  PROVE  /\ Row(t, c, l) \in Rows /\ Row(t, c, l) # Nobody
         /\ Row(t, c, l).ticker = t /\ Row(t, c, l).cik = c
<1>1. Row(t, c, l) \in Rows
  BY DEF Row, Rows
<1> QED
  BY <1>1, DirectoryAssumption DEF Row

LEMMA AliasFacts ==
  ASSUME NEW i \in Ids, NEW kind \in {"share_class", "former"}
  PROVE  /\ Alias(i, kind) \in Aliases /\ Alias(i, kind) # Nobody
         /\ Alias(i, kind).of = i
<1>1. Alias(i, kind) \in Aliases
  BY DEF Alias, Aliases
<1> QED
  BY <1>1, DirectoryAssumption DEF Alias

LEMMA KnownRows ==
  ASSUME NEW tab \in Tables, NEW i \in Known(tab)
  PROVE  i \in Ids /\ tab[i] \in Rows /\ tab[i].ticker \in Symbols /\ tab[i].cik \in Ciks
BY DEF Known, Tables, Rows

\* Aliases and events survive what rows may go through.
LEMMA OwnsStays ==
  ASSUME NEW old, NEW new, Follows(old, new), NEW i, NEW s, Owns(old, i, s)
  PROVE  Owns(new, i, s)
BY DEF Owns, Follows

LEMMA FollowsOn ==
  ASSUME NEW a, NEW b, NEW c, Follows(a, b), Follows(b, c)
  PROVE  Follows(a, c)
BY DEF Follows

LEMMA FollowsSelf == ASSUME NEW a PROVE Follows(a, a)
BY DEF Follows

LEMMA EventsStay ==
  ASSUME NEW old, NEW new, Follows(old, new), NEW ev, EventsOK(old, ev)
  PROVE  EventsOK(new, ev)
BY OwnsStays DEF EventsOK

\* Two rows that may be shown for one symbol are of one issuer.
LEMMA OneOwner ==
  ASSUME OneIssuer, NEW old, NEW new, TableOK(old), TableOK(new), Follows(old, new),
         NEW s \in Symbols, NEW i, NEW k, Owns(old, i, s), Owns(new, k, s)
  PROVE  IF old[i].cik = NoCik THEN k = i /\ new[k].cik = NoCik ELSE new[k].cik = old[i].cik
<1>1. /\ i \in Known(old) /\ i \in Known(new) /\ k \in Known(new) /\ new[i].cik = old[i].cik
      /\ old[i].cik = NoCik => new[i].ticker = old[i].ticker
  BY DEF Owns, Follows
<1>2. /\ new \in Tables /\ RowGood(new[i]) /\ RowGood(new[k])
      /\ new[i].ticker = new[k].ticker => i = k
  BY <1>1 DEF TableOK
<1>3. /\ new[i].ticker \in Symbols /\ new[k].ticker \in Symbols
      /\ new[i].cik \in Ciks /\ new[k].cik \in Ciks
  BY <1>1, <1>2, KnownRows
<1>4. Owns(new, i, s)
  BY OwnsStays
<1>5. \A x \in {i, k} : new[x].cik = NoCik => new[x].ticker = s /\ Cik[s] = NoCik
  BY <1>2, <1>4 DEF Owns, Fits, RowGood
<1>6. \A x \in {i, k} : new[x].cik # NoCik => Fits(new[x].cik, s) /\ Fits(new[x].cik, new[x].ticker)
  BY <1>2, <1>4 DEF Owns, RowGood
<1>7. ASSUME NEW x \in {i, k}, new[x].cik # NoCik, Cik[s] = NoCik PROVE new[x].ticker = s
  BY <1>3, <1>6, <1>7 DEF OneIssuer
<1>8. CASE new[i].cik = NoCik
  BY <1>1, <1>2, <1>5, <1>7, <1>8
<1>9. CASE new[i].cik # NoCik /\ new[k].cik = NoCik
  BY <1>1, <1>2, <1>5, <1>7, <1>9
<1>10. CASE new[i].cik # NoCik /\ new[k].cik # NoCik
  BY <1>1, <1>3, <1>6, <1>10 DEF OneIssuer
<1> QED
  BY <1>8, <1>9, <1>10

\* Whatever a symbol leads to may be shown for it.
LEMMA NamedOwns ==
  ASSUME DirectoryInv, NEW s \in Symbols, NEW i \in BySymbol(s)
  PROVE  Owns(company, i, s)
<1>1. CASE Live(company, s) # {}
  <2>1. i \in Known(company) /\ company[i].ticker = s /\ RowGood(company[i])
    BY <1>1 DEF BySymbol, Live, DirectoryInv, TableOK
  <2> QED
    BY <2>1 DEF RowGood, Owns
<1>2. CASE Live(company, s) = {}
  BY <1>2 DEF BySymbol, DirectoryInv, AliasesOK
<1> QED
  BY <1>1, <1>2

LEMMA CarriedOwns ==
  ASSUME DirectoryInv, NEW s \in Symbols, NEW i \in Carrying(s), i # Nobody
  PROVE  Owns(company, i, s)
BY DEF Carrying, DirectoryInv, EventsOK

LEMMA ResolvedOwns ==
  ASSUME DirectoryInv, NEW s \in Symbols, NEW i \in Resolves(s)
  PROVE  Owns(company, i, s)
BY NamedOwns, CarriedOwns DEF Resolves

LEMMA OpensBySymbol ==
  ASSUME NEW s \in Symbols
  PROVE  Opens(company, alias, s) <=> BySymbol(s) # {}
BY DEF Opens, BySymbol

(***************************************************************************)
(* The session of a run, and its commits.                                  *)
(***************************************************************************)

LEMMA MixFacts ==
  ASSUME NEW tab, NEW al, NEW d, NEW tickers, DraftGood(tab, al, d, tickers),
         tab \in Tables
  PROVE  /\ \A i \in Known(d.company) : /\ i \in Known(Mix(tab, d))
                                        /\ Mix(tab, d)[i] = d.company[i]
         /\ \A i \in Ids \ d.touched : Mix(tab, d)[i] = tab[i]
         /\ Mix(tab, d) \in Tables
         /\ \A i \in Known(tab) : i \in Known(Mix(tab, d))
BY DEF DraftGood, Mix, Known, TableOK, Follows

\* A row written: a new one, or one whose name or listing changes.
Written(tab, d, n, i, row, left) ==
  /\ i \in Ids /\ row \in Rows /\ RowGood(row)
  /\ n \in [company : Tables, alias : AliasMaps, touched : SUBSET Ids]
  /\ n.company = [d.company EXCEPT ![i] = row] /\ n.touched = d.touched \cup {i}
  /\ \/ d.company[i] = Nobody /\ tab[i] = Nobody
     \/ /\ i \in Known(d.company) /\ row.cik = d.company[i].cik
        /\ row.cik = NoCik => row.ticker = d.company[i].ticker
        /\ d.company[i].ticker # row.ticker => n.alias[d.company[i].ticker] # Nobody
  /\ row.ticker \in left
  /\ \A k \in d.touched \ {i} : d.company[k].ticker \in left
  /\ \A k \in Known(Mix(tab, d)) : Mix(tab, d)[k].ticker = row.ticker => k = i
  /\ \A s \in Symbols : n.alias[s] # Nobody =>
       n.alias[s] = d.alias[s] \/ (n.alias[s].of = i /\ Fits(row.cik, s))
  /\ \A s \in Symbols : d.alias[s] # Nobody /\ n.alias[s] = Nobody => s = row.ticker

LEMMA PutGood ==
  ASSUME NEW tab \in Tables, NEW al, NEW d, NEW tickers, DraftGood(tab, al, d, tickers),
         NEW n, NEW left, NEW i, NEW row, Written(tab, d, n, i, row, left)
  PROVE  /\ DraftGood(tab, al, n, left)
         /\ \A s \in Symbols : Opens(Mix(tab, d), d.alias, s) => Opens(Mix(tab, n), n.alias, s)
         /\ Opens(Mix(tab, n), n.alias, row.ticker)
         /\ Known(n.company) = Known(d.company) \cup {i}
<1> DEFINE old == Mix(tab, d)
           new == Mix(tab, n)
<1> USE DEF Written
<1>1. /\ d.company \in Tables /\ d.touched \subseteq Known(d.company) /\ d.alias \in AliasMaps
      /\ TableOK(old) /\ AliasesOK(old, d.alias) /\ Follows(tab, old)
      /\ \A k \in Known(d.company) \ d.touched : tab[k] = d.company[k]
      /\ \A s \in Symbols : Opens(tab, al, s) => Opens(old, d.alias, s)
      /\ \A k \in d.touched : d.company[k].ticker \in tickers
  BY DEF DraftGood
<1>2. row # Nobody
  BY DirectoryAssumption
<1>3. /\ old \in Tables /\ new \in Tables
      /\ new = [old EXCEPT ![i] = row]
  BY <1>1 DEF Mix, Tables, Known
<1>4. Known(n.company) = Known(d.company) \cup {i} /\ Known(new) = Known(old) \cup {i}
  BY <1>1, <1>2, <1>3 DEF Known, Tables
<1>5. \/ i \notin Known(old)
      \/ /\ i \in Known(old) /\ i \in Known(d.company) /\ old[i] = d.company[i]
         /\ row.cik = old[i].cik /\ (row.cik = NoCik => row.ticker = old[i].ticker)
         /\ old[i].ticker # row.ticker => n.alias[old[i].ticker] # Nobody
  BY <1>1, MixFacts DEF Mix, Known
<1>6. new[i] = row /\ \A k \in Ids \ {i} : new[k] = old[k]
  BY <1>3 DEF Tables
<1> HIDE DEF old, new
<1>7. Follows(old, new)
  BY <1>4, <1>5, <1>6 DEF Follows, Known
<1>8. TableOK(new)
  <2>1. \A k \in Known(new) : RowGood(new[k])
    BY <1>1, <1>4, <1>6 DEF TableOK, Known
  <2>2. ASSUME NEW k \in Known(new), NEW j \in Known(new), new[k].ticker = new[j].ticker PROVE k = j
    <3>1. k \in Ids /\ j \in Ids /\ (k = i \/ k \in Known(old)) /\ (j = i \/ j \in Known(old))
      BY <1>4, <2>2 DEF Known
    <3>2. \A x \in Known(old) : old[x].ticker = row.ticker => x = i
      BY DEF old
    <3>3. \A x, y \in Known(old) : old[x].ticker = old[y].ticker => x = y
      BY <1>1 DEF TableOK
    <3> QED
      BY <1>6, <2>2, <3>1, <3>2, <3>3
  <2> QED
    BY <1>3, <2>1, <2>2 DEF TableOK
<1>9. AliasesOK(new, n.alias)
  <2>1. ASSUME NEW s \in Symbols, n.alias[s] # Nobody PROVE Owns(new, n.alias[s].of, s)
    <3>1. CASE n.alias[s] = d.alias[s]
      <4>1. Owns(old, n.alias[s].of, s)
        BY <1>1, <2>1, <3>1 DEF AliasesOK
      <4> QED
        BY <1>7, <4>1, OwnsStays
    <3>2. CASE n.alias[s].of = i /\ Fits(row.cik, s)
      BY <1>4, <1>6, <3>2 DEF Owns
    <3> QED
      BY <2>1, <3>1, <3>2
  <2> QED
    BY <2>1 DEF AliasesOK
<1>10. Opens(new, n.alias, row.ticker)
  BY <1>4, <1>6 DEF Opens, Live
<1>11. ASSUME NEW s \in Symbols, Opens(old, d.alias, s) PROVE Opens(new, n.alias, s)
  <2>1. CASE d.alias[s] # Nobody
    BY <1>10, <2>1 DEF Opens
  <2>2. CASE Live(old, s) # {}
    <3>1. PICK k \in Known(old) : old[k].ticker = s
      BY <2>2 DEF Live
    <3>2. CASE k # i
      BY <1>4, <1>6, <3>1, <3>2 DEF Opens, Live, Known
    <3>3. CASE k = i
      BY <1>5, <1>10, <3>1, <3>3 DEF Opens
    <3> QED
      BY <3>2, <3>3
  <2> QED
    BY <1>11, <2>1, <2>2 DEF Opens
<1>12. n.touched \subseteq Known(n.company)
  BY <1>1, <1>4
<1>13. \A k \in Known(n.company) \ n.touched : tab[k] = n.company[k]
  BY <1>1, <1>4 DEF Known, Tables
<1>14. \A k \in n.touched : n.company[k].ticker \in left
  BY <1>1 DEF Tables, Known
<1>15. Follows(tab, new)
  BY <1>1, <1>7, FollowsOn
<1>16. \A s \in Symbols : Opens(tab, al, s) => Opens(new, n.alias, s)
  BY <1>1, <1>11
<1> QED
  BY <1>4, <1>8, <1>9, <1>10, <1>11, <1>12, <1>13, <1>14, <1>15, <1>16 DEF DraftGood, old, new

\* A share class noted.
LEMMA ClassGood ==
  ASSUME NEW tab \in Tables, NEW al, NEW d, NEW tickers, DraftGood(tab, al, d, tickers),
         NEW i \in Known(d.company), NEW s \in Symbols, Fits(d.company[i].cik, s),
         NEW n, n = [d EXCEPT !.alias[s] = Alias(i, "share_class")]
  PROVE  /\ DraftGood(tab, al, n, tickers)
         /\ \A x \in Symbols : Opens(Mix(tab, d), d.alias, x) => Opens(Mix(tab, n), n.alias, x)
         /\ Opens(Mix(tab, n), n.alias, s)
         /\ n.company = d.company
<1>1. /\ d \in [company : Tables, alias : AliasMaps, touched : SUBSET Ids]
      /\ AliasesOK(Mix(tab, d), d.alias)
  BY DEF DraftGood
<1>2. /\ n \in [company : Tables, alias : AliasMaps, touched : SUBSET Ids]
      /\ n.company = d.company /\ n.touched = d.touched
      /\ n.alias = [d.alias EXCEPT ![s] = Alias(i, "share_class")]
  BY <1>1, AliasFacts DEF AliasMaps, Known
<1>3. Mix(tab, n) = Mix(tab, d)
  BY <1>2 DEF Mix
<1>4. n.alias[s] = Alias(i, "share_class") /\ \A x \in Symbols \ {s} : n.alias[x] = d.alias[x]
  BY <1>1, <1>2 DEF AliasMaps
<1>5. n.alias[s] # Nobody /\ n.alias[s].of = i
  BY <1>4, AliasFacts DEF Known
<1>6. \A x \in Symbols : Opens(Mix(tab, d), d.alias, x) => Opens(Mix(tab, n), n.alias, x)
  BY <1>3, <1>4, <1>5 DEF Opens
<1>7. Owns(Mix(tab, d), i, s)
  BY MixFacts DEF Owns
<1>8. AliasesOK(Mix(tab, n), n.alias)
  BY <1>1, <1>2, <1>3, <1>4, <1>5, <1>7 DEF AliasesOK
<1>9. Opens(Mix(tab, n), n.alias, s)
  BY <1>5 DEF Opens
<1> QED
  BY <1>2, <1>3, <1>6, <1>8, <1>9 DEF DraftGood

\* A row more in the table, which the session does not know.
LEMMA AddedGood ==
  ASSUME NEW tab \in Tables, NEW al, NEW d, NEW tickers, DraftGood(tab, al, d, tickers),
         NEW i \in Ids, tab[i] = Nobody, d.company[i] = Nobody,
         NEW row \in Rows, RowGood(row),
         Live(tab, row.ticker) = {}, Live(d.company, row.ticker) = {}, al[row.ticker] = Nobody,
         NEW new, new = [tab EXCEPT ![i] = row]
  PROVE  /\ DraftGood(new, al, d, tickers)
         /\ \A s \in Symbols : Opens(Mix(tab, d), d.alias, s) => Opens(Mix(new, d), d.alias, s)
<1>1. row # Nobody
  BY DirectoryAssumption
<1>2. /\ d \in [company : Tables, alias : AliasMaps, touched : SUBSET Ids]
      /\ d.touched \subseteq Known(d.company)
      /\ TableOK(Mix(tab, d)) /\ AliasesOK(Mix(tab, d), d.alias) /\ Follows(tab, Mix(tab, d))
      /\ \A k \in Known(d.company) \ d.touched : tab[k] = d.company[k]
      /\ \A s \in Symbols : Opens(tab, al, s) => Opens(Mix(tab, d), d.alias, s)
  BY DEF DraftGood
<1>3. i \notin d.touched /\ new[i] = row /\ new \in Tables /\ \A k \in Ids \ {i} : new[k] = tab[k]
  BY <1>2 DEF Known, Tables
<1>4. /\ Mix(new, d)[i] = row /\ Mix(tab, d)[i] = Nobody
      /\ \A k \in Ids \ {i} : Mix(new, d)[k] = Mix(tab, d)[k]
      /\ Mix(new, d) \in Tables
  BY <1>2, <1>3 DEF Mix, Tables
<1>5. Known(Mix(new, d)) = Known(Mix(tab, d)) \cup {i} /\ i \notin Known(Mix(tab, d))
  BY <1>1, <1>4 DEF Known
<1>6. \A k \in Known(Mix(tab, d)) : Mix(tab, d)[k].ticker # row.ticker
  <2> SUFFICES ASSUME NEW k \in Known(Mix(tab, d)), Mix(tab, d)[k].ticker = row.ticker PROVE FALSE
    OBVIOUS
  <2>1. CASE k \in d.touched
    BY <1>2, <2>1 DEF Mix, Live, Known
  <2>2. CASE k \notin d.touched
    BY <2>2 DEF Mix, Live, Known
  <2> QED
    BY <2>1, <2>2
<1>7. TableOK(Mix(new, d))
  <2>1. \A k \in Known(Mix(new, d)) : RowGood(Mix(new, d)[k])
    BY <1>2, <1>4, <1>5 DEF TableOK, Known
  <2>2. \A k, j \in Known(Mix(new, d)) : Mix(new, d)[k].ticker = Mix(new, d)[j].ticker => k = j
    <3> HIDE DEF Mix
    <3>1. \A k \in Known(Mix(tab, d)) : k \in Ids
      BY DEF Known
    <3>2. \A k, j \in Known(Mix(tab, d)) : Mix(tab, d)[k].ticker = Mix(tab, d)[j].ticker => k = j
      BY <1>2 DEF TableOK
    <3> SUFFICES ASSUME NEW k \in Known(Mix(new, d)), NEW j \in Known(Mix(new, d)),
                        Mix(new, d)[k].ticker = Mix(new, d)[j].ticker
                 PROVE  k = j
      OBVIOUS
    <3>3. \A x \in Known(Mix(tab, d)) : Mix(new, d)[x] = Mix(tab, d)[x]
      BY <1>4, <1>5, <3>1
    <3>4. CASE k \in Known(Mix(tab, d)) /\ j \in Known(Mix(tab, d))
      BY <3>2, <3>3, <3>4
    <3>5. CASE k = i \/ j = i
      BY <1>4, <1>5, <1>6, <3>3, <3>5
    <3> QED
      BY <1>5, <3>4, <3>5
  <2> QED
    BY <1>4, <2>1, <2>2 DEF TableOK
<1>8. Follows(Mix(tab, d), Mix(new, d))
  BY <1>4, <1>5 DEF Follows, Known
<1>9. AliasesOK(Mix(new, d), d.alias)
  BY <1>2, <1>8, OwnsStays DEF AliasesOK
<1>10. Follows(new, Mix(new, d))
  <2> SUFFICES ASSUME NEW k \in Known(new)
        PROVE  /\ k \in Known(Mix(new, d)) /\ Mix(new, d)[k].cik = new[k].cik
               /\ new[k].cik = NoCik => Mix(new, d)[k].ticker = new[k].ticker
    BY DEF Follows
  <2>1. CASE k = i
    BY <1>3, <1>4, <1>5, <2>1
  <2>2. CASE k # i
    <3>1. k \in Known(tab) /\ new[k] = tab[k] /\ Mix(new, d)[k] = Mix(tab, d)[k]
      BY <1>3, <1>4, <2>2 DEF Known
    <3> QED
      BY <1>2, <1>5, <3>1 DEF Follows
  <2> QED
    BY <2>1, <2>2
<1>11. \A s \in Symbols : Opens(Mix(tab, d), d.alias, s) => Opens(Mix(new, d), d.alias, s)
  <2> SUFFICES ASSUME NEW s \in Symbols, Live(Mix(tab, d), s) # {} PROVE Live(Mix(new, d), s) # {}
    BY DEF Opens
  <2>1. PICK k \in Known(Mix(tab, d)) : Mix(tab, d)[k].ticker = s
    BY DEF Live
  <2>2. k \in Ids /\ k # i /\ k \in Known(Mix(new, d))
    BY <1>5, <2>1 DEF Known
  <2>3. Mix(new, d)[k].ticker = s
    BY <1>4, <2>1, <2>2
  <2> QED
    BY <2>2, <2>3 DEF Live
<1>12. \A s \in Symbols : Opens(new, al, s) => Opens(Mix(new, d), d.alias, s)
  <2> SUFFICES ASSUME NEW s \in Symbols, Opens(new, al, s) PROVE Opens(Mix(new, d), d.alias, s)
    OBVIOUS
  <2>1. CASE s = row.ticker
    BY <1>4, <1>5, <2>1 DEF Opens, Live
  <2>2. CASE s # row.ticker
    <3>1. Opens(tab, al, s)
      BY <1>3, <2>2 DEF Opens, Live, Known
    <3> QED
      BY <1>2, <1>11, <3>1
  <2> QED
    BY <2>1, <2>2
<1>13. \A k \in Known(d.company) \ d.touched : new[k] = d.company[k]
  BY <1>2, <1>3 DEF Known
<1> QED
  BY <1>2, <1>7, <1>9, <1>10, <1>11, <1>12, <1>13 DEF DraftGood

\* A commit brings the tables to what the session has.
LEMMA CommitGood ==
  ASSUME DirectoryInv, pc = "rows", NEW d, NEW tickers, DraftGood(company, alias, d, tickers),
         Commit(d), UNCHANGED event
  PROVE  /\ TableOK(company') /\ AliasesOK(company', alias') /\ EventsOK(company', event')
         /\ DirectoryMoves
         /\ company' = Mix(company, d) /\ alias' = d.alias
         /\ DraftGood(company', alias', draft', tickers)
         /\ Mix(company', draft') = Mix(company, d) /\ draft'.alias = d.alias
         /\ Known(d.company) \subseteq Known(draft'.company)
<1>1. PICK new : new = Mix(company, d)
  OBVIOUS
<1>2. company' = new /\ alias' = d.alias /\ draft' = [d EXCEPT !.touched = {}, !.company = new]
  BY <1>1 DEF Commit, Mix
<1>3. /\ d \in [company : Tables, alias : AliasMaps, touched : SUBSET Ids]
      /\ TableOK(new) /\ AliasesOK(new, d.alias) /\ Follows(company, new)
      /\ \A s \in Symbols : Opens(company, alias, s) => Opens(new, d.alias, s)
  BY <1>1 DEF DraftGood
<1>4. company \in Tables /\ EventsOK(company, event)
  BY DEF DirectoryInv, TableOK
<1>5. EventsOK(new, event)
  BY <1>3, <1>4, EventsStay
<1>6. DirectoryMoves
  BY <1>2, <1>3 DEF DirectoryMoves
<1>7. PICK n : n = [d EXCEPT !.touched = {}, !.company = new]
  OBVIOUS
<1>8. /\ n \in [company : Tables, alias : AliasMaps, touched : SUBSET Ids]
      /\ n.company = new /\ n.touched = {} /\ n.alias = d.alias
  BY <1>3, <1>7 DEF TableOK
<1>9. Mix(new, n) = new
  BY <1>3, <1>8 DEF Mix, TableOK, Tables
<1>10. DraftGood(new, d.alias, n, tickers)
  BY <1>3, <1>8, <1>9, FollowsSelf DEF DraftGood
<1>11. Known(d.company) \subseteq Known(new)
  BY <1>1, <1>4, MixFacts
<1>12. draft' = n
  BY <1>2, <1>7
<1> QED
  BY <1>1, <1>2, <1>3, <1>5, <1>6, <1>8, <1>9, <1>10, <1>11, <1>12

LEMMA MovesNot ==
  ASSUME UNCHANGED <<company, alias, event>>
  PROVE  DirectoryMoves
BY FollowsSelf DEF DirectoryMoves

\* The end of any row of the universe.
LEMMA RowDone ==
  ASSUME DirectoryInv, pc = "rows", NEW s \in run.todo,
         NEW d, NEW r, DraftGood(company, alias, d, r.tickers),
         RunGood(company, d, r, r.todo \ {s}), s \in r.todo,
         AfterRow(s, d, r) \/ PastRow(s, d, r)
  PROVE  DirectoryInv' /\ DirectoryMoves
<1>1. PICK left : left = r.todo \ {s}
  OBVIOUS
<1>2. PICK count : count = (r.dirty + 1) % Batch
  OBVIOUS
<1>3. r \in RunRow /\ r.todo \subseteq r.universe
  BY DEF RunGood
<1>4. count \in Nat
  BY <1>2, <1>3, DirectoryAssumption DEF RunRow
<1>5. PICK q : q = [r EXCEPT !.todo = left, !.dirty = count]
  OBVIOUS
<1>6. run' = q
  BY <1>1, <1>2, <1>3, <1>5 DEF AfterRow, PastRow, NextRow, RunRow
<1>7. /\ q \in RunRow /\ q.todo = left /\ q.tickers = r.tickers /\ q.universe = r.universe
      /\ q.ciks = r.ciks /\ q.classes = r.classes /\ q.pending = r.pending
  BY <1>1, <1>3, <1>4, <1>5 DEF RunRow
<1>8. pc' = "rows" /\ UNCHANGED <<event, fmp>>
  BY DEF AfterRow, PastRow
<1>9. RunGood(company, d, q, q.todo)
  BY <1>1, <1>3, <1>7 DEF RunGood
<1>10. CASE Commit(d)
  <2>1. PICK tab : tab = company'
    OBVIOUS
  <2>2. PICK n : n = draft'
    OBVIOUS
  <2>3. /\ TableOK(company') /\ AliasesOK(company', alias') /\ EventsOK(company', event')
        /\ DirectoryMoves
        /\ DraftGood(company', alias', draft', r.tickers)
        /\ Mix(tab, n) = Mix(company, d) /\ n.alias = d.alias
        /\ Known(d.company) \subseteq Known(n.company)
    BY <1>8, <1>10, <2>1, <2>2, CommitGood
  <2>4. RunGood(tab, n, q, q.todo)
    BY <1>9, <2>3 DEF RunGood
  <2>5. RunGood(company', draft', run', run'.todo)
    BY <1>6, <2>1, <2>2, <2>4
  <2>6. DraftGood(company', alias', draft', run'.tickers)
    BY <1>6, <1>7, <2>3
  <2> QED
    BY <1>8, <2>3, <2>5, <2>6 DEF DirectoryInv
<1>11. CASE draft' = d /\ UNCHANGED <<company, alias>>
  <2>1. RunGood(company', draft', run', run'.todo)
    BY <1>6, <1>9, <1>11
  <2>2. DraftGood(company', alias', draft', run'.tickers)
    BY <1>6, <1>7, <1>11
  <2>3. TableOK(company') /\ AliasesOK(company', alias') /\ EventsOK(company', event')
    BY <1>8, <1>11 DEF DirectoryInv
  <2> QED
    BY <1>8, <1>11, <2>1, <2>2, <2>3, MovesNot DEF DirectoryInv
<1> QED
  BY <1>10, <1>11 DEF AfterRow, PastRow

\* While it runs: what is so at every row.
LEMMA AtRows ==
  ASSUME DirectoryInv, pc = "rows"
  PROVE  /\ DraftGood(company, alias, draft, run.tickers)
         /\ RunGood(company, draft, run, run.todo)
         /\ company \in Tables
         /\ draft \in [company : Tables, alias : AliasMaps, touched : SUBSET Ids]
         /\ TableOK(Mix(company, draft))
         /\ run \in RunRow
         /\ run.todo \subseteq run.universe /\ run.todo \subseteq Symbols
BY DEF DirectoryInv, TableOK, DraftGood, RunGood, RunRow

\* A row that leaves the run's counters as they are.
LEMMA RunGoesOn ==
  ASSUME NEW tab, NEW old, NEW d, NEW r, NEW q, NEW s, RunGood(tab, old, r, r.todo),
         q \in RunRow, q.universe = r.universe, q.todo = r.todo,
         q.ciks \subseteq Known(d.company),
         q.classes \subseteq r.classes \cup {s},
         ~q.pending => ~r.pending /\ Opens(Mix(tab, d), d.alias, s),
         s \in q.classes \ r.classes => Opens(Mix(tab, d), d.alias, s),
         \A x \in Symbols : Opens(Mix(tab, old), old.alias, x) => Opens(Mix(tab, d), d.alias, x)
  PROVE  RunGood(tab, d, q, q.todo \ {s})
BY DEF RunGood, RunRow

LEMMA KnownStep ==
  ASSUME DirectoryInv, NEW s \in Symbols, SyncKnown(s)
  PROVE  DirectoryInv' /\ DirectoryMoves
<1>1. pc = "rows" /\ s \in run.todo
  BY DEF SyncKnown
<1>2. CASE s \in run.classes \ run.tickers /\ PastRow(s, draft, run)
  <2>1. Opens(Mix(company, draft), draft.alias, s)
    BY <1>1, <1>2, AtRows DEF RunGood
  <2>2. run.ciks \subseteq Known(draft.company)
    BY <1>1, AtRows DEF RunGood
  <2>3. RunGood(company, draft, run, run.todo \ {s})
    BY <1>1, <2>1, <2>2, AtRows, RunGoesOn
  <2> QED
    BY <1>1, <1>2, <2>3, AtRows, RowDone
<1>3. ASSUME s \in run.tickers, NEW i \in Live(draft.company, s),
             AfterRow(s, Put(draft, i, [draft.company[i] EXCEPT !.listed = "yes"]), run)
      PROVE  DirectoryInv' /\ DirectoryMoves
  <2>1. PICK row : row = [draft.company[i] EXCEPT !.listed = "yes"]
    OBVIOUS
  <2>2. PICK n : n = Put(draft, i, row)
    OBVIOUS
  <2>3. i \in Known(draft.company) /\ i \in Ids /\ draft.company[i].ticker = s
    BY DEF Live, Known
  <2>4. draft.company[i] \in Rows
    BY <1>1, <2>3, AtRows, KnownRows
  <2>5. /\ row \in Rows /\ row.ticker = s /\ row.cik = draft.company[i].cik
    BY <2>1, <2>3, <2>4 DEF Rows
  <2>6. /\ n.company = [draft.company EXCEPT ![i] = row] /\ n.touched = draft.touched \cup {i}
        /\ n.alias = draft.alias
        /\ n \in [company : Tables, alias : AliasMaps, touched : SUBSET Ids]
    BY <1>1, <2>2, <2>3, <2>5, AtRows DEF Put, Tables
  <2>7. /\ i \in Known(Mix(company, draft)) /\ Mix(company, draft)[i] = draft.company[i]
    BY <1>1, <2>3, AtRows, MixFacts
  <2>8. RowGood(row)
    BY <1>1, <2>5, <2>3, <2>7, AtRows DEF TableOK, RowGood
  <2>9. \A k \in Known(Mix(company, draft)) : Mix(company, draft)[k].ticker = row.ticker => k = i
    BY <1>1, <2>3, <2>5, <2>7, AtRows DEF TableOK
  <2>10. \A k \in draft.touched : draft.company[k].ticker \in run.tickers
    BY <1>1, AtRows DEF DraftGood
  <2>11. /\ DraftGood(company, alias, n, run.tickers)
         /\ \A x \in Symbols : Opens(Mix(company, draft), draft.alias, x)
                                 => Opens(Mix(company, n), n.alias, x)
         /\ Opens(Mix(company, n), n.alias, row.ticker)
         /\ Known(n.company) = Known(draft.company) \cup {i}
    <3>1. DraftGood(company, alias, draft, run.tickers) /\ company \in Tables
      BY <1>1, AtRows
    <3>2. Written(company, draft, n, i, row, run.tickers)
      BY <1>3, <2>3, <2>5, <2>6, <2>8, <2>9, <2>10 DEF Written
    <3> QED
      BY <3>1, <3>2, PutGood
  <2>12. run.ciks \subseteq Known(n.company)
    BY <1>1, <2>11, AtRows DEF RunGood
  <2>13. RunGood(company, n, run, run.todo \ {s})
    BY <1>1, <2>5, <2>11, <2>12, AtRows, RunGoesOn
  <2>14. AfterRow(s, n, run)
    BY <1>3, <2>1, <2>2
  <2> QED
    BY <1>1, <2>11, <2>13, <2>14, AtRows, RowDone
<1> QED
  BY <1>2, <1>3 DEF SyncKnown

LEMMA PendingStep ==
  ASSUME DirectoryInv, NEW s \in Symbols, SyncPending(s)
  PROVE  DirectoryInv' /\ DirectoryMoves
<1>1. pc = "rows" /\ s \in run.todo
  BY DEF SyncPending, Unlisted
<1>2. PICK q : q = [run EXCEPT !.pending = TRUE, !.budget = IF @ = 0 THEN 0 ELSE @ - 1]
  OBVIOUS
<1>3. /\ q \in RunRow /\ q.universe = run.universe /\ q.todo = run.todo /\ q.ciks = run.ciks
      /\ q.classes = run.classes /\ q.tickers = run.tickers /\ q.pending
  <2>1. PICK b : b = IF run.budget = 0 THEN 0 ELSE run.budget - 1
    OBVIOUS
  <2>2. run \in RunRow
    BY <1>1, AtRows
  <2>3. b \in Nat
    BY <2>1, <2>2 DEF RunRow
  <2>4. q = [run EXCEPT !.pending = TRUE, !.budget = b]
    BY <1>2, <2>1, <2>2 DEF RunRow
  <2> QED
    BY <2>2, <2>3, <2>4 DEF RunRow
<1>4. q.ciks \subseteq Known(draft.company)
  BY <1>1, <1>3, AtRows DEF RunGood
<1>5. RunGood(company, draft, q, q.todo \ {s})
  BY <1>1, <1>3, <1>4, AtRows, RunGoesOn
<1>6. PastRow(s, draft, q)
  BY <1>2 DEF SyncPending
<1> QED
  BY <1>1, <1>3, <1>5, <1>6, AtRows, RowDone

LEMMA ClassStep ==
  ASSUME DirectoryInv, NEW s \in Symbols, SyncClass(s)
  PROVE  DirectoryInv' /\ DirectoryMoves
<1>1. pc = "rows" /\ s \in run.todo /\ run.budget > 0
  BY DEF SyncClass, Unlisted
<1>2. PICK i \in Issuers(s) :
        PastRow(s, [draft EXCEPT !.alias[s] = Alias(i, "share_class")],
                [run EXCEPT !.budget = @ - 1, !.classes = @ \cup {s}])
  BY DEF SyncClass
<1>3. PICK n : n = [draft EXCEPT !.alias[s] = Alias(i, "share_class")]
  OBVIOUS
<1>4. PICK q : q = [run EXCEPT !.budget = @ - 1, !.classes = @ \cup {s}]
  OBVIOUS
<1>5. /\ q \in RunRow /\ q.universe = run.universe /\ q.todo = run.todo /\ q.ciks = run.ciks
      /\ q.classes = run.classes \cup {s} /\ q.tickers = run.tickers /\ q.pending = run.pending
  <2>1. PICK b : b = run.budget - 1
    OBVIOUS
  <2>2. run \in RunRow /\ s \in Symbols
    BY <1>1, AtRows
  <2>3. b \in Nat
    BY <1>1, <2>1, <2>2 DEF RunRow
  <2>4. q = [run EXCEPT !.budget = b, !.classes = run.classes \cup {s}]
    BY <1>4, <2>1, <2>2 DEF RunRow
  <2> QED
    BY <2>2, <2>3, <2>4 DEF RunRow
<1>6. run.ciks \subseteq Known(draft.company)
  BY <1>1, AtRows DEF RunGood
<1>7. i \in Known(draft.company) /\ Fits(draft.company[i].cik, s)
  BY <1>6 DEF Issuers, Fits
<1>8. /\ DraftGood(company, alias, n, run.tickers)
      /\ \A x \in Symbols : Opens(Mix(company, draft), draft.alias, x)
                              => Opens(Mix(company, n), n.alias, x)
      /\ Opens(Mix(company, n), n.alias, s)
      /\ n.company = draft.company
  BY <1>1, <1>3, <1>7, AtRows, ClassGood
<1>9. RunGood(company, n, q, q.todo \ {s})
  BY <1>1, <1>5, <1>6, <1>8, AtRows, RunGoesOn
<1>10. PastRow(s, n, q)
  BY <1>2, <1>3, <1>4
<1> QED
  BY <1>1, <1>5, <1>8, <1>9, <1>10, RowDone

\* A name that no session row has and nobody else committed is nobody's.
LEMMA NameFree ==
  ASSUME DirectoryInv, pc = "rows", NEW s \in Symbols, s \notin run.tickers,
         NEW i \in Ids, Unique(i, s)
  PROVE  \A k \in Known(Mix(company, draft)) : Mix(company, draft)[k].ticker = s => k = i
<1> SUFFICES ASSUME NEW k \in Known(Mix(company, draft)), Mix(company, draft)[k].ticker = s
             PROVE  k = i
  OBVIOUS
<1>1. CASE k \in draft.touched
  BY <1>1, AtRows DEF DraftGood, Mix
<1>2. CASE k \notin draft.touched
  BY <1>2 DEF Mix, Known, Unique, Live
<1> QED
  BY <1>1, <1>2

LEMMA RenameStep ==
  ASSUME DirectoryInv, NEW s \in Symbols, SyncRename(s)
  PROVE  DirectoryInv' /\ DirectoryMoves
<1>1. pc = "rows" /\ s \in run.todo /\ run.budget > 0 /\ s \notin run.tickers
  BY DEF SyncRename, Unlisted
<1>2. PICK i \in Issuers(s) :
        /\ draft.company[i].ticker \notin run.universe
        /\ Unique(i, s)
        /\ AfterRow(s, Renamed(draft, i, s),
                    [run EXCEPT !.budget = @ - 1,
                                !.tickers = (@ \ {draft.company[i].ticker}) \cup {s}])
  BY DEF SyncRename
<1>3. /\ i \in run.ciks /\ i \in Ids /\ i \in Known(draft.company)
      /\ Cik[s] # NoCik /\ draft.company[i].cik = Cik[s]
  BY <1>1, AtRows DEF Issuers, RunGood, RunRow
<1>4. PICK was : was = draft.company[i].ticker
  OBVIOUS
<1>5. draft.company[i] \in Rows /\ was \in Symbols
  BY <1>1, <1>3, <1>4, AtRows, KnownRows
<1>6. was # s
  BY <1>1, <1>2, <1>4, AtRows
<1>7. PICK row : row = [draft.company[i] EXCEPT !.ticker = s, !.listed = "yes"]
  OBVIOUS
<1>8. row \in Rows /\ row.ticker = s /\ row.cik = Cik[s] /\ RowGood(row)
  BY <1>3, <1>5, <1>7 DEF Rows, RowGood, Fits
<1>9. PICK n : n = Renamed(draft, i, s)
  OBVIOUS
<1>10. /\ n \in [company : Tables, alias : AliasMaps, touched : SUBSET Ids]
       /\ n.company = [draft.company EXCEPT ![i] = row] /\ n.touched = draft.touched \cup {i}
       /\ n.alias = [draft.alias EXCEPT ![s] = Nobody, ![was] = Alias(i, "former")]
  <2>1. /\ draft.company \in Tables /\ draft.alias \in AliasMaps /\ draft.touched \in SUBSET Ids
        /\ draft = [company |-> draft.company, alias |-> draft.alias, touched |-> draft.touched]
    BY <1>1, AtRows
  <2>2. [draft.company EXCEPT ![i] = row] \in Tables
    BY <1>3, <1>8, <2>1 DEF Tables
  <2>3. [draft.alias EXCEPT ![s] = Nobody, ![was] = Alias(i, "former")] \in AliasMaps
    BY <1>3, <1>5, <2>1, AliasFacts DEF AliasMaps
  <2>4. n = [company |-> [draft.company EXCEPT ![i] = row],
             alias |-> [draft.alias EXCEPT ![s] = Nobody, ![was] = Alias(i, "former")],
             touched |-> draft.touched \cup {i}]
    BY <1>4, <1>7, <1>9, <2>1 DEF Renamed, Put
  <2> QED
    BY <1>3, <2>1, <2>2, <2>3, <2>4
<1>11. PICK q : q = [run EXCEPT !.budget = @ - 1, !.tickers = (@ \ {was}) \cup {s}]
  OBVIOUS
<1>12. /\ q \in RunRow /\ q.universe = run.universe /\ q.todo = run.todo /\ q.ciks = run.ciks
       /\ q.classes = run.classes /\ q.tickers = (run.tickers \ {was}) \cup {s}
       /\ q.pending = run.pending
  <2>1. PICK b : b = run.budget - 1
    OBVIOUS
  <2>2. run \in RunRow /\ s \in Symbols
    BY <1>1, AtRows
  <2>3. b \in Nat
    BY <1>1, <2>1, <2>2 DEF RunRow
  <2>4. q = [run EXCEPT !.budget = b, !.tickers = (run.tickers \ {was}) \cup {s}]
    BY <1>11, <2>1, <2>2 DEF RunRow
  <2> QED
    BY <2>2, <2>3, <2>4 DEF RunRow
<1>13. /\ i \in Known(Mix(company, draft)) /\ Mix(company, draft)[i] = draft.company[i]
       /\ \A k \in draft.touched : /\ k \in Known(Mix(company, draft))
                                   /\ Mix(company, draft)[k] = draft.company[k]
  <2>1. DraftGood(company, alias, draft, run.tickers) /\ company \in Tables
    BY <1>1, AtRows
  <2>2. draft.touched \subseteq Known(draft.company)
    BY <2>1 DEF DraftGood
  <2> QED
    BY <1>3, <2>1, <2>2, MixFacts
<1>14. Fits(Cik[s], was)
  BY <1>1, <1>3, <1>4, <1>13, AtRows DEF TableOK, RowGood
<1>15. \A k \in draft.touched \ {i} : draft.company[k].ticker \in q.tickers
  <2>1. \A k \in draft.touched : draft.company[k].ticker \in run.tickers
    BY <1>1, AtRows DEF DraftGood
  <2>2. \A k \in draft.touched \ {i} : draft.company[k].ticker # was
    BY <1>1, <1>4, <1>13, AtRows DEF TableOK
  <2> QED
    BY <1>12, <2>1, <2>2
<1>16. \A k \in Known(Mix(company, draft)) : Mix(company, draft)[k].ticker = row.ticker => k = i
  BY <1>1, <1>2, <1>3, <1>8, NameFree
<1>17. /\ n.alias[s] = Nobody /\ n.alias[was] = Alias(i, "former")
       /\ \A x \in Symbols \ {s, was} : n.alias[x] = draft.alias[x]
  BY <1>1, <1>5, <1>6, <1>10, AtRows DEF AliasMaps
<1>18. Alias(i, "former") # Nobody /\ Alias(i, "former").of = i
  BY <1>3, AliasFacts
<1>19. /\ \A x \in Symbols : n.alias[x] # Nobody =>
            n.alias[x] = draft.alias[x] \/ (n.alias[x].of = i /\ Fits(row.cik, x))
       /\ \A x \in Symbols : draft.alias[x] # Nobody /\ n.alias[x] = Nobody => x = row.ticker
       /\ n.alias[was] # Nobody
  BY <1>8, <1>14, <1>17, <1>18
<1>20. row.ticker \in q.tickers
  BY <1>8, <1>12
<1>21. /\ DraftGood(company, alias, n, q.tickers)
       /\ \A x \in Symbols : Opens(Mix(company, draft), draft.alias, x)
                               => Opens(Mix(company, n), n.alias, x)
       /\ Opens(Mix(company, n), n.alias, row.ticker)
       /\ Known(n.company) = Known(draft.company) \cup {i}
  <2>1. DraftGood(company, alias, draft, run.tickers) /\ company \in Tables
    BY <1>1, AtRows
  <2>2. /\ row.cik = draft.company[i].cik
        /\ row.cik = NoCik => row.ticker = draft.company[i].ticker
    BY <1>3, <1>8
  <2>3. n.alias[draft.company[i].ticker] # Nobody
    BY <1>4, <1>19
  <2> HIDE <1>4
  <2>4. Written(company, draft, n, i, row, q.tickers)
    BY <1>3, <1>8, <1>10, <1>15, <1>16, <1>19, <1>20, <2>2, <2>3 DEF Written
  <2> QED
    BY <2>1, <2>4, PutGood
<1>22. q.ciks \subseteq Known(n.company)
  BY <1>1, <1>12, <1>21, AtRows DEF RunGood
<1>23. RunGood(company, n, q, q.todo \ {s})
  BY <1>1, <1>8, <1>12, <1>21, <1>22, AtRows, RunGoesOn
<1>24. AfterRow(s, n, q)
  BY <1>2, <1>4, <1>9, <1>11
<1> QED
  BY <1>1, <1>12, <1>21, <1>23, <1>24, RowDone

LEMMA AddCompanyStep ==
  ASSUME DirectoryInv, NEW s \in Symbols, SyncAdd(s)
  PROVE  DirectoryInv' /\ DirectoryMoves
<1>1. pc = "rows" /\ s \in run.todo /\ run.budget > 0 /\ s \notin run.tickers
  BY DEF SyncAdd, Unlisted
<1>2. PICK i \in New(company) :
        /\ Unique(i, s)
        /\ AfterRow(s, Put([draft EXCEPT !.alias[s] = Nobody], i, Row(s, Cik[s], "yes")),
                    [run EXCEPT !.budget = @ - 1, !.tickers = @ \cup {s}, !.ciks = @ \cup {i}])
  BY DEF SyncAdd
<1>3. i \in Ids /\ company[i] = Nobody /\ draft.company[i] = Nobody /\ i \notin Known(draft.company)
  BY DEF New, Known
<1>4. PICK row : row = Row(s, Cik[s], "yes")
  OBVIOUS
<1>5. row \in Rows /\ row.ticker = s /\ row.cik = Cik[s]
  BY <1>4, RowFacts DEF Ciks
<1>6. RowGood(row)
  BY <1>5 DEF RowGood, Fits
<1>7. PICK n : n = Put([draft EXCEPT !.alias[s] = Nobody], i, row)
  OBVIOUS
<1>8. /\ n \in [company : Tables, alias : AliasMaps, touched : SUBSET Ids]
      /\ n.company = [draft.company EXCEPT ![i] = row] /\ n.touched = draft.touched \cup {i}
      /\ n.alias = [draft.alias EXCEPT ![s] = Nobody]
  <2>1. /\ draft.company \in Tables /\ draft.alias \in AliasMaps /\ draft.touched \in SUBSET Ids
        /\ draft = [company |-> draft.company, alias |-> draft.alias, touched |-> draft.touched]
    BY <1>1, AtRows
  <2>2. [draft.company EXCEPT ![i] = row] \in Tables
    BY <1>3, <1>5, <2>1 DEF Tables
  <2>3. [draft.alias EXCEPT ![s] = Nobody] \in AliasMaps
    BY <2>1 DEF AliasMaps
  <2>4. n = [company |-> [draft.company EXCEPT ![i] = row],
             alias |-> [draft.alias EXCEPT ![s] = Nobody],
             touched |-> draft.touched \cup {i}]
    BY <1>7, <2>1 DEF Put
  <2> QED
    BY <1>3, <2>1, <2>2, <2>3, <2>4
<1>9. PICK q : q = [run EXCEPT !.budget = @ - 1, !.tickers = @ \cup {s}, !.ciks = @ \cup {i}]
  OBVIOUS
<1>10. /\ q \in RunRow /\ q.universe = run.universe /\ q.todo = run.todo
       /\ q.ciks = run.ciks \cup {i} /\ q.classes = run.classes
       /\ q.tickers = run.tickers \cup {s} /\ q.pending = run.pending
  <2>1. PICK b : b = run.budget - 1
    OBVIOUS
  <2>2. run \in RunRow /\ s \in Symbols
    BY <1>1, AtRows
  <2>3. b \in Nat
    BY <1>1, <2>1, <2>2 DEF RunRow
  <2>4. q = [run EXCEPT !.budget = b, !.tickers = run.tickers \cup {s},
                        !.ciks = run.ciks \cup {i}]
    BY <1>9, <2>1, <2>2 DEF RunRow
  <2> QED
    BY <1>3, <2>2, <2>3, <2>4 DEF RunRow
<1>11. \A k \in draft.touched \ {i} : draft.company[k].ticker \in q.tickers
  BY <1>1, <1>10, AtRows DEF DraftGood
<1>12. \A k \in Known(Mix(company, draft)) : Mix(company, draft)[k].ticker = row.ticker => k = i
  BY <1>1, <1>2, <1>3, <1>5, NameFree
<1>13. /\ \A x \in Symbols : n.alias[x] # Nobody =>
            n.alias[x] = draft.alias[x] \/ (n.alias[x].of = i /\ Fits(row.cik, x))
       /\ \A x \in Symbols : draft.alias[x] # Nobody /\ n.alias[x] = Nobody => x = row.ticker
  BY <1>1, <1>5, <1>8, AtRows DEF AliasMaps
<1>14. row.ticker \in q.tickers
  BY <1>5, <1>10
<1>15. /\ DraftGood(company, alias, n, q.tickers)
       /\ \A x \in Symbols : Opens(Mix(company, draft), draft.alias, x)
                               => Opens(Mix(company, n), n.alias, x)
       /\ Opens(Mix(company, n), n.alias, row.ticker)
       /\ Known(n.company) = Known(draft.company) \cup {i}
  <2>1. DraftGood(company, alias, draft, run.tickers) /\ company \in Tables
    BY <1>1, AtRows
  <2>2. Written(company, draft, n, i, row, q.tickers)
    BY <1>3, <1>5, <1>6, <1>8, <1>11, <1>12, <1>13, <1>14 DEF Written
  <2> QED
    BY <2>1, <2>2, PutGood
<1>16. q.ciks \subseteq Known(n.company)
  BY <1>1, <1>10, <1>15, AtRows DEF RunGood
<1>17. RunGood(company, n, q, q.todo \ {s})
  BY <1>1, <1>5, <1>10, <1>15, <1>16, AtRows, RunGoesOn
<1>18. AfterRow(s, n, q)
  BY <1>2, <1>4, <1>7, <1>9
<1> QED
  BY <1>1, <1>10, <1>15, <1>17, <1>18, RowDone

LEMMA StartStep == ASSUME DirectoryInv, SyncStart PROVE DirectoryInv' /\ DirectoryMoves
<1>1. /\ company \in Tables /\ TableOK(company) /\ AliasesOK(company, alias) /\ alias \in AliasMaps
      /\ fmp \subseteq Symbols
  BY DEF DirectoryInv, TableOK, AliasesOK
<1>2. PICK n : n = [company |-> company, alias |-> alias, touched |-> {}]
  OBVIOUS
<1>3. /\ n \in [company : Tables, alias : AliasMaps, touched : SUBSET Ids]
      /\ n.company = company /\ n.alias = alias /\ n.touched = {}
  BY <1>1, <1>2
<1>4. Mix(company, n) = company
  BY <1>1, <1>3 DEF Mix, Tables
<1>5. PICK u \in Universes :
        run' = [universe |-> u, todo |-> u,
               tickers |-> {company[i].ticker : i \in Known(company)},
               ciks |-> {i \in Known(company) :
                           LET same == OfCik(company, company[i].cik)
                               inside == {k \in same : company[k].ticker \in u}
                           IN company[i].cik # NoCik /\ (inside # {} => i \in inside)},
               classes |-> {s \in Symbols : alias[s] # Nobody /\ alias[s].kind = "share_class"},
               budget |-> ProfileLimit, pending |-> FALSE, dirty |-> 0]
  BY DEF SyncStart
<1>6. PICK tickers : tickers = {company[i].ticker : i \in Known(company)}
  OBVIOUS
<1>7. PICK ciks : ciks = {i \in Known(company) :
                           LET same == OfCik(company, company[i].cik)
                               inside == {k \in same : company[k].ticker \in u}
                           IN company[i].cik # NoCik /\ (inside # {} => i \in inside)}
  OBVIOUS
<1>8. PICK classes : classes = {s \in Symbols : alias[s] # Nobody /\ alias[s].kind = "share_class"}
  OBVIOUS
<1>9. PICK q : q = [universe |-> u, todo |-> u, tickers |-> tickers, ciks |-> ciks,
                    classes |-> classes, budget |-> ProfileLimit, pending |-> FALSE, dirty |-> 0]
  OBVIOUS
<1>10. run' = q
  BY <1>5, <1>6, <1>7, <1>8, <1>9, Zenon
<1>11. u \in SUBSET Symbols
  BY <1>1 DEF Universes
<1>12. tickers \in SUBSET Symbols
  BY <1>1, <1>6, KnownRows
<1>13. ciks \subseteq Known(company)
  BY <1>7
<1>14. classes \in SUBSET Symbols /\ \A s \in classes : Opens(company, alias, s)
  BY <1>8 DEF Opens
<1>15. q \in RunRow
  BY <1>9, <1>11, <1>12, <1>13, <1>14, DirectoryAssumption DEF RunRow, Known
<1>16. DraftGood(company, alias, n, q.tickers)
  BY <1>1, <1>3, <1>4, FollowsSelf DEF DraftGood
<1>17. RunGood(company, n, q, q.todo)
  BY <1>3, <1>4, <1>9, <1>13, <1>14, <1>15 DEF RunGood
<1>18. /\ UNCHANGED <<company, alias, event, fmp>> /\ pc' = "rows" /\ draft' = n
  BY <1>2 DEF SyncStart
<1>19. DraftGood(company', alias', draft', run'.tickers)
  BY <1>10, <1>16, <1>18
<1>20. RunGood(company', draft', run', run'.todo)
  BY <1>10, <1>17, <1>18
<1> QED
  BY <1>18, <1>19, <1>20, MovesNot DEF DirectoryInv

LEMMA RowsEndStep == ASSUME DirectoryInv, SyncRowsEnd PROVE DirectoryInv' /\ DirectoryMoves
<1>1. pc = "rows" /\ run.todo = {} /\ Commit(draft) /\ UNCHANGED <<event, fmp, run>>
  BY DEF SyncRowsEnd
<1>2. /\ TableOK(company') /\ AliasesOK(company', alias') /\ EventsOK(company', event')
      /\ DirectoryMoves /\ company' = Mix(company, draft) /\ alias' = draft.alias
  BY <1>1, AtRows, CommitGood
<1>3. ~run.pending => \A s \in run.universe : Opens(Mix(company, draft), draft.alias, s)
  BY <1>1, AtRows DEF RunGood
<1>4. run.universe \subseteq Symbols
  BY <1>1, AtRows DEF RunRow
<1>5. PICK tab : tab = company'
  OBVIOUS
<1>6. PICK al : al = alias'
  OBVIOUS
<1>7. ~run.pending => \A s \in run.universe : Opens(tab, al, s)
  BY <1>2, <1>3, <1>5, <1>6
<1>8. ~run'.pending => \A s \in run'.universe : Opens(company', alias', s)
  BY <1>1, <1>5, <1>6, <1>7
<1>9. pc' # "rows"
  BY DEF SyncRowsEnd
<1> QED
  BY <1>1, <1>2, <1>4, <1>8, <1>9 DEF DirectoryInv

\* A step after the rows, or outside a run, that moves as it should.
LEMMA TablesMoved ==
  ASSUME DirectoryInv, pc' # "rows", UNCHANGED <<run, fmp>>,
         pc' \in {"delist", "alias", "link", "ended"} => pc \in {"delist", "alias", "link", "ended"},
         TableOK(company'), AliasesOK(company', alias'), EventsOK(company', event'),
         DirectoryMoves
  PROVE  DirectoryInv'
<1>1. ASSUME pc' \in {"delist", "alias", "link", "ended"}
      PROVE  /\ run'.universe \subseteq Symbols
             /\ ~run'.pending => \A s \in run'.universe : Opens(company', alias', s)
  BY <1>1 DEF DirectoryInv, DirectoryMoves
<1> QED
  BY <1>1 DEF DirectoryInv

LEMMA DelistStep == ASSUME DirectoryInv, MarkDelisted PROVE DirectoryInv' /\ DirectoryMoves
<1>1. /\ pc = "delist" /\ pc' = "alias" /\ UNCHANGED <<event, fmp, run>>
      /\ run.universe \subseteq Symbols
      /\ TableOK(company) /\ AliasesOK(company, alias) /\ EventsOK(company, event)
      /\ company \in Tables /\ alias \in AliasMaps
  BY DEF MarkDelisted, DirectoryInv, TableOK, AliasesOK
<1>2. PICK heir \in [Ids -> Symbols \cup {NoTicker}] :
        /\ \A i \in Ids : IF i \in Gone /\ Classes(i) # {}
                          THEN heir[i] \in Classes(i) /\ Unique(i, heir[i])
                          ELSE heir[i] = NoTicker
        /\ LET heirs == {i \in Ids : heir[i] # NoTicker}
           IN /\ company' = [i \in Ids |->
                   IF i \in heirs THEN Row(heir[i], company[i].cik, "yes")
                   ELSE IF i \in Gone THEN [company[i] EXCEPT !.listed = "no"] ELSE company[i]]
              /\ alias' = [s \in Symbols |->
                   IF \E i \in heirs : heir[i] = s THEN Nobody
                   ELSE IF \E i \in heirs : company[i].ticker = s
                   THEN Alias(CHOOSE i \in heirs : company[i].ticker = s, "former")
                   ELSE alias[s]]
  BY DEF MarkDelisted
<1>3. PICK heirs : heirs = {i \in Ids : heir[i] # NoTicker}
  OBVIOUS
<1>4. PICK new : new = company'
  OBVIOUS
<1>5. PICK al : al = alias'
  OBVIOUS
<1>6. /\ new = [i \in Ids |->
           IF i \in heirs THEN Row(heir[i], company[i].cik, "yes")
           ELSE IF i \in Gone THEN [company[i] EXCEPT !.listed = "no"] ELSE company[i]]
      /\ al = [s \in Symbols |->
           IF \E i \in heirs : heir[i] = s THEN Nobody
           ELSE IF \E i \in heirs : company[i].ticker = s
           THEN Alias(CHOOSE i \in heirs : company[i].ticker = s, "former")
           ELSE alias[s]]
  BY <1>2, <1>3, <1>4, <1>5
<1>7. ASSUME NEW i \in heirs
      PROVE  /\ i \in Ids /\ i \in Known(company) /\ company[i].ticker \notin run.universe
             /\ heir[i] \in Symbols /\ heir[i] \in run.universe
             /\ alias[heir[i]] = Alias(i, "share_class")
             /\ Unique(i, heir[i]) /\ heir[i] # company[i].ticker
  BY <1>1, <1>2, <1>3 DEF Gone, Classes
<1>8. ASSUME NEW i \in heirs PROVE Fits(company[i].cik, heir[i])
  <2>1. alias[heir[i]] # Nobody /\ alias[heir[i]].of = i
    BY <1>7, AliasFacts
  <2>2. Owns(company, i, heir[i])
    BY <1>1, <1>7, <2>1 DEF AliasesOK
  <2> QED
    BY <1>7, <2>2 DEF Owns
<1>9. ASSUME NEW i \in Known(company)
      PROVE  /\ i \in Ids /\ company[i] \in Rows
             /\ new[i] \in Rows /\ new[i].cik = company[i].cik
             /\ new[i].ticker = IF i \in heirs THEN heir[i] ELSE company[i].ticker
  <2>1. i \in Ids /\ company[i] \in Rows /\ company[i].cik \in Ciks
    BY <1>1, KnownRows
  <2>2. CASE i \in heirs
    BY <1>6, <1>7, <2>1, <2>2, RowFacts
  <2>3. CASE i \notin heirs
    BY <1>6, <2>1, <2>3 DEF Rows
  <2> QED
    BY <2>1, <2>2, <2>3
<1>10. Nobody \notin Rows
  BY DirectoryAssumption
<1>11. Known(new) = Known(company) /\ new \in Tables
  <2>1. \A i \in Ids \ Known(company) : i \notin heirs /\ new[i] = Nobody
    BY <1>6, <1>7 DEF Gone, Known
  <2>2. \A i \in Ids : new[i] \in Rows \cup {Nobody}
    BY <1>9, <2>1
  <2>3. new \in Tables
    BY <1>6, <2>2 DEF Tables
  <2>4. \A i \in Known(company) : i \in Ids /\ new[i] # Nobody
    BY <1>9, <1>10
  <2>5. \A i \in Ids \ Known(company) : new[i] = Nobody
    BY <2>1
  <2> HIDE <1>6
  <2> QED
    BY <2>3, <2>4, <2>5 DEF Known
<1> HIDE <1>6
<1>12. Follows(company, new)
  BY <1>8, <1>9, <1>11 DEF Follows, Fits
<1>13. \A i, k \in Known(company) : company[i].ticker = company[k].ticker => i = k
  BY <1>1 DEF TableOK
<1>14. ASSUME NEW i \in heirs, NEW k \in Known(company), new[k].ticker = heir[i] PROVE k = i
  <2>1. CASE k \in heirs
    <3>1. Alias(i, "share_class") = Alias(k, "share_class")
      BY <1>7, <1>9, <1>14, <2>1
    <3> QED
      BY <3>1 DEF Alias
  <2>2. CASE k \notin heirs
    BY <1>7, <1>9, <1>14, <2>2 DEF Unique, Live
  <2> QED
    BY <2>1, <2>2
<1>15. TableOK(new)
  <2>1. \A i \in Known(new) : RowGood(new[i])
    <3> SUFFICES ASSUME NEW i \in Known(company) PROVE RowGood(new[i])
      BY <1>11
    <3>1. CASE i \in heirs
      BY <1>8, <1>9, <3>1 DEF RowGood, Fits
    <3>2. CASE i \notin heirs
      BY <1>1, <1>9, <3>2 DEF RowGood, TableOK
    <3> QED
      BY <3>1, <3>2
  <2>2. ASSUME NEW i \in Known(company), NEW k \in Known(company), new[i].ticker = new[k].ticker
        PROVE  i = k
    <3>1. CASE i \in heirs
      BY <1>9, <1>14, <2>2, <3>1
    <3>2. CASE k \in heirs
      BY <1>9, <1>14, <2>2, <3>2
    <3>3. CASE i \notin heirs /\ k \notin heirs
      BY <1>9, <1>13, <2>2, <3>3
    <3> QED
      BY <3>1, <3>2, <3>3
  <2> QED
    BY <1>11, <2>1, <2>2 DEF TableOK
<1>16. ASSUME NEW s \in Symbols
       PROVE  \/ al[s] = Nobody /\ \E i \in heirs : heir[i] = s
              \/ \E i \in heirs : company[i].ticker = s /\ al[s] = Alias(i, "former")
              \/ /\ al[s] = alias[s]
                 /\ ~\E i \in heirs : company[i].ticker = s
  BY <1>6
<1>17. AliasesOK(new, al)
  <2>1. ASSUME NEW s \in Symbols
        PROVE  /\ al[s] \in Aliases \cup {Nobody}
               /\ al[s] # Nobody => Owns(new, al[s].of, s)
    <3>1. CASE \E i \in heirs : company[i].ticker = s /\ al[s] = Alias(i, "former")
      <4>1. PICK i \in heirs : company[i].ticker = s /\ al[s] = Alias(i, "former")
        BY <3>1
      <4>2. al[s] \in Aliases /\ al[s].of = i
        BY <1>7, <4>1, AliasFacts
      <4>3. Owns(company, i, s)
        BY <1>1, <1>7, <4>1 DEF Owns, TableOK, RowGood
      <4> QED
        BY <1>12, <4>2, <4>3, OwnsStays
    <3>2. CASE al[s] = alias[s]
      <4>1. alias[s] # Nobody => Owns(company, alias[s].of, s)
        BY <1>1 DEF AliasesOK
      <4>2. alias[s] \in Aliases \cup {Nobody}
        BY <1>1 DEF AliasMaps
      <4> QED
        BY <1>12, <3>2, <4>1, <4>2, OwnsStays
    <3> QED
      BY <1>16, <3>1, <3>2
  <2>2. al \in AliasMaps
    BY <1>6, <2>1 DEF AliasMaps
  <2> QED
    BY <2>1, <2>2 DEF AliasesOK
<1>18. ASSUME NEW s \in Symbols, Opens(company, alias, s) PROVE Opens(new, al, s)
  <2>1. CASE \E i \in heirs : heir[i] = s
    BY <1>7, <1>9, <1>11, <2>1 DEF Opens, Live
  <2>2. CASE ~(\E i \in heirs : heir[i] = s) /\ \E i \in heirs : company[i].ticker = s
    BY <1>7, <1>16, <2>2, AliasFacts DEF Opens
  <2>3. CASE ~(\E i \in heirs : heir[i] = s) /\ ~\E i \in heirs : company[i].ticker = s
    <3>1. al[s] = alias[s]
      BY <1>16, <2>3
    <3>2. \A k \in Live(company, s) : k \in Live(new, s)
      BY <1>9, <1>11, <2>3 DEF Live
    <3> QED
      BY <1>18, <3>1, <3>2 DEF Opens
  <2> QED
    BY <2>1, <2>2, <2>3
<1>19. TableOK(company') /\ AliasesOK(company', alias')
  BY <1>4, <1>5, <1>15, <1>17
<1>20. EventsOK(company', event')
  <2>1. EventsOK(new, event)
    BY <1>1, <1>12, EventsStay
  <2> QED
    BY <1>1, <1>4, <2>1
<1>21. DirectoryMoves
  BY <1>1, <1>4, <1>5, <1>12, <1>18 DEF DirectoryMoves
<1> QED
  BY <1>1, <1>19, <1>20, <1>21, TablesMoved

LEMMA AliasTickersStep == ASSUME DirectoryInv, AliasEventTickers PROVE DirectoryInv' /\ DirectoryMoves
<1>1. /\ pc = "alias" /\ pc' = "link" /\ UNCHANGED <<company, event, fmp, run>>
      /\ TableOK(company) /\ AliasesOK(company, alias) /\ EventsOK(company, event)
      /\ alias \in AliasMaps
  BY DEF AliasEventTickers, DirectoryInv, AliasesOK
<1>2. PICK of \in [Symbols -> Ids \cup {Nobody}] :
        /\ \A s \in Symbols :
             IF Live(company, s) = {} /\ alias[s] = Nobody /\ Carrying(s) \ {Nobody} # {}
             THEN of[s] \in Carrying(s) \ {Nobody} ELSE of[s] = Nobody
        /\ alias' = [s \in Symbols |-> IF of[s] = Nobody THEN alias[s] ELSE Alias(of[s], "former")]
  BY DEF AliasEventTickers
<1>3. PICK al : al = alias'
  OBVIOUS
<1>4. ASSUME NEW s \in Symbols
      PROVE  \/ al[s] = alias[s]
             \/ \E i \in Ids \ {Nobody} : i \in Carrying(s) /\ al[s] = Alias(i, "former")
  BY <1>2, <1>3
<1>5. \A i \in Ids : Alias(i, "former") \in Aliases /\ Alias(i, "former") # Nobody /\ Alias(i, "former").of = i
  BY AliasFacts
<1>6. ASSUME NEW s \in Symbols
      PROVE  /\ al[s] \in Aliases \cup {Nobody}
             /\ al[s] # Nobody => Owns(company, al[s].of, s)
  <2>1. CASE al[s] = alias[s]
    BY <1>1, <2>1 DEF AliasesOK, AliasMaps
  <2>2. CASE \E i \in Ids \ {Nobody} : i \in Carrying(s) /\ al[s] = Alias(i, "former")
    BY <1>5, <2>2, CarriedOwns
  <2> QED
    BY <1>4, <2>1, <2>2
<1>7. AliasesOK(company, al)
  <2>1. al \in AliasMaps
    BY <1>2, <1>3, <1>6 DEF AliasMaps
  <2> QED
    BY <1>6, <2>1 DEF AliasesOK
<1>8. \A s \in Symbols : Opens(company, alias, s) => Opens(company, al, s)
  BY <1>4, <1>5 DEF Opens
<1>9. TableOK(company') /\ AliasesOK(company', alias') /\ EventsOK(company', event')
  BY <1>1, <1>3, <1>7
<1>10. DirectoryMoves
  BY <1>1, <1>3, <1>8, FollowsSelf DEF DirectoryMoves
<1> QED
  BY <1>1, <1>9, <1>10, TablesMoved

LEMMA LinkOrphansStep == ASSUME DirectoryInv, LinkOrphans PROVE DirectoryInv' /\ DirectoryMoves
<1>1. /\ pc = "link" /\ pc' = "ended" /\ UNCHANGED <<company, alias, fmp, run>>
      /\ TableOK(company) /\ AliasesOK(company, alias) /\ EventsOK(company, event)
  BY DEF LinkOrphans, DirectoryInv
<1>2. PICK ev : ev = event'
  OBVIOUS
<1>3. ev = [e \in Events |->
         IF event[e] # Nobody /\ event[e].of = Nobody /\ BySymbol(event[e].ticker) # {}
         THEN [event[e] EXCEPT !.of = CHOOSE i \in BySymbol(event[e].ticker) : TRUE]
         ELSE event[e]]
  BY <1>2 DEF LinkOrphans
<1>4. ASSUME NEW e \in Events
      PROVE  \/ ev[e] = event[e]
             \/ /\ event[e] # Nobody /\ event[e].of = Nobody
                /\ ev[e].ticker = event[e].ticker
                /\ ev[e].of \in BySymbol(event[e].ticker)
  <2>1. CASE event[e] # Nobody /\ event[e].of = Nobody /\ BySymbol(event[e].ticker) # {}
    <3>1. PICK i : i = CHOOSE x \in BySymbol(event[e].ticker) : TRUE
      OBVIOUS
    <3>2. i \in BySymbol(event[e].ticker)
      BY <2>1, <3>1
    <3>3. ev[e] = [event[e] EXCEPT !.of = i]
      BY <1>3, <2>1, <3>1
    <3>4. event[e] \in [ticker : Symbols, of : Ids \cup {Nobody}]
      BY <1>1, <2>1 DEF EventsOK
    <3> QED
      BY <2>1, <3>2, <3>3, <3>4
  <2> QED
    BY <1>3, <2>1
<1>5. EventsOK(company, ev)
  <2> SUFFICES ASSUME NEW e \in Events, ev[e] # Nobody
               PROVE  /\ ev[e] \in [ticker : Symbols, of : Ids \cup {Nobody}]
                      /\ ev[e].of # Nobody => Owns(company, ev[e].of, ev[e].ticker)
    BY DEF EventsOK
  <2>1. CASE ev[e] = event[e]
    BY <1>1, <2>1 DEF EventsOK
  <2>2. CASE ev[e] # event[e]
    <3>1. /\ event[e] # Nobody /\ ev[e].ticker = event[e].ticker
          /\ ev[e].of \in BySymbol(event[e].ticker)
      BY <1>4, <2>2
    <3>2. event[e] \in [ticker : Symbols, of : Ids \cup {Nobody}]
      BY <1>1, <3>1 DEF EventsOK
    <3>3. Owns(company, ev[e].of, ev[e].ticker)
      BY <3>1, <3>2, NamedOwns
    <3>4. ev[e].of \in Ids
      BY <3>3 DEF Owns, Known
    <3>5. ev[e] \in [ticker : Symbols, of : Ids \cup {Nobody}]
      BY <1>3, <3>1, <3>2, <3>4
    <3> QED
      BY <3>3, <3>5
  <2> QED
    BY <2>1, <2>2
<1>6. \A e \in Events : event[e] # Nobody /\ event[e].of # Nobody => ev[e] = event[e]
  BY <1>4
<1>7. TableOK(company') /\ AliasesOK(company', alias') /\ EventsOK(company', event')
  BY <1>1, <1>2, <1>5
<1>8. DirectoryMoves
  BY <1>1, <1>2, <1>6, FollowsSelf DEF DirectoryMoves
<1> QED
  BY <1>1, <1>7, <1>8, TablesMoved

\* The company found for an event may be shown for its own ticker.
LEMMA FoundOwns ==
  ASSUME DirectoryInv, NEW e \in Events, NEW i \in EventCompany(e)
  PROVE  i \in Known(company) /\ Owns(company, i, company[i].ticker)
<1>1. TableOK(company) /\ EventTicker[e] \in Symbols \cup {NoTicker}
  BY DirectoryAssumption DEF DirectoryInv
<1>2. CASE OfCik(company, EventCik[e]) # {}
  <2>1. i \in OfCik(company, EventCik[e])
    BY <1>2 DEF EventCompany, Picked
  <2>2. i \in Known(company) /\ EventCik[e] # NoCik /\ company[i].cik = EventCik[e]
    BY <2>1 DEF OfCik
  <2>3. Fits(company[i].cik, company[i].ticker)
    BY <1>1, <2>2 DEF TableOK, RowGood
  <2> QED
    BY <2>2, <2>3 DEF Owns
<1>3. CASE OfCik(company, EventCik[e]) = {}
  <2>1. EventTicker[e] # NoTicker /\ i \in BySymbol(EventTicker[e])
    BY <1>3 DEF EventCompany
  <2>2. i \in Known(company)
    BY <1>1, <2>1, NamedOwns DEF Owns
  <2> QED
    BY <1>1, <2>2 DEF TableOK, RowGood, Owns
<1> QED
  BY <1>2, <1>3

LEMMA StoreEventStep ==
  ASSUME OneIssuer, DirectoryInv, NEW e \in Events, StoreEvent(e)
  PROVE  DirectoryInv' /\ DirectoryMoves
<1>1. /\ event[e] = Nobody /\ UNCHANGED <<alias, fmp, pc, run, draft>>
      /\ TableOK(company) /\ company \in Tables /\ AliasesOK(company, alias)
      /\ EventsOK(company, event)
  BY DEF StoreEvent, DirectoryInv, TableOK
<1>2. ASSUME NEW i \in EventCompany(e), UNCHANGED company,
             event' = [event EXCEPT ![e] = [ticker |-> company[i].ticker, of |-> i]]
      PROVE  DirectoryInv' /\ DirectoryMoves
  <2>1. PICK t : t = company[i].ticker
    OBVIOUS
  <2>2. i \in Known(company) /\ Owns(company, i, t)
    BY <2>1, FoundOwns
  <2>3. t \in Symbols /\ i \in Ids
    BY <1>1, <2>1, <2>2, KnownRows, DirectoryAssumption
  <2>4. PICK ev : ev = event'
    OBVIOUS
  <2>5. PICK row : row = [ticker |-> t, of |-> i]
    OBVIOUS
  <2>6. ev = [event EXCEPT ![e] = row]
    BY <1>2, <2>1, <2>4, <2>5
  <2>7. row \in [ticker : Symbols, of : Ids \cup {Nobody}] /\ row.of = i /\ row.ticker = t
    BY <2>3, <2>5
  <2>8. EventsOK(company, ev) /\ \A x \in Events \ {e} : ev[x] = event[x]
    <3>1. \A x \in Events \ {e} : ev[x] = event[x]
      BY <2>6
    <3>2. ev[e] = row \/ ev[e] = event[e]
      BY <2>6
    <3> HIDE <2>6
    <3> QED
      BY <1>1, <2>2, <2>7, <3>1, <3>2 DEF EventsOK
  <2>9. EventsOK(company', event')
    BY <1>2, <2>4, <2>8
  <2>10. DirectoryMoves
    BY <1>1, <1>2, <2>4, <2>8, FollowsSelf DEF DirectoryMoves
  <2> QED
    BY <1>1, <1>2, <2>9, <2>10 DEF DirectoryInv
<1>3. ASSUME EventCompany(e) = {},
             EventTicker[e] # NoTicker, Live(draft.company, EventTicker[e]) = {},
             NEW i \in New(company),
             company' = [company EXCEPT ![i] = Row(EventTicker[e], EventCik[e], "new")],
             event' = [event EXCEPT ![e] = [ticker |-> EventTicker[e], of |-> i]]
      PROVE  DirectoryInv' /\ DirectoryMoves
  <2>1. PICK t \in Symbols : t = EventTicker[e]
    BY <1>3, DirectoryAssumption
  <2>2. PICK row : row = Row(t, EventCik[e], "new")
    OBVIOUS
  <2>3. row \in Rows /\ row # Nobody /\ row.ticker = t /\ row.cik = EventCik[e]
    BY <2>2, RowFacts DEF Ciks
  <2>4. EventCik[e] # NoCik /\ Fits(row.cik, t) /\ RowGood(row)
    BY <1>3, <2>1, <2>3 DEF OneIssuer, Fits, RowGood
  <2>5. PICK new : new = [company EXCEPT ![i] = row]
    OBVIOUS
  <2>6. company' = new
    BY <1>3, <2>1, <2>2, <2>5
  <2>7. i \in Ids /\ company[i] = Nobody /\ draft.company[i] = Nobody
    BY DEF New
  <2>8. new[i] = row /\ \A k \in Ids \ {i} : new[k] = company[k]
    BY <1>1, <2>5, <2>7 DEF Tables
  <2>9. new \in Tables
    BY <1>1, <2>3, <2>5, <2>7 DEF Tables
  <2>10. Known(new) = Known(company) \cup {i} /\ i \notin Known(company)
    BY <2>3, <2>7, <2>8 DEF Known
  <2>11. Live(company, t) = {} /\ alias[t] = Nobody
    <3>1. BySymbol(t) = {}
      BY <1>3, <2>1 DEF EventCompany, Picked
    <3> QED
      BY <3>1 DEF BySymbol
  <2>12. Follows(company, new)
    BY <2>8, <2>10 DEF Follows, Known
  <2>13. TableOK(new)
    <3>1. \A k \in Known(new) : RowGood(new[k])
      BY <1>1, <2>4, <2>8, <2>10 DEF TableOK, Known
    <3>2. ASSUME NEW k \in Known(new), NEW j \in Known(new), new[k].ticker = new[j].ticker PROVE k = j
      <4>1. \A x \in Known(company) : x \in Ids /\ new[x] = company[x] /\ company[x].ticker # t
        BY <2>7, <2>8, <2>11 DEF Known, Live
      <4>2. \A x, y \in Known(company) : company[x].ticker = company[y].ticker => x = y
        BY <1>1 DEF TableOK
      <4>3. CASE k = i \/ j = i
        BY <2>3, <2>8, <2>10, <3>2, <4>1, <4>3
      <4>4. CASE k # i /\ j # i
        BY <2>10, <3>2, <4>1, <4>2, <4>4
      <4> QED
        BY <4>3, <4>4
    <3> QED
      BY <2>9, <3>1, <3>2 DEF TableOK
  <2>14. AliasesOK(new, alias)
    BY <1>1, <2>12, OwnsStays DEF AliasesOK
  <2>15. PICK ev : ev = event'
    OBVIOUS
  <2>16. PICK paper : paper = [ticker |-> t, of |-> i]
    OBVIOUS
  <2>17. /\ paper \in [ticker : Symbols, of : Ids \cup {Nobody}]
         /\ paper.of = i /\ paper.ticker = t
    BY <2>7, <2>16
  <2>18. /\ \A x \in Events \ {e} : ev[x] = event[x]
         /\ ev[e] = paper \/ ev[e] = event[e]
    BY <1>3, <2>1, <2>15, <2>16
  <2>19. EventsOK(new, ev)
    <3>1. EventsOK(new, event)
      BY <1>1, <2>12, EventsStay
    <3>2. Owns(new, i, t)
      BY <2>4, <2>8, <2>10 DEF Owns
    <3> QED
      BY <1>1, <2>17, <2>18, <3>1, <3>2 DEF EventsOK
  <2>20. \A s \in Symbols : Opens(company, alias, s) => Opens(new, alias, s)
    <3> SUFFICES ASSUME NEW s \in Symbols, NEW k \in Live(company, s) PROVE k \in Live(new, s)
      BY DEF Opens
    <3>1. k \in Known(company) /\ k \in Ids /\ company[k].ticker = s
      BY DEF Live, Known
    <3> QED
      BY <2>7, <2>8, <2>10, <3>1 DEF Live
  <2>21. TableOK(company') /\ AliasesOK(company', alias') /\ EventsOK(company', event')
    BY <1>1, <2>6, <2>13, <2>14, <2>15, <2>19
  <2>22. DirectoryMoves
    BY <1>1, <2>6, <2>12, <2>15, <2>18, <2>20 DEF DirectoryMoves
  <2>23. ASSUME pc = "rows"
         PROVE  /\ DraftGood(company', alias', draft', run'.tickers)
                /\ RunGood(company', draft', run', run'.todo)
    <3>1. /\ DraftGood(new, alias, draft, run.tickers)
          /\ \A s \in Symbols : Opens(Mix(company, draft), draft.alias, s)
                                  => Opens(Mix(new, draft), draft.alias, s)
      <4>1. DraftGood(company, alias, draft, run.tickers)
        BY <2>23, AtRows
      <4>2. Live(company, row.ticker) = {} /\ Live(draft.company, row.ticker) = {} /\ alias[row.ticker] = Nobody
        BY <1>3, <2>1, <2>3, <2>11
      <4> QED
        BY <1>1, <2>3, <2>4, <2>5, <2>7, <4>1, <4>2, AddedGood
    <3>2. RunGood(new, draft, run, run.todo)
      BY <2>23, <3>1, AtRows DEF RunGood, RunRow
    <3> QED
      BY <1>1, <2>6, <3>1, <3>2
  <2>24. pc' \in {"delist", "alias", "link", "ended"} =>
           /\ run'.universe \subseteq Symbols
           /\ ~run'.pending => \A s \in run'.universe : Opens(company', alias', s)
    BY <1>1, <2>6, <2>20 DEF DirectoryInv
  <2>25. fmp' \subseteq Symbols /\ (pc' = "rows" => pc = "rows")
    BY <1>1 DEF DirectoryInv
  <2> QED
    BY <2>21, <2>22, <2>23, <2>24, <2>25 DEF DirectoryInv
<1> QED
  BY <1>2, <1>3 DEF StoreEvent

LEMMA DirectoryStep ==
  ASSUME OneIssuer, DirectoryInv, [DirectoryNext]_directoryVars
  PROVE  DirectoryInv' /\ DirectoryMoves
<1>1. CASE UNCHANGED directoryVars
  BY <1>1, MovesNot DEF directoryVars, DirectoryInv
<1>2. CASE Relist
  <2>1. UNCHANGED <<company, alias, event, pc, run, draft>> /\ fmp' \subseteq Symbols
    BY <1>2 DEF Relist, DirectoryInv
  <2> QED
    BY <2>1, MovesNot DEF DirectoryInv
<1>3. CASE Abort \/ SyncEnd
  <2>1. UNCHANGED <<company, alias, event, fmp>> /\ pc' = "idle"
    BY <1>3 DEF Abort, SyncEnd
  <2> QED
    BY <2>1, MovesNot DEF DirectoryInv
<1>4. CASE \E s \in Symbols : SyncKnown(s) \/ SyncPending(s) \/ SyncClass(s) \/ SyncRename(s) \/ SyncAdd(s)
  BY <1>4, KnownStep, PendingStep, ClassStep, RenameStep, AddCompanyStep
<1>5. CASE \E e \in Events : StoreEvent(e)
  BY <1>5, StoreEventStep
<1>6. CASE SyncStart \/ SyncRowsEnd \/ MarkDelisted \/ AliasEventTickers \/ LinkOrphans
  BY <1>6, StartStep, RowsEndStep, DelistStep, AliasTickersStep, LinkOrphansStep
<1> QED
  BY <1>1, <1>2, <1>3, <1>4, <1>5, <1>6 DEF DirectoryNext, SyncStep

\* A directory to begin with, or none.
LEMMA DirectoryBegins == DirectoryInit \/ NoDirectory => DirectoryInv
<1> SUFFICES ASSUME DirectoryInit \/ NoDirectory PROVE DirectoryInv
  OBVIOUS
<1>1. /\ alias = [s \in Symbols |-> Nobody]
      /\ pc \in {"idle", "frozen"} /\ fmp \subseteq Symbols
      /\ Unlinked \/ NoDirectory \/ OtherSpelling
  BY DEF DirectoryInit, NoDirectory
<1>2. AliasesOK(company, alias)
  BY <1>1 DEF AliasesOK, AliasMaps
<1>3. CASE Unlinked \/ NoDirectory
  <2>1. company = [i \in Ids |-> Nobody]
    BY <1>3 DEF Unlinked, NoDirectory
  <2>2. Known(company) = {}
    BY <2>1 DEF Known
  <2>3. TableOK(company)
    BY <2>1, <2>2 DEF TableOK, Tables
  <2>4. ASSUME NEW e \in Events, event[e] # Nobody
        PROVE  event[e] \in [ticker : Symbols, of : Ids \cup {Nobody}] /\ event[e].of = Nobody
    <3>1. PICK old \in SUBSET Orphans :
            event[e] = IF e \in old THEN [ticker |-> EventTicker[e], of |-> Nobody] ELSE Nobody
      BY <1>3, <2>4 DEF Unlinked, NoDirectory
    <3>2. e \in old /\ EventTicker[e] \in Symbols
      BY <2>4, <3>1, DirectoryAssumption
    <3> QED
      BY <3>1, <3>2
  <2>5. EventsOK(company, event)
    BY <2>4 DEF EventsOK
  <2> QED
    BY <1>1, <1>2, <2>3, <2>5 DEF DirectoryInv
<1>4. CASE OtherSpelling
  <2>1. PICK e \in Orphans, i \in Ids, t \in Symbols :
          /\ Fits(EventCik[e], t)
          /\ company = [k \in Ids |-> IF k = i THEN Row(t, EventCik[e], "new") ELSE Nobody]
          /\ event = [x \in Events |-> IF x = e THEN [ticker |-> EventTicker[e], of |-> i]
                                        ELSE Nobody]
    BY <1>4 DEF OtherSpelling
  <2>2. PICK row : row = Row(t, EventCik[e], "new")
    OBVIOUS
  <2>3. e \in Events /\ EventTicker[e] \in Symbols /\ EventCik[e] \in Ciks
    BY DirectoryAssumption DEF Ciks
  <2>4. row \in Rows /\ row # Nobody /\ row.ticker = t /\ row.cik = EventCik[e]
    BY <2>2, <2>3, RowFacts
  <2>5. company = [k \in Ids |-> IF k = i THEN row ELSE Nobody]
    BY <2>1, <2>2
  <2>6. company[i] = row /\ Known(company) = {i} /\ company \in Tables
    BY <2>4, <2>5 DEF Known, Tables
  <2>7. Fits(EventCik[e], EventTicker[e]) /\ EventCik[e] # NoCik
    BY <2>1, <2>3 DEF Fits
  <2>8. TableOK(company)
    BY <2>1, <2>4, <2>6, <2>7 DEF TableOK, RowGood
  <2>9. Owns(company, i, EventTicker[e])
    BY <2>4, <2>6, <2>7 DEF Owns
  <2>10. EventsOK(company, event)
    <3>1. \A x \in Events \ {e} : event[x] = Nobody
      BY <2>1
    <3>2. event[e] = [ticker |-> EventTicker[e], of |-> i]
      BY <2>1, <2>3
    <3> QED
      BY <2>3, <2>9, <3>1, <3>2 DEF EventsOK
  <2> QED
    BY <1>1, <1>2, <2>8, <2>10 DEF DirectoryInv
<1> QED
  BY <1>1, <1>3, <1>4

LEMMA RegistryIsDirectory ==
  /\ RegistryInit => DirectoryInit \/ NoDirectory
  /\ [RegistryNext]_<<vars, directoryVars, channelVars>> => [DirectoryNext]_directoryVars
BY DEF RegistryInit, RegistryNext, directoryVars

\* Whatever moves as it should keeps the links.
LEMMA LinkStays ==
  ASSUME OneIssuer, DirectoryInv, DirectoryInv', DirectoryMoves, NEW s \in Symbols,
         NEW i \in Resolves(s)
  PROVE  Resolves(s)' # {} /\ \A k \in Resolves(s)' : Issuer(k)' = Issuer(i)
<1>1. Resolves(s)' # {}
  <2>1. CASE BySymbol(s) # {}
    <3>1. Opens(company', alias', s)
      BY <2>1, OpensBySymbol DEF DirectoryMoves
    <3>2. BySymbol(s)' # {}
      BY <3>1 DEF Opens, BySymbol
    <3> QED
      BY <3>2 DEF Resolves
  <2>2. CASE BySymbol(s) = {}
    <3>1. i \in Carrying(s) /\ i # Nobody
      BY <2>2 DEF Resolves
    <3>2. PICK e \in Events : event[e] # Nobody /\ event[e].ticker = s /\ event[e].of = i
      BY <3>1 DEF Carrying
    <3>3. event'[e] = event[e]
      BY <3>1, <3>2 DEF DirectoryMoves
    <3>4. i \in Carrying(s)'
      BY <3>2, <3>3 DEF Carrying
    <3> QED
      BY <3>1, <3>4 DEF Resolves
  <2> QED
    BY <2>1, <2>2
<1>2. ASSUME NEW k \in Resolves(s)' PROVE Issuer(k)' = Issuer(i)
  <2>1. Owns(company, i, s)
    BY ResolvedOwns
  <2>2. Owns(company', k, s)
    <3>1. CASE k \in BySymbol(s)'
      <4>1. CASE Live(company', s) # {}
        <5>1. k \in Known(company') /\ company'[k].ticker = s /\ RowGood(company'[k])
          BY <3>1, <4>1 DEF BySymbol, Live, DirectoryInv, TableOK
        <5> QED
          BY <5>1 DEF RowGood, Owns
      <4>2. CASE Live(company', s) = {}
        BY <3>1, <4>2 DEF BySymbol, DirectoryInv, AliasesOK
      <4> QED
        BY <4>1, <4>2
    <3>2. CASE k \in Carrying(s)' /\ k # Nobody
      BY <3>2 DEF Carrying, DirectoryInv, EventsOK
    <3> QED
      BY <1>2, <3>1, <3>2 DEF Resolves
  <2>3. PICK old : old = company
    OBVIOUS
  <2>4. PICK new : new = company'
    OBVIOUS
  <2>5. TableOK(old) /\ TableOK(new) /\ Follows(old, new)
    BY <2>3, <2>4 DEF DirectoryInv, DirectoryMoves
  <2>6. IF old[i].cik = NoCik THEN k = i /\ new[k].cik = NoCik ELSE new[k].cik = old[i].cik
    BY <2>1, <2>2, <2>3, <2>4, <2>5, OneOwner
  <2> QED
    BY <2>3, <2>4, <2>6 DEF Issuer
<1> QED
  BY <1>1, <1>2

\* As long as no symbol is given from one issuer to another, a link stays good: what a
\* symbol opens it opens for ever, or another row of the same issuer, for any symbols,
\* runs, failures and events.
THEOREM LinksAlwaysStay ==
  ASSUME OneIssuer
  PROVE  RegistrySpec => LinksStay
<1> DEFINE Stays ==
      \A s \in Symbols : \A i \in Resolves(s) :
        Resolves(s)' # {} /\ \A k \in Resolves(s)' : Issuer(k)' = Issuer(i)
<1>1. RegistryInit => DirectoryInv
  BY RegistryIsDirectory, DirectoryBegins
<1>2. DirectoryInv /\ [RegistryNext]_<<vars, directoryVars, channelVars>> => DirectoryInv' /\ Stays
  <2> SUFFICES ASSUME DirectoryInv, [RegistryNext]_<<vars, directoryVars, channelVars>>
               PROVE  DirectoryInv' /\ Stays
    OBVIOUS
  <2>1. DirectoryInv' /\ DirectoryMoves
    BY RegistryIsDirectory, DirectoryStep
  <2> QED
    BY <2>1, LinkStays
<1>3. RegistrySpec => [][Stays]_<<company, alias, event>>
  <2>1. DirectoryInv /\ [RegistryNext]_<<vars, directoryVars, channelVars>>
          => [Stays]_<<company, alias, event>>
    BY <1>2
  <2> HIDE DEF Stays
  <2> QED
    BY <1>1, <1>2, <2>1, PTL DEF RegistrySpec
<1> QED
  BY <1>3 DEF LinksStay, Stays

\* A run that looked up every new symbol leaves each symbol FMP listed opening the
\* page of its own issuer, if a symbol is one issuer's.
THEOREM RunAlwaysReaches ==
  ASSUME OneIssuer
  PROVE  RegistrySpec => []RunReaches
<1>1. RegistryInit => DirectoryInv
  BY RegistryIsDirectory, DirectoryBegins
<1>2. DirectoryInv /\ [RegistryNext]_<<vars, directoryVars, channelVars>> => DirectoryInv'
  BY RegistryIsDirectory, DirectoryStep
<1>3. DirectoryInv => RunReaches
  <2> SUFFICES ASSUME DirectoryInv, pc = "ended", ~run.pending, NEW s \in run.universe
               PROVE  Resolves(s) # {} /\ \A i \in Resolves(s) : Cik[s] # NoCik => company[i].cik = Cik[s]
    BY DEF RunReaches
  <2>1. s \in Symbols /\ Opens(company, alias, s)
    BY DEF DirectoryInv
  <2>2. Resolves(s) # {}
    BY <2>1, OpensBySymbol DEF Resolves
  <2>3. ASSUME NEW i \in Resolves(s), Cik[s] # NoCik PROVE company[i].cik = Cik[s]
    <3>1. Owns(company, i, s) /\ i \in Known(company) /\ TableOK(company)
      BY <2>1, ResolvedOwns DEF Owns, DirectoryInv
    <3>2. company[i].cik \in Ciks /\ Cik[s] \in Ciks /\ Fits(Cik[s], s)
      BY <2>1, <2>3, <3>1, KnownRows DEF TableOK, Ciks, Fits
    <3>3. Fits(company[i].cik, s)
      BY <2>3, <3>1 DEF Owns, TableOK, RowGood
    <3> QED
      BY <2>1, <3>2, <3>3 DEF OneIssuer
  <2> QED
    BY <2>2, <2>3
<1>4. OneIssuer' <=> OneIssuer
  BY DEF OneIssuer, Fits, Ciks
<1> QED
  BY <1>1, <1>2, <1>3, <1>4, PTL DEF RegistrySpec

=============================================================================
