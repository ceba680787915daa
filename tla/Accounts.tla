------------------------------ MODULE Accounts ------------------------------
(***************************************************************************)
(* The accounts of the API: registration, password, mailed one-use links   *)
(* (magic link, e-mail verification, password reset), sign-in with Google  *)
(* or Apple, and the changes an owner or an admin makes to an account.     *)
(*                                                                         *)
(* A request runs in a thread of the server.  It reads what it needs when  *)
(* it begins, and writes in the one transaction that its commit ends: two  *)
(* steps, with other requests in between.  A request that is refused (400, *)
(* 401, 403, 404, 409) changes nothing and is not a step.  What a mail     *)
(* says, who may send how many requests a minute and the tokens' bytes are *)
(* left out; a token is its number in the order the rows were inserted.    *)
(***************************************************************************)
EXTENDS Integers, Sequences, FiniteSets

CONSTANTS
  Users,            \* the primary keys that account rows may get
  Emails,           \* the addresses
  Subjects,         \* accounts at Google and at Apple
  SubjectEmail,     \* [Subjects -> Emails]: the address the provider reports
  Threads,          \* the threads that serve requests
  Lifetime,         \* [Purposes -> Nat]: the life of a mailed link
  NoUser, NoSubject,
  MaxRequests,      \* bound: requests that begin
  MaxFaults,        \* bound: failed commits and lost mails
  MaxNow            \* bound: the clock

ASSUME AccountsAssumption ==
  /\ SubjectEmail \in [Subjects -> Emails]
  /\ NoUser \notin Users /\ NoSubject \notin Subjects
  /\ MaxRequests \in Nat /\ MaxFaults \in Nat /\ MaxNow \in Nat

Purposes == {"magic_link", "email_verify", "password_reset"}
ASSUME LifetimeAssumption == Lifetime \in [Purposes -> Nat]

VARIABLES
  account,   \* [Users -> the account row or NoRow]
  token,     \* the auth_token rows, in the order they were inserted
  mailed,    \* <<token, address>>: the links whose mail went out
  signedIn,  \* the users who hold an access token
  req,       \* [Threads -> the request in progress or Idle]
  now, requests, faults,
  trusted,   \* history: <<user, address>> taken for theirs: a link mailed there was
             \* followed, a provider vouched for it, or update_user wrote it
  spent,     \* history: the tokens some request succeeded with
  dated      \* history: the reset tokens a new password of their user's came after

accountVars == <<account, token, mailed, signedIn, trusted, spent, dated>>
serverVars  == <<req, now, requests, faults>>

NoRow == [email |-> "none"]
Idle  == [op |-> "idle"]

Exists(u)   == account[u] # NoRow
ByEmail(e)  == {u \in Users : Exists(u) /\ account[u].email = e}
BySubject(field, s) == {u \in Users : Exists(u) /\ account[u][field] = s}

IsValid(i) == ~token[i].used /\ token[i].expires > now

\* _invalidate_tokens: every unused token of this user and purpose is consumed, of
\* the n that are committed when the UPDATE runs; others may be before it commits.
InvalidateTokens(toks, u, p, n) ==
  [i \in DOMAIN toks |->
     IF i <= n /\ toks[i].user = u /\ toks[i].purpose = p
     THEN [toks[i] EXCEPT !.used = TRUE] ELSE toks[i]]

\* Mutant: the link that was followed stays good.
MarkUsedMutant(toks, i) == toks

MarkUsed(toks, i) == [toks EXCEPT ![i].used = TRUE]

\* An auth_token row; with it, for the properties, the tokens its request had seen.
TokenRow(u, p, expires, seen) ==
  [user |-> u, purpose |-> p, expires |-> expires, used |-> FALSE, seen |-> seen]

NewToken(u, p, seen) == TokenRow(u, p, now + Lifetime[p], seen)

\* The mail with the new link, unless it is lost.
Mail(u, sent) ==
  mailed' = IF sent THEN mailed \cup {<<Len(token) + 1, account[u].email>>} ELSE mailed

\* What was committed when a request's UPDATE ran.
Updates(r) == {n \in 0 .. Len(token) : r.seen <= n}

\* _auth_success: the caller holds tokens of this account from now on.
SignIn(u) == signedIn' = signedIn \cup {u}

\* Mutant: an account begins verified.
NewAccountMutant(e, password, verified, google, apple) ==
  [email |-> e, password |-> password, verified |-> TRUE,
   google |-> google, apple |-> apple]

NewAccount(e, password, verified, google, apple) ==
  [email |-> e, password |-> password, verified |-> verified,
   google |-> google, apple |-> apple]

-----------------------------------------------------------------------------
(* Requests and the server.                                                *)

Begin(t, r) ==
  /\ req[t] = Idle
  /\ requests < MaxRequests
  /\ req' = [req EXCEPT ![t] = r]
  /\ requests' = requests + 1
  /\ UNCHANGED <<now, faults>>

Answer(t) ==
  /\ req' = [req EXCEPT ![t] = Idle]
  /\ UNCHANGED <<now, requests, faults>>

Continue(t, r) ==
  /\ req' = [req EXCEPT ![t] = r]
  /\ UNCHANGED <<now, requests, faults>>

\* A commit that fails, or meets a row another request removed or a unique
\* value it took, is rolled back and answered with a 500.
Rollback(t) ==
  /\ req[t] # Idle
  /\ faults < MaxFaults
  /\ faults' = faults + 1
  /\ req' = [req EXCEPT ![t] = Idle]
  /\ UNCHANGED <<now, requests>>
  /\ UNCHANGED accountVars

Clash(t) ==
  /\ \/ req[t].op \in {"register", "update"} /\ \E u \in ByEmail(req[t].email) : u # req[t].user
     \/ /\ req[t].op = "social"
        /\ \/ BySubject(req[t].field, req[t].subject) \ {req[t].user} # {}
           \/ req[t].new /\ ByEmail(SubjectEmail[req[t].subject]) # {}
     \/ req[t].op \in {"follow", "change", "update", "link", "issue"} /\ ~Exists(req[t].user)
     \/ req[t].op = "social" /\ ~req[t].new /\ ~Exists(req[t].user)
  /\ Answer(t)
  /\ UNCHANGED accountVars

\* The clock runs while a bound allows it.
Tick ==
  /\ now < MaxNow
  /\ now' = now + 1
  /\ UNCHANGED <<req, requests, faults>>
  /\ UNCHANGED accountVars

-----------------------------------------------------------------------------
(* Signing up and signing in.                                              *)

\* The lowest key not in use: uuid4 gives each new row a key of its own.
FreshUser == CHOOSE u \in Users : ~Exists(u) /\ u \notin signedIn

HasFreshUser == \E u \in Users : ~Exists(u) /\ u \notin signedIn

Register(t, e) ==
  /\ ByEmail(e) = {}
  /\ Begin(t, [op |-> "register", email |-> e, user |-> NoUser])
  /\ UNCHANGED accountVars

RegisterCommit(t) ==
  /\ req[t].op = "register" /\ ByEmail(req[t].email) = {} /\ HasFreshUser
  /\ LET u == FreshUser IN
       /\ account' = [account EXCEPT ![u] =
            NewAccount(req[t].email, TRUE, FALSE, NoSubject, NoSubject)]
       /\ SignIn(u)
       /\ Continue(t, [op |-> "issue", user |-> u, seen |-> Len(token)])
  /\ UNCHANGED <<token, mailed, trusted, spent, dated>>

Login(u) ==
  /\ Exists(u) /\ account[u].password /\ u \notin signedIn
  /\ SignIn(u)
  /\ UNCHANGED <<account, token, mailed, trusted, spent, dated>>
  /\ UNCHANGED serverVars

\* Google is looked up by address alone, Apple by its subject first.
SocialLogin(t, field, s) ==
  LET known == IF field = "apple" /\ BySubject("apple", s) # {} THEN BySubject("apple", s)
               ELSE ByEmail(SubjectEmail[s])
      user  == IF known = {} THEN NoUser ELSE CHOOSE u \in known : TRUE
  IN  /\ Begin(t, [op |-> "social", field |-> field, subject |-> s, user |-> user,
                   new |-> known = {},
                   link |-> known # {} /\ account[user][field] = NoSubject])
      /\ UNCHANGED accountVars

SocialCommit(t) ==
  LET r == req[t]
      u == IF r.new THEN FreshUser ELSE r.user
      e == SubjectEmail[r.subject]
      row == IF r.new THEN NewAccount(e, FALSE, TRUE, NoSubject, NoSubject)
             ELSE [account[u] EXCEPT !.verified = TRUE]
  IN  /\ r.op = "social"
      /\ IF r.new THEN ByEmail(e) = {} /\ HasFreshUser ELSE Exists(u)
      /\ r.new \/ r.link => BySubject(r.field, r.subject) = {}
      /\ account' = [account EXCEPT ![u] =
           IF r.new \/ r.link THEN [row EXCEPT ![r.field] = r.subject] ELSE row]
      /\ SignIn(u)
      /\ trusted' = trusted \cup {<<u, e>>}
      /\ Answer(t)
      /\ UNCHANGED <<token, mailed, spent, dated>>

-----------------------------------------------------------------------------
(* Links sent by mail.                                                     *)

\* request_magic_link, forgot_password.
RequestLink(t, u, p) ==
  /\ p \in {"magic_link", "password_reset"}
  /\ Exists(u)
  /\ p = "password_reset" => account[u].password
  /\ Begin(t, [op |-> "link", user |-> u, purpose |-> p, seen |-> Len(token)])
  /\ UNCHANGED accountVars

\* The older links die and the new one is stored in one transaction; the mail
\* is sent after it, and may be lost.
IssueLink(t, sent) ==
  LET r == req[t] IN
  /\ r.op = "link" /\ Exists(r.user)
  /\ \E n \in Updates(r) :
       token' = Append(InvalidateTokens(token, r.user, r.purpose, n),
                       NewToken(r.user, r.purpose, r.seen))
  /\ Mail(r.user, sent)
  /\ sent \/ faults < MaxFaults
  /\ faults' = IF sent THEN faults ELSE faults + 1
  /\ req' = [req EXCEPT ![t] = Idle]
  /\ UNCHANGED <<account, signedIn, trusted, spent, dated, now, requests>>

\* resend_verification commits the invalidation before it issues the new link.
ResendVerification(t, u) ==
  /\ Exists(u) /\ ~account[u].verified
  /\ Begin(t, [op |-> "resend", user |-> u, seen |-> Len(token)])
  /\ UNCHANGED accountVars

ResendCommit(t) ==
  /\ req[t].op = "resend"
  /\ \E n \in Updates(req[t]) :
       token' = InvalidateTokens(token, req[t].user, "email_verify", n)
  /\ Continue(t, [op |-> "issue", user |-> req[t].user, seen |-> req[t].seen])
  /\ UNCHANGED <<account, mailed, signedIn, trusted, spent, dated>>

\* _issue_verification_email swallows its failures (Rollback, Clash).
IssueVerification(t, sent) ==
  LET r == req[t] IN
  /\ r.op = "issue" /\ Exists(r.user)
  /\ token' = Append(token, NewToken(r.user, "email_verify", r.seen))
  /\ Mail(r.user, sent)
  /\ sent \/ faults < MaxFaults
  /\ faults' = IF sent THEN faults ELSE faults + 1
  /\ req' = [req EXCEPT ![t] = Idle]
  /\ UNCHANGED <<account, signedIn, trusted, spent, dated, now, requests>>

\* verify_magic_link, verify_email, reset_password: _lookup_valid_token.
FollowLink(t, i, e) ==
  /\ <<i, e>> \in mailed /\ IsValid(i) /\ Exists(token[i].user)
  /\ Begin(t, [op |-> "follow", user |-> token[i].user, link |-> i, to |-> e,
               seen |-> Len(token)])
  /\ UNCHANGED accountVars

VerifyMagicLink(t) ==
  LET i == req[t].link  u == req[t].user IN
  /\ req[t].op = "follow" /\ token[i].purpose = "magic_link" /\ Exists(u)
  /\ \E n \in Updates(req[t]) :
       token' = InvalidateTokens(MarkUsed(token, i), u, "magic_link", n)
  /\ account' = [account EXCEPT ![u].verified = TRUE]
  /\ SignIn(u)
  /\ trusted' = trusted \cup {<<u, req[t].to>>}
  /\ spent' = spent \cup {i}
  /\ Answer(t)
  /\ UNCHANGED <<mailed, dated>>

VerifyEmail(t) ==
  LET i == req[t].link  u == req[t].user IN
  /\ req[t].op = "follow" /\ token[i].purpose = "email_verify" /\ Exists(u)
  /\ token' = MarkUsed(token, i)
  /\ account' = [account EXCEPT ![u].verified = TRUE]
  /\ trusted' = trusted \cup {<<u, req[t].to>>}
  /\ spent' = spent \cup {i}
  /\ Answer(t)
  /\ UNCHANGED <<mailed, signedIn, dated>>

\* The reset tokens of a user among the first n.
ResetTokens(u, n) ==
  {j \in DOMAIN token : j <= n /\ token[j].user = u /\ token[j].purpose = "password_reset"}

ResetPassword(t) ==
  LET i == req[t].link  u == req[t].user IN
  /\ req[t].op = "follow" /\ token[i].purpose = "password_reset" /\ Exists(u)
  /\ \E n \in Updates(req[t]) :
       /\ token' = InvalidateTokens(MarkUsed(token, i), u, "password_reset", n)
       /\ dated' = dated \cup ResetTokens(u, n)
  /\ account' = [account EXCEPT ![u].password = TRUE]
  /\ spent' = spent \cup {i}
  /\ Answer(t)
  /\ UNCHANGED <<mailed, signedIn, trusted>>

-----------------------------------------------------------------------------
(* Changes to an account.                                                  *)

ChangePassword(t, u) ==
  /\ u \in signedIn /\ Exists(u) /\ account[u].password
  /\ Begin(t, [op |-> "change", user |-> u, seen |-> Len(token)])
  /\ UNCHANGED accountVars

ChangePasswordCommit(t) ==
  LET u == req[t].user IN
  /\ req[t].op = "change" /\ Exists(u)
  /\ \E n \in Updates(req[t]) :
       /\ token' = InvalidateTokens(token, u, "password_reset", n)
       /\ dated' = dated \cup ResetTokens(u, n)
  /\ Answer(t)
  /\ UNCHANGED <<account, mailed, signedIn, trusted, spent>>

\* update_user: of what the models keep, an owner can change the address; a verified
\* account stays verified.
UpdateUser(t, u, e) ==
  /\ u \in signedIn /\ Exists(u) /\ account[u].email # e
  /\ Begin(t, [op |-> "update", user |-> u, email |-> e])
  /\ UNCHANGED accountVars

UpdateUserCommit(t) ==
  LET r == req[t] IN
  /\ r.op = "update" /\ Exists(r.user) /\ ByEmail(r.email) \subseteq {r.user}
  /\ account' = [account EXCEPT ![r.user].email = r.email]
  /\ trusted' = trusted \cup {<<r.user, r.email>>}
  /\ Answer(t)
  /\ UNCHANGED <<token, mailed, signedIn, spent, dated>>

\* delete_user: the account takes its tokens along.  A request budget bounds it.
DeleteAccount(u) ==
  /\ Exists(u)
  /\ requests < MaxRequests
  /\ requests' = requests + 1
  /\ account' = [account EXCEPT ![u] = NoRow]
  /\ token' = [i \in DOMAIN token |->
                 IF token[i].user = u THEN [token[i] EXCEPT !.user = NoUser, !.used = TRUE]
                 ELSE token[i]]
  /\ UNCHANGED <<mailed, signedIn, trusted, spent, dated, req, now, faults>>

-----------------------------------------------------------------------------
AccountsInit ==
  /\ account = [u \in Users |-> NoRow]
  /\ token = <<>>
  /\ mailed = {} /\ signedIn = {} /\ trusted = {} /\ spent = {} /\ dated = {}
  /\ req = [t \in Threads |-> Idle]
  /\ now = 0 /\ requests = 0 /\ faults = 0

AccountsStep(t) ==
  \/ \E e \in Emails : Register(t, e)
  \/ RegisterCommit(t)
  \/ \E field \in {"google", "apple"}, s \in Subjects : SocialLogin(t, field, s)
  \/ SocialCommit(t)
  \/ \E u \in Users, p \in Purposes : RequestLink(t, u, p)
  \/ \E u \in Users : ResendVerification(t, u)
  \/ ResendCommit(t)
  \/ \E sent \in BOOLEAN : IssueLink(t, sent) \/ IssueVerification(t, sent)
  \/ \E i \in DOMAIN token, e \in Emails : FollowLink(t, i, e)
  \/ VerifyMagicLink(t)
  \/ VerifyEmail(t)
  \/ ResetPassword(t)
  \/ \E u \in Users : ChangePassword(t, u)
  \/ ChangePasswordCommit(t)
  \/ \E u \in Users, e \in Emails : UpdateUser(t, u, e)
  \/ UpdateUserCommit(t)
  \/ Rollback(t)
  \/ Clash(t)

AccountsNext ==
  \/ \E t \in Threads : AccountsStep(t)
  \/ \E u \in Users : Login(u) \/ DeleteAccount(u)
  \/ Tick

AccountsSpec == AccountsInit /\ [][AccountsNext]_<<accountVars, serverVars>>

-----------------------------------------------------------------------------
\* A mailed link is dead for good once it did its work, once a newer one of
\* its kind was stored for a request that came after it, and, if it resets a
\* password, once a password was set by a request that came after it: a request
\* that begins later never succeeds with it.  (Two requests that overlap may both
\* succeed with one link, and two that overlap may leave two live links.)
DeadLinks ==
  /\ \A i \in spent \cup dated : token[i].used
  /\ \A i, j \in DOMAIN token :
       /\ j <= token[i].seen
       /\ token[j].user = token[i].user /\ token[j].purpose = token[i].purpose
       => token[j].used

\* The address of a verified account is one a link was mailed to and followed from,
\* one a provider reported, or one update_user wrote in, whatever requests overlap:
\* until its owner changes it, nobody's word is taken for an address
\* (email_verified_required, utils/auth.py:27-32).  A changed one is taken on trust:
\* update_user leaves email_verified as it was (users.py:44-46).
VerifiedForAReason ==
  \A u \in Users : Exists(u) /\ account[u].verified => <<u, account[u].email>> \in trusted
=============================================================================
