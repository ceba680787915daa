-------------------------------- MODULE Gates --------------------------------
(***************************************************************************)
(* The gate chain of a press release (press_release/pipeline.py) and the   *)
(* article fetch it pays for (feeds.py), whose threads share a breaker per *)
(* host. A text is what the gates read of it: counts of letters and words, *)
(* the patterns, tickers and names it has, and the story it tells.         *)
(***************************************************************************)
EXTENDS Briefing

CONSTANTS
  Releases,        \* [tag, head, chars, teaser, cut, page, meta, issuer, host]
  Remembered,      \* fingerprints of published events: [ticker, exact, headline, simhash]
  Companies,       \* the SEC's ticker map: Seq of [cik, name, symbols]
  Distinctive, Long, Alike,   \* of names: tokens of 4 letters, of 5, pairs of close ratio
  CloseStories,    \* pairs of simhashes within SIMHASH_MATCH_DISTANCE
  MinInline, MinBody, MinWords, ShortText, MaxNonLatin, MinFunction,
  Limit, Cooldown, \* _HOST_FAILURE_LIMIT, _HOST_COOLDOWN
  MaxClock         \* bound: time.monotonic()

ASSUME GatesAssumption ==
  Limit \in Nat \ {0} /\ Cooldown \in Nat /\ MaxClock \in Nat

VARIABLES
  fails,           \* _host_failures
  skipUntil,       \* _host_skip_until
  recent,          \* history: a host's last fetches, [ok, at]
  clock

breakerVars == <<fails, skipUntil, recent, clock>>
gateVars == <<briefingVars, breakerVars>>

Hosts == {r.host : r \in Releases}
NoText == [letters |-> 0, nonLatin |-> 0, words |-> 0, english |-> 0, foreign |-> 0,
           firm |-> FALSE, chars |-> 0, tickers |-> <<>>, line |-> <<>>, names |-> {},
           story |-> 0]

-----------------------------------------------------------------------------
\* is_english
English(x) ==
  /\ 100 * x.nonLatin <= MaxNonLatin * x.letters
  /\ \/ x.words < MinWords
     \/ 100 * x.english >= MinFunction * x.words
     \/ (x.words < ShortText /\ x.foreign <= x.english)

\* build_ticker_index: a common stock's symbol is its last company's, any
\* other symbol its first's.
Entry(s) ==
  LET common == {i \in 1 .. Len(Companies) : Companies[i].symbols[1] = s}
      any == {i \in 1 .. Len(Companies) : Contains(Companies[i].symbols, s)}
  IN IF common # {} THEN Max(common) ELSE Min(any)
Indexed == UNION {Range(Companies[i].symbols) : i \in 1 .. Len(Companies)}

\* extract_tickers: the wire's first, then those of the text, each once.
Tickers(r, x) ==
  FoldLeft(LAMBDA out, s : IF Contains(out, s) THEN out ELSE Append(out, s),
           <<>>, r.meta \o x.tickers)

\* _names_match: names are sequences of tokens.
NamesMatch(m, n) ==
  LET short == IF Len(m) <= Len(n) THEN Range(m) ELSE Range(n)
      long == IF Len(m) <= Len(n) THEN Range(n) ELSE Range(m)
  IN /\ m # <<>> /\ n # <<>>
     /\ \/ m = n
        \/ (short \subseteq long /\ short \cap Distinctive # {})
        \/ <<m, n>> \in Alike

\* names_company
Names(x, n) ==
  n # <<>> /\ (n \in x.names \/ (n[1] \in Long /\ <<n[1]>> \in x.names))

NameOf(s) == Companies[Entry(s)].name

\* resolve_issuer: the issuer field decides if there is one, the dateline may.
ResolveIssuer(tickers, issuer, x) ==
  LET known == {i \in 1 .. Len(tickers) : tickers[i] \in Indexed}
      Matching(n) == {i \in known : NamesMatch(n, NameOf(tickers[i]))}
      None == [kind |-> "none", ticker |-> ""]
      First(kind, S) == [kind |-> kind, ticker |-> tickers[Min(S)]]
  IN IF known = {} THEN None
     ELSE IF issuer # <<>>
     THEN IF Matching(issuer) = {} THEN None ELSE First("issuer_field", Matching(issuer))
     ELSE IF Matching(x.line) # {} THEN First("dateline", Matching(x.line))
     ELSE First("unverified", known)

\* fingerprints_match; a text of a word or two has the simhash 0.
Fingerprint(r, x) ==
  [exact |-> <<r.head, x.story>>, headline |-> r.head, simhash |-> x.story]
FingerprintsMatch(a, b) ==
  \/ a.exact = b.exact
  \/ a.headline = b.headline
  \/ /\ a.simhash # 0 /\ b.simhash # 0
     /\ (a.simhash = b.simhash \/ <<a.simhash, b.simhash>> \in CloseStories)
CrossWireDup(s, f) == \E e \in Remembered : e.ticker = s /\ FingerprintsMatch(e, f)

-----------------------------------------------------------------------------
\* process_release before the fetch, on headline and teaser.
Screened(r) == r.tag \notin {"", "en"} \/ ~English(r.teaser) \/ r.teaser.firm

\* Mutant: a tag is good enough for a teaser that names no one.
UnnamedMutant(r, b, match) == FALSE

\* A tag alone is no proof: the text must name the company.
Unnamed(r, b, match) == match.kind = "unverified" /\ ~Names(b.text, NameOf(match.ticker))

\* The rest of the chain on the body b: [text, article, issuer].
Judged(j, b) ==
  LET r == j.input
      tickers == Tickers(r, b.text)
      match == ResolveIssuer(tickers, b.issuer, b.text)
      next == [j EXCEPT !.body = b, !.match = match]
  IN IF \/ ~English(b.text)
        \/ r.chars + b.text.chars < MinBody
        \/ b.text.firm
        \/ tickers = <<>> \/ match.kind = "none"
     THEN Done(next, Drop)
     ELSE IF Unnamed(r, b, match)
     THEN Done(next, IF r.cut /\ ~b.article THEN Raised ELSE Drop)
     ELSE IF CrossWireDup(match.ticker, Fingerprint(r, b.text))
     THEN Done(next, Drop)
     ELSE Ask(next)

Teaser(r) == [text |-> r.teaser, article |-> FALSE, issuer |-> r.issuer]
Skipped(h) == clock < skipUntil[h]

TakeRelease(t, r) ==
  /\ Free(t)
  /\ taken' = taken + 1
  /\ LET j == [Idle EXCEPT !.kind = "release", !.input = r]
     IN job' = [job EXCEPT ![t] =
          CASE Screened(r) -> Done(j, Drop)
            [] ~Screened(r) /\ (r.cut \/ r.teaser.chars < MinInline)
               /\ ~Skipped(r.host) -> [j EXCEPT !.pc = "fetch"]
            [] OTHER -> Judged(j, Teaser(r))]
  /\ UNCHANGED <<nextKey, breakerVars>>

-----------------------------------------------------------------------------
Noted(h, ok) ==
  recent' = [recent EXCEPT ![h] =
    LET s == Append(@, [ok |-> ok, at |-> clock])
    IN SubSeq(s, Len(s) - Min({Limit, Len(s)}) + 1, Len(s))]

\* Mutant: the count starts again, the host stays skipped.
FetchWorksMutant(h) ==
  /\ fails' = [fails EXCEPT ![h] = 0]
  /\ UNCHANGED skipUntil

\* _record_fetch
FetchWorks(h) ==
  /\ fails' = [fails EXCEPT ![h] = 0]
  /\ skipUntil' = [skipUntil EXCEPT ![h] = 0]

FetchBreaks(h) ==
  /\ fails' = [fails EXCEPT ![h] = Min({@ + 1, Limit})]
  /\ skipUntil' = [skipUntil EXCEPT ![h] = IF fails'[h] >= Limit THEN clock + Cooldown ELSE @]

\* extract_release_text: from the dateline or the headline on, if either is there.
ReleaseText(page) == IF page.dateline \/ page.heading THEN page.text ELSE NoText

\* The page: its credit fills an empty issuer, its text beats a shorter one.
Article(r) ==
  LET x == ReleaseText(r.page)
      better == x.chars > r.teaser.chars
  IN [text |-> IF better THEN x ELSE r.teaser, article |-> better,
      issuer |-> IF r.issuer # <<>> THEN r.issuer ELSE r.page.credit]

\* fetch_release_body: the page comes or does not ...
FetchBody(t) ==
  /\ job[t].pc = "fetch"
  /\ LET r == job[t].input
     IN \/ /\ FetchWorks(r.host) /\ Noted(r.host, TRUE)
           /\ job' = [job EXCEPT ![t].pc = "page"]
        \/ /\ FetchBreaks(r.host) /\ Noted(r.host, FALSE)
           /\ job' = [job EXCEPT ![t] = Judged(@, Teaser(r))]
  /\ UNCHANGED <<nextKey, taken, clock>>

\* ... and is read; what raises then counts as a failure of the host, after the success.
ReadPage(t) ==
  /\ job[t].pc = "page"
  /\ LET r == job[t].input
     IN \/ /\ job' = [job EXCEPT ![t] = Judged(@, Article(r))]
           /\ UNCHANGED <<fails, skipUntil, recent>>
        \/ /\ FetchBreaks(r.host) /\ Noted(r.host, FALSE)
           /\ \E issuer \in {r.issuer, Article(r).issuer} :
                job' = [job EXCEPT ![t] = Judged(@, [Teaser(r) EXCEPT !.issuer = issuer])]
  /\ UNCHANGED <<nextKey, taken, clock>>

Tick ==
  /\ clock < MaxClock
  /\ clock' = clock + 1
  /\ UNCHANGED <<briefingVars, fails, skipUntil, recent>>

GatesInit ==
  /\ BriefingInit
  /\ fails = [h \in Hosts |-> 0]
  /\ skipUntil = [h \in Hosts |-> 0]
  /\ recent = [h \in Hosts |-> <<>>]
  /\ clock = 1

GatesStep ==
  \/ \E t \in Threads :
       \/ \E f \in Filings : StartFiling(t, f) /\ UNCHANGED breakerVars
       \/ \E r \in Releases : TakeRelease(t, r)
       \/ FetchBody(t) \/ ReadPage(t)
       \/ ModelStep(t) /\ UNCHANGED breakerVars
  \/ Tick

-----------------------------------------------------------------------------
(***************************************************************************)
(* A host is skipped exactly while its last Limit fetches, of whichever    *)
(* threads, all failed and the last did less than a cooldown ago: an       *)
(* answer that comes in late opens it at once, and no thread's old failure *)
(* closes it again (feeds.py:219-253).                                     *)
(***************************************************************************)
BreakerSound ==
  \A h \in Hosts :
    Skipped(h) <=>
      /\ Len(recent[h]) = Limit
      /\ \A i \in 1 .. Limit : ~recent[h][i].ok
      /\ clock < recent[h][Limit].at + Cooldown

(***************************************************************************)
(* An event is the company's own: what was read of the release, or who the *)
(* wire or the page says issued it, names the company it is filed under,   *)
(* nothing read of it is a law firm's, and it repeats no event of that     *)
(* company (pipeline.py:194-255, issuer.py:206-297).                       *)
(***************************************************************************)
EventIsTheirs ==
  \A t \in Threads :
    job[t].pc = "done" /\ job[t].kind = "release" /\ job[t].out.mode = "llm" =>
      LET j == job[t]
          n == NameOf(j.match.ticker)
      IN /\ NamesMatch(j.body.issuer, n) \/ NamesMatch(j.body.text.line, n) \/ Names(j.body.text, n)
         /\ ~j.input.teaser.firm /\ ~j.body.text.firm
         /\ ~CrossWireDup(j.match.ticker, Fingerprint(j.input, j.body.text))
=============================================================================
