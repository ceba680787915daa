----------------------------- MODULE DeskProofs -----------------------------
(***************************************************************************)
(* What TLAPS proves of Desk, for any number of threads, jobs and hosts,   *)
(* any releases, filings and documents, and any thresholds.                *)
(***************************************************************************)
EXTENDS Desk, WellFoundedInduction, FiniteSetTheorems, SequenceTheorems, TLAPS

(***************************************************************************)
(* Minimum and maximum.                                                    *)
(***************************************************************************)

LEMMA MinOf ==
  ASSUME NEW S \in SUBSET Nat, S # {}
  PROVE  Min(S) \in S /\ \A y \in S : Min(S) <= y
<1> DEFINE R == {ss \in Nat \X Nat : ss[1] < ss[2]}
<1>1. PICK x \in S : \A y \in S : ~(<<y, x>> \in R)
  <2>1. IsWellFoundedOn(R, Nat)
    BY NatLessThanWellFounded, Zenon DEF OpToRel
  <2> HIDE DEF R
  <2>2. QED
    BY <2>1, WFMin, Zenon
<1>2. ASSUME NEW y \in S PROVE x <= y
  <2>1. x \in Nat /\ y \in Nat /\ <<y, x>> \in Nat \X Nat
    OBVIOUS
  <2>2. ~(<<y, x>>[1] < <<y, x>>[2])
    BY <1>1, <2>1
  <2> QED
    BY <2>1, <2>2
<1> QED
  BY <1>2 DEF Min

LEMMA MaxOf ==
  ASSUME NEW S \in SUBSET Nat, S # {}, NEW b \in Nat, \A s \in S : s <= b
  PROVE  Max(S) \in S /\ \A y \in S : y <= Max(S)
<1> DEFINE Below == {d \in Nat : \E s \in S : d = b - s}
<1>1. PICK s0 \in S : TRUE
  OBVIOUS
<1>2. b - s0 \in Below
  OBVIOUS
<1>3. Min(Below) \in Below /\ \A y \in Below : Min(Below) <= y
  BY <1>2, MinOf
<1>4. PICK m \in S : Min(Below) = b - m
  BY <1>3
<1>5. ASSUME NEW y \in S PROVE m >= y
  <2>1. b - y \in Below
    OBVIOUS
  <2> QED
    BY <2>1, <1>3, <1>4
<1> QED
  BY <1>5 DEF Max

LEMMA MinOfTwo ==
  ASSUME NEW a \in Nat, NEW b \in Nat
  PROVE  Min({a, b}) = IF a <= b THEN a ELSE b
<1>1. Min({a, b}) \in {a, b} /\ \A y \in {a, b} : Min({a, b}) <= y
  BY MinOf
<1> QED
  BY <1>1

(***************************************************************************)
(* A job, from the model's side.                                           *)
(***************************************************************************)

\* The code asks whether a model is the chain's last by its name, so a chain that
\* lists its last model twice stops at the first of the two (briefing.py:522).
LastModelOnce == \A i \in 1 .. Len(Chain) : Chain[i] = Last(Chain) => i = Len(Chain)

JobFields == {"pc", "kind", "input", "chars", "body", "match", "pos", "plain", "tried",
              "reply", "out"}
JobShape ==
  /\ job = [t \in Threads |-> job[t]]
  /\ \A t \in Threads : DOMAIN job[t] = JobFields

Tries == [model : Range(Chain), plain : BOOLEAN, why : Faults \cup {"rejected"}]

\* The model m had its turn and failed for a reason of its own.
FailedItself(j, m) ==
  \E k \in 1 .. Len(j.tried) : j.tried[k].model = m /\ Fallthrough(j.tried[k].why)

\* A job that is still at work has no answer yet, and every model before the one it
\* is at failed for a reason of its own.
AtWork(j) ==
  /\ j.reply = <<>> /\ j.plain \in BOOLEAN
  /\ j.pos \in 1 .. Len(Chain)
  /\ j.tried \in Seq(Tries)
  /\ \A i \in 1 .. j.pos - 1 : FailedItself(j, Chain[i])

\* Why FactsOnlyIsLastResort holds, for one job.
ChainOK(j) ==
  /\ j.pc \in {"fetch", "page", "ask"} => AtWork(j)
  /\ j.pc \in {"fetch", "page"} => j.kind = "release"
  /\ j.pc = "done" /\ j.kind = "filing" /\ j.out.mode = "facts_only" => Untold(j)

ChainInv == JobShape /\ \A t \in Threads : ChainOK(job[t])

LEMMA ChainFacts ==
  /\ Len(Chain) \in Nat \ {0}
  /\ Last(Chain) = Chain[Len(Chain)]
  /\ Range(Chain) = {Chain[i] : i \in 1 .. Len(Chain)}
<1> DEFINE default == <<"openai/gpt-oss-120b", "openai/gpt-oss-20b", "qwen/qwen3.6-27b">>
<1>1. Configured \in Seq(STRING)
  BY BriefingAssumption
<1>2. default \in Seq({"openai/gpt-oss-120b", "openai/gpt-oss-20b", "qwen/qwen3.6-27b"})
  OBVIOUS
<1>3. default # <<>>
  OBVIOUS
<1>4. Chain = IF Configured # <<>> THEN Configured ELSE default
  BY DEF Chain
<1> HIDE DEF default
<1> QED
  BY <1>1, <1>2, <1>3, <1>4 DEF Last, Range

LEMMA IdleFacts ==
  /\ DOMAIN Idle = JobFields
  /\ Idle.pc = "idle" /\ Idle.kind = "none" /\ AtWork(Idle)
<1>1. Len(Chain) \in Nat \ {0}
  BY ChainFacts
<1>2. /\ DOMAIN Idle = JobFields
      /\ Idle.pc = "idle" /\ Idle.kind = "none"
      /\ Idle.reply = <<>> /\ Idle.plain = FALSE /\ Idle.pos = 1 /\ Idle.tried = <<>>
  BY DEF Idle, JobFields
<1>3. Idle.tried \in Seq(Tries)
  BY <1>2
<1>4. 1 .. Idle.pos - 1 = {}
  BY <1>2
<1>5. Idle.plain \in BOOLEAN
  BY <1>2
<1>6. Idle.pos \in 1 .. Len(Chain)
  BY <1>1, <1>2
<1> QED
  BY <1>2, <1>3, <1>4, <1>5, <1>6 DEF AtWork

\* A job that was at work and only failed more is at work.
LEMMA StaysAtWork ==
  ASSUME NEW i, NEW j, AtWork(i),
         j.reply = i.reply, j.plain \in BOOLEAN, j.pos = i.pos, j.tried \in Seq(Tries),
         \A m : FailedItself(i, m) => FailedItself(j, m)
  PROVE  AtWork(j)
BY DEF AtWork

LEMMA SameAtWork ==
  ASSUME NEW i, NEW j, AtWork(i),
         j.reply = i.reply, j.plain = i.plain, j.pos = i.pos, j.tried = i.tried
  PROVE  AtWork(j)
<1>1. j.plain \in BOOLEAN /\ j.tried \in Seq(Tries)
  BY DEF AtWork
<1>2. \A m : FailedItself(i, m) => FailedItself(j, m)
  BY DEF FailedItself
<1> QED
  BY <1>1, <1>2, StaysAtWork

\* A job that was done or that asks a model next is otherwise what it was.
LEMMA DoneFacts ==
  ASSUME NEW j, DOMAIN j = JobFields, NEW out
  PROVE  /\ DOMAIN Done(j, out) = JobFields
         /\ Done(j, out).pc = "done" /\ Done(j, out).out = out
         /\ Done(j, out).kind = j.kind /\ Done(j, out).chars = j.chars
         /\ Done(j, out).tried = j.tried /\ Done(j, out).reply = j.reply
         /\ Done(j, out).input = j.input /\ Done(j, out).body = j.body
         /\ Done(j, out).match = j.match
BY DEF Done, JobFields

LEMMA AskFacts ==
  ASSUME NEW j, DOMAIN j = JobFields
  PROVE  /\ DOMAIN Ask(j) = JobFields
         /\ Ask(j).pc = "ask"
         /\ Ask(j).kind = j.kind /\ Ask(j).input = j.input
         /\ Ask(j).body = j.body /\ Ask(j).match = j.match
         /\ AtWork(j) => AtWork(Ask(j))
<1>1. /\ DOMAIN Ask(j) = JobFields
      /\ Ask(j).pc = "ask"
      /\ Ask(j).kind = j.kind /\ Ask(j).input = j.input
      /\ Ask(j).body = j.body /\ Ask(j).match = j.match
      /\ Ask(j).plain = j.plain /\ Ask(j).pos = j.pos /\ Ask(j).tried = j.tried
      /\ Ask(j).reply = j.reply
  BY DEF Ask, JobFields
<1> QED
  BY <1>1, SameAtWork

\* What the gates leave of a job: at the end, or with a question for the chain.
LEMMA JudgedFacts ==
  ASSUME NEW j, DOMAIN j = JobFields, NEW b
  PROVE  /\ DOMAIN Judged(j, b) = JobFields
         /\ Judged(j, b).kind = j.kind
         /\ \/ Judged(j, b).pc = "done" /\ Judged(j, b).out \in {Drop, Raised}
            \/ Judged(j, b).pc = "ask" /\ (AtWork(j) => AtWork(Judged(j, b)))
<1> DEFINE match == ResolveIssuer(Tickers(j.input, b.text), b.issuer, b.text)
           next == [j EXCEPT !.body = b, !.match = match]
<1>1. \/ \E out \in {Drop, Raised} : Judged(j, b) = Done(next, out)
      \/ Judged(j, b) = Ask(next)
  BY DEF Judged
<1> HIDE DEF match
<1>2. /\ DOMAIN next = JobFields /\ next.kind = j.kind
      /\ next.plain = j.plain /\ next.pos = j.pos /\ next.tried = j.tried
      /\ next.reply = j.reply
  BY DEF JobFields
<1> HIDE DEF next
<1>3. AtWork(j) => AtWork(next)
  BY <1>2, SameAtWork
<1> QED
  BY <1>1, <1>2, <1>3, DoneFacts, AskFacts

LEMMA JobFrame ==
  ASSUME JobShape, NEW t \in Threads, NEW n, DOMAIN n = JobFields,
         job' = [job EXCEPT ![t] = n]
  PROVE  /\ JobShape'
         /\ job'[t] = n
         /\ \A u \in Threads : u # t => job'[u] = job[u]
BY DEF JobShape

LEMMA ChainFrame ==
  ASSUME ChainInv, NEW t \in Threads, NEW n, DOMAIN n = JobFields, ChainOK(n),
         job' = [job EXCEPT ![t] = n]
  PROVE  ChainInv'
<1>1. JobShape' /\ job'[t] = n /\ \A u \in Threads : u # t => job'[u] = job[u]
  BY JobFrame DEF ChainInv
<1> QED
  BY <1>1 DEF ChainInv

LEMMA ChainStartFiling ==
  ASSUME ChainInv, NEW t \in Threads, NEW f \in Filings, StartFiling(t, f)
  PROVE  ChainInv'
<1>1. PICK read \in SUBSET Fetchable(f) :
        LET j == [Idle EXCEPT !.kind = "filing", !.input = f, !.chars = Substance(f, read)]
        IN job' = [job EXCEPT ![t] =
             IF j.chars < MinSource THEN Done(j, FactsOnly(f)) ELSE Ask(j)]
  BY DEF StartFiling
<1> DEFINE c == Substance(f, read)
           j == [Idle EXCEPT !.kind = "filing", !.input = f, !.chars = c]
           n == IF j.chars < MinSource THEN Done(j, FactsOnly(f)) ELSE Ask(j)
<1>2. job' = [job EXCEPT ![t] = n]
  BY <1>1
<1> HIDE DEF c
<1>3. /\ DOMAIN j = JobFields /\ j.kind = "filing"
      /\ j.plain = Idle.plain /\ j.pos = Idle.pos /\ j.tried = Idle.tried
      /\ j.reply = Idle.reply
  BY IdleFacts DEF JobFields
<1> HIDE DEF j
<1>4. AtWork(j)
  BY <1>3, IdleFacts, SameAtWork
<1>5. DOMAIN n = JobFields
  BY <1>3, DoneFacts, AskFacts
<1>6. ChainOK(n)
  <2>1. CASE j.chars < MinSource
    <3>1. n = Done(j, FactsOnly(f))
      BY <2>1
    <3>2. n.pc = "done" /\ n.chars < MinSource
      BY <2>1, <3>1, <1>3, DoneFacts
    <3> QED
      BY <3>2 DEF ChainOK, Untold
  <2>2. CASE ~(j.chars < MinSource)
    <3>1. n = Ask(j)
      BY <2>2
    <3>2. n.pc = "ask" /\ AtWork(n)
      BY <3>1, <1>3, <1>4, AskFacts
    <3> QED
      BY <3>2 DEF ChainOK
  <2> QED
    BY <2>1, <2>2
<1> HIDE DEF n
<1> QED
  BY <1>2, <1>5, <1>6, ChainFrame

LEMMA JudgedChain ==
  ASSUME NEW j, DOMAIN j = JobFields, AtWork(j), j.kind = "release", NEW b
  PROVE  DOMAIN Judged(j, b) = JobFields /\ ChainOK(Judged(j, b))
<1> DEFINE n == Judged(j, b)
<1>1. /\ DOMAIN n = JobFields /\ n.kind = "release"
      /\ n.pc = "done" \/ (n.pc = "ask" /\ AtWork(n))
  BY JudgedFacts
<1> HIDE DEF n
<1>2. ChainOK(n)
  BY <1>1 DEF ChainOK
<1> QED
  BY <1>1, <1>2 DEF n

LEMMA ChainTakeRelease ==
  ASSUME ChainInv, NEW t \in Threads, NEW r \in Releases, TakeRelease(t, r)
  PROVE  ChainInv'
<1> DEFINE j == [Idle EXCEPT !.kind = "release", !.input = r]
           fetch == [j EXCEPT !.pc = "fetch"]
<1>1. \/ job' = [job EXCEPT ![t] = Done(j, Drop)]
      \/ job' = [job EXCEPT ![t] = fetch]
      \/ job' = [job EXCEPT ![t] = Judged(j, Teaser(r))]
  BY DEF TakeRelease
<1>2. /\ DOMAIN j = JobFields /\ j.kind = "release"
      /\ j.plain = Idle.plain /\ j.pos = Idle.pos /\ j.tried = Idle.tried
      /\ j.reply = Idle.reply
  BY IdleFacts DEF JobFields
<1> HIDE DEF j
<1>3. AtWork(j)
  BY <1>2, IdleFacts, SameAtWork
<1>4. /\ DOMAIN fetch = JobFields /\ fetch.pc = "fetch" /\ fetch.kind = "release"
      /\ fetch.plain = j.plain /\ fetch.pos = j.pos /\ fetch.tried = j.tried
      /\ fetch.reply = j.reply
  BY <1>2 DEF JobFields
<1> HIDE DEF fetch
<1>5. ChainOK(fetch)
  BY <1>3, <1>4, SameAtWork DEF ChainOK
<1>6. DOMAIN Done(j, Drop) = JobFields /\ ChainOK(Done(j, Drop))
  BY <1>2, DoneFacts DEF ChainOK
<1> QED
  BY <1>1, <1>2, <1>3, <1>4, <1>5, <1>6, JudgedChain, ChainFrame

LEMMA ChainFetchBody ==
  ASSUME ChainInv, NEW t \in Threads, FetchBody(t) \/ ReadPage(t)
  PROVE  ChainInv'
<1> DEFINE page == [job[t] EXCEPT !.pc = "page"]
<1>1. \/ \E b : job' = [job EXCEPT ![t] = Judged(job[t], b)]
      \/ job' = [job EXCEPT ![t] = page]
  BY DEF FetchBody, ReadPage
<1>2. DOMAIN job[t] = JobFields /\ AtWork(job[t]) /\ job[t].kind = "release"
  BY DEF ChainInv, ChainOK, JobShape, FetchBody, ReadPage
<1>3. /\ DOMAIN page = JobFields /\ page.pc = "page" /\ page.kind = "release"
      /\ page.plain = job[t].plain /\ page.pos = job[t].pos /\ page.tried = job[t].tried
      /\ page.reply = job[t].reply
  BY <1>2 DEF JobFields
<1> HIDE DEF page
<1>4. ChainOK(page)
  BY <1>2, <1>3, SameAtWork DEF ChainOK
<1> QED
  BY <1>1, <1>2, <1>3, <1>4, JudgedChain, ChainFrame

\* A failed completion is one more attempt of the model the job is at.
LEMMA FailingFacts ==
  ASSUME NEW j, DOMAIN j = JobFields, AtWork(j), NEW e \in Faults \cup {"rejected"}
  PROVE  LET n == Failing(j, e)
             last == [model |-> Model(j), plain |-> j.plain, why |-> e]
         IN /\ DOMAIN n = JobFields
            /\ n.pc = j.pc /\ n.kind = j.kind /\ n.input = j.input /\ n.chars = j.chars
            /\ n.body = j.body /\ n.match = j.match /\ n.reply = j.reply
            /\ n.pos = j.pos /\ n.plain = j.plain
            /\ n.tried \in Seq(Tries) /\ n.tried # <<>> /\ Last(n.tried) = last
            /\ \A m : FailedItself(j, m) => FailedItself(n, m)
            /\ Fallthrough(e) => FailedItself(n, Model(j))
<1> DEFINE n == Failing(j, e)
           last == [model |-> Model(j), plain |-> j.plain, why |-> e]
<1>1. /\ DOMAIN n = JobFields
      /\ n.pc = j.pc /\ n.kind = j.kind /\ n.input = j.input /\ n.chars = j.chars
      /\ n.body = j.body /\ n.match = j.match /\ n.reply = j.reply
      /\ n.pos = j.pos /\ n.plain = j.plain
      /\ n.tried = Append(j.tried, last)
  BY DEF Failing, JobFields
<1>2. last \in Tries /\ last.model = Model(j) /\ last.why = e
  BY ChainFacts DEF Tries, Model, AtWork
<1>3. j.tried \in Seq(Tries)
  BY DEF AtWork
<1> HIDE DEF n, last
<1>4. /\ n.tried \in Seq(Tries) /\ Len(n.tried) = Len(j.tried) + 1
      /\ n.tried[Len(n.tried)] = last
      /\ \A k \in 1 .. Len(j.tried) : n.tried[k] = j.tried[k]
  BY <1>1, <1>2, <1>3
<1>5. n.tried # <<>> /\ Last(n.tried) = last
  BY <1>4 DEF Last
<1>6. ASSUME NEW m, FailedItself(j, m) PROVE FailedItself(n, m)
  BY <1>3, <1>4, <1>6 DEF FailedItself
<1>7. ASSUME Fallthrough(e) PROVE FailedItself(n, Model(j))
  BY <1>2, <1>3, <1>4, <1>7 DEF FailedItself
<1> QED
  BY <1>1, <1>4, <1>5, <1>6, <1>7 DEF n, last

LEMMA ChainRetryPlain ==
  ASSUME ChainInv, NEW t \in Threads, RetryPlain(t)
  PROVE  ChainInv'
<1> DEFINE f == Failing(job[t], "rejected")
           n == [f EXCEPT !.plain = TRUE]
<1>1. job' = [job EXCEPT ![t] = n] /\ job[t].pc = "ask"
  BY DEF RetryPlain, Completing
<1>2. DOMAIN job[t] = JobFields /\ AtWork(job[t])
  BY <1>1 DEF ChainInv, ChainOK, JobShape
<1>3. /\ DOMAIN f = JobFields /\ f.pc = "ask"
      /\ f.reply = job[t].reply /\ f.pos = job[t].pos
      /\ f.tried \in Seq(Tries)
      /\ \A m : FailedItself(job[t], m) => FailedItself(f, m)
  BY <1>1, <1>2, FailingFacts
<1> HIDE DEF f
<1>4. /\ DOMAIN n = JobFields /\ n.pc = "ask" /\ n.reply = f.reply /\ n.pos = f.pos
      /\ n.tried = f.tried /\ n.plain = TRUE
  BY <1>3 DEF JobFields
<1> HIDE DEF n
<1>5. \A m : FailedItself(job[t], m) => FailedItself(n, m)
  <2>1. \A m : FailedItself(f, m) => FailedItself(n, m)
    BY <1>4 DEF FailedItself
  <2> QED
    BY <2>1, <1>3
<1>6. AtWork(n)
  BY <1>2, <1>3, <1>4, <1>5, StaysAtWork
<1>7. ChainOK(n)
  BY <1>4, <1>6 DEF ChainOK
<1> QED
  BY <1>1, <1>4, <1>7, ChainFrame

LEMMA ChainNextModel ==
  ASSUME ChainInv, NEW t \in Threads, NEW e \in Faults, NextModel(t, e)
  PROVE  ChainInv'
<1> DEFINE j == job[t]
           f == Failing(j, e)
           n == [f EXCEPT !.pos = @ + 1, !.plain = FALSE]
<1>1. /\ job' = [job EXCEPT ![t] = n]
      /\ j.pc = "ask" /\ Fallthrough(e) /\ NotTheLast(j)
  BY DEF NextModel, Completing
<1>2. DOMAIN j = JobFields /\ AtWork(j)
  BY <1>1 DEF ChainInv, ChainOK, JobShape
<1> HIDE DEF j
<1>3. /\ DOMAIN f = JobFields /\ f.pc = "ask"
      /\ f.reply = j.reply /\ f.pos = j.pos
      /\ f.tried \in Seq(Tries)
      /\ \A m : FailedItself(j, m) => FailedItself(f, m)
      /\ FailedItself(f, Model(j))
  BY <1>1, <1>2, FailingFacts
<1> HIDE DEF f
<1>4. /\ DOMAIN n = JobFields /\ n.pc = "ask" /\ n.reply = f.reply /\ n.pos = f.pos + 1
      /\ n.tried = f.tried /\ n.plain = FALSE
  BY <1>3 DEF JobFields
<1> HIDE DEF n
<1>5. \A m : FailedItself(f, m) => FailedItself(n, m)
  BY <1>4 DEF FailedItself
<1>6. j.pos \in 1 .. Len(Chain) /\ j.pos # Len(Chain)
  BY <1>1, <1>2, ChainFacts DEF AtWork, NotTheLast, Model
<1>7. ASSUME NEW i \in 1 .. n.pos - 1 PROVE FailedItself(n, Chain[i])
  <2>1. CASE i = j.pos
    BY <2>1, <1>3, <1>5 DEF Model
  <2>2. CASE i # j.pos
    <3>1. i \in 1 .. j.pos - 1
      BY <2>2, <1>3, <1>4, <1>6, ChainFacts
    <3> QED
      BY <3>1, <1>2, <1>3, <1>5 DEF AtWork
  <2> QED
    BY <2>1, <2>2
<1>8. n.pos \in 1 .. Len(Chain) /\ n.reply = <<>>
  BY <1>2, <1>3, <1>4, <1>6, ChainFacts DEF AtWork
<1>9. AtWork(n)
  BY <1>3, <1>4, <1>7, <1>8 DEF AtWork
<1>10. ChainOK(n)
  BY <1>4, <1>9 DEF ChainOK
<1> QED
  BY <1>1, <1>4, <1>10, ChainFrame

LEMMA ChainRaises ==
  ASSUME LastModelOnce, ChainInv, NEW t \in Threads, NEW e \in Faults, Raises(t, e)
  PROVE  ChainInv'
<1> DEFINE j == job[t]
           f == Failing(j, e)
           out == IF f.kind = "filing" THEN FactsOnly(f.input) ELSE Raised
           n == Done(f, out)
<1>1. /\ job' = [job EXCEPT ![t] = n] /\ j.pc = "ask"
      /\ ~DropsExtras(j, e) /\ ~(Fallthrough(e) /\ NotTheLast(j))
  BY DEF Raises, Completing
<1>2. DOMAIN j = JobFields /\ AtWork(j)
  BY <1>1 DEF ChainInv, ChainOK, JobShape
<1> HIDE DEF j
<1> DEFINE last == [model |-> Model(j), plain |-> j.plain, why |-> e]
<1>3. /\ DOMAIN f = JobFields
      /\ f.tried # <<>> /\ Last(f.tried) = last
      /\ \A m : FailedItself(j, m) => FailedItself(f, m)
      /\ Fallthrough(e) => FailedItself(f, Model(j))
  BY <1>2, FailingFacts
<1> HIDE DEF f, out
<1>4. DOMAIN n = JobFields /\ n.pc = "done" /\ n.tried = f.tried
  BY <1>3, DoneFacts
<1> HIDE DEF n
<1>5. e \in {"rate", "gone", "empty", "garbled", "rejected", "down"}
  BY BriefingAssumption
<1>6. ASSUME Fallthrough(e) PROVE Untold(n)
  <2>1. j.pos = Len(Chain)
    BY <1>1, <1>2, <1>6 DEF NotTheLast, Model, LastModelOnce, AtWork
  <2>2. ASSUME NEW i \in 1 .. Len(Chain) PROVE FailedItself(n, Chain[i])
    <3>1. FailedItself(f, Chain[i])
      <4>1. i = j.pos \/ i \in 1 .. j.pos - 1
        BY <2>1, ChainFacts
      <4> QED
        BY <4>1, <1>2, <1>3, <1>6 DEF AtWork, Model
    <3> QED
      BY <3>1, <1>4 DEF FailedItself
  <2>3. ASSUME NEW m \in Range(Chain)
        PROVE  \E k \in 1 .. Len(n.tried) : n.tried[k].model = m /\ Fallthrough(n.tried[k].why)
    <3>1. PICK i \in 1 .. Len(Chain) : m = Chain[i]
      BY ChainFacts
    <3> QED
      BY <2>2, <3>1 DEF FailedItself
  <2> QED
    BY <2>3 DEF Untold
<1>7. ASSUME ~Fallthrough(e) PROVE Untold(n)
  <2>1. last.why = e /\ last.plain = j.plain /\ last.model = Model(j)
    OBVIOUS
  <2>2. e = "down" \/ (e = "rejected" /\ (j.plain \/ Model(j) \notin Extras))
    BY <1>1, <1>5, <1>7 DEF Fallthrough, DropsExtras
  <2> HIDE DEF last
  <2> QED
    BY <2>1, <2>2, <1>3, <1>4 DEF Untold
<1>8. Untold(n)
  BY <1>6, <1>7
<1> QED
  BY <1>1, <1>4, <1>8, ChainFrame DEF ChainOK

LEMMA ChainAnswers ==
  ASSUME ChainInv, NEW t \in Threads, NEW r \in Replies, Answers(t, r)
  PROVE  ChainInv'
<1> DEFINE j == [job[t] EXCEPT !.reply = <<r>>]
           out == IF j.kind = "filing" THEN FilingBriefed(j.input, r) ELSE ReleaseBriefed(r)
           n == Done(j, out)
<1>1. job' = [job EXCEPT ![t] = n]
  BY DEF Answers
<1>2. DOMAIN job[t] = JobFields
  BY DEF ChainInv, JobShape
<1>3. DOMAIN j = JobFields /\ j.reply = <<r>>
  BY <1>2 DEF JobFields
<1> HIDE DEF j
<1>4. ASSUME j.kind = "filing", out.mode = "facts_only" PROVE r.insufficient
  <2>1. Raised.mode = "raised" /\ \A types : ByModel(types).mode = "llm"
    BY DEF Raised, ByModel
  <2>2. r.insufficient \in BOOLEAN
    BY BriefingAssumption
  <2>3. \/ r.insufficient
        \/ out = Raised
        \/ out = ByModel(ValidTypes(r.types))
    BY <1>4, <2>2 DEF FilingBriefed
  <2> HIDE DEF out
  <2> QED
    BY <1>4, <2>1, <2>3
<1> HIDE DEF out
<1>5. /\ DOMAIN n = JobFields /\ n.pc = "done" /\ n.kind = j.kind /\ n.out = out
      /\ n.reply = <<r>>
  BY <1>3, DoneFacts
<1> HIDE DEF n
<1>6. ChainOK(n)
  BY <1>4, <1>5 DEF ChainOK, Untold
<1> QED
  BY <1>1, <1>5, <1>6, ChainFrame

-----------------------------------------------------------------------------
LEMMA ChainInit == Init => ChainInv
<1> SUFFICES ASSUME Init PROVE ChainInv
  OBVIOUS
<1>1. job = [t \in Threads |-> Idle]
  BY DEF Init, GatesInit, BriefingInit
<1>2. JobShape /\ \A t \in Threads : job[t] = Idle
  BY <1>1, IdleFacts DEF JobShape
<1>3. ChainOK(Idle)
  BY IdleFacts DEF ChainOK
<1> QED
  BY <1>2, <1>3 DEF ChainInv

LEMMA ChainStep == LastModelOnce /\ ChainInv /\ [Next]_vars => ChainInv'
<1> SUFFICES ASSUME LastModelOnce, ChainInv, [Next]_vars PROVE ChainInv'
  OBVIOUS
<1>1. CASE UNCHANGED job
  BY <1>1 DEF ChainInv, JobShape
<1>2. CASE \E t \in Threads : ModelStep(t)
  BY <1>2, ChainRetryPlain, ChainNextModel, ChainRaises, ChainAnswers DEF ModelStep
<1>3. CASE \E t \in Threads : \/ \E f \in Filings : StartFiling(t, f)
                              \/ \E r \in Releases : TakeRelease(t, r)
                              \/ FetchBody(t) \/ ReadPage(t)
  BY <1>3, ChainStartFiling, ChainTakeRelease, ChainFetchBody
<1> QED
  BY <1>1, <1>2, <1>3
  DEF Next, GatesStep, Tick, vars, gateVars, briefingVars

\* The facts alone are the last resort (FactsOnlyIsLastResort), with any chain that
\* names its last model once, any number of threads, filings and releases, and
\* however the completions fail (briefing.py:484-533).
THEOREM FactsAreLast ==
  ASSUME LastModelOnce
  PROVE  Spec => []FactsOnlyIsLastResort
<1>1. LastModelOnce' <=> LastModelOnce
  BY DEF LastModelOnce, Last, Chain
<1>2. ChainInv => FactsOnlyIsLastResort
  BY DEF ChainInv, ChainOK, FactsOnlyIsLastResort
<1> QED
  BY ChainInit, ChainStep, <1>1, <1>2, PTL DEF Spec

(***************************************************************************)
(* The breaker of a host.                                                  *)
(***************************************************************************)

Fetches == [ok : BOOLEAN, at : Nat]

\* What the counters say of the last fetches, and they of the counters: the last
\* fails[h] of them failed and the one before did not, and the host is skipped from
\* the last one on when that makes Limit.
HostOK(h) ==
  LET n == Len(recent[h])
  IN /\ recent[h] \in Seq(Fetches)
     /\ fails[h] \in 0 .. Limit /\ fails[h] <= n /\ n <= Limit
     /\ \A i \in n - fails[h] + 1 .. n : ~recent[h][i].ok
     /\ fails[h] < n => recent[h][n - fails[h]].ok
     /\ fails[h] < Limit => skipUntil[h] = 0
     /\ fails[h] = Limit => skipUntil[h] = recent[h][n].at + Cooldown

BreakerInv ==
  /\ DOMAIN fails = Hosts /\ DOMAIN skipUntil = Hosts /\ DOMAIN recent = Hosts
  /\ clock \in Nat
  /\ \A h \in Hosts : HostOK(h)

LEMMA BreakerFacts == Limit \in Nat \ {0} /\ Cooldown \in Nat /\ MaxClock \in Nat
BY GatesAssumption

LEMMA BreakerIsSound == BreakerInv => BreakerSound
<1> SUFFICES ASSUME BreakerInv, NEW h \in Hosts
    PROVE  Skipped(h) <=>
             /\ Len(recent[h]) = Limit
             /\ \A i \in 1 .. Limit : ~recent[h][i].ok
             /\ clock < recent[h][Limit].at + Cooldown
  BY DEF BreakerSound
<1>1. HostOK(h) /\ clock \in Nat
  BY DEF BreakerInv
<1>2. CASE fails[h] = Limit
  BY <1>1, <1>2, BreakerFacts DEF HostOK, Skipped
<1>3. CASE fails[h] < Limit
  BY <1>1, <1>3, BreakerFacts DEF HostOK, Skipped
<1> QED
  BY <1>1, <1>2, <1>3, BreakerFacts DEF HostOK

\* The fetches of a host that are remembered: the last Limit of them.
LEMMA NotedKeeps ==
  ASSUME BreakerInv, NEW h \in Hosts, NEW ok \in BOOLEAN, Noted(h, ok)
  PROVE  LET n == Len(recent[h])
             m == IF n < Limit THEN n + 1 ELSE Limit
         IN /\ recent'[h] \in Seq(Fetches) /\ Len(recent'[h]) = m
            /\ recent'[h][m] = [ok |-> ok, at |-> clock]
            /\ \A i \in 1 .. m - 1 : recent'[h][i] = recent[h][n + 1 - m + i]
            /\ DOMAIN recent' = Hosts
            /\ \A g \in Hosts : g # h => recent'[g] = recent[g]
<1> DEFINE n == Len(recent[h])
           m == IF n < Limit THEN n + 1 ELSE Limit
           e == [ok |-> ok, at |-> clock]
           s == Append(recent[h], e)
           k == Len(s) - Min({Limit, Len(s)}) + 1
<1>1. recent' = [recent EXCEPT ![h] = SubSeq(s, k, Len(s))]
  BY DEF Noted
<1>2. recent[h] \in Seq(Fetches) /\ e \in Fetches /\ n <= Limit /\ DOMAIN recent = Hosts
  BY DEF BreakerInv, HostOK, Fetches
<1> HIDE DEF e
<1>3. /\ s \in Seq(Fetches) /\ Len(s) = n + 1 /\ s[n + 1] = e
      /\ \A i \in 1 .. n : s[i] = recent[h][i]
  BY <1>2
<1> HIDE DEF s
<1>4. Min({Limit, Len(s)}) = m /\ n \in Nat /\ m \in 1 .. n + 1
  BY <1>2, <1>3, BreakerFacts, MinOfTwo
<1> HIDE DEF m
<1>5. k = n + 2 - m
  BY <1>3, <1>4
<1> HIDE DEF k, n
<1>6. /\ SubSeq(s, k, Len(s)) \in Seq(Fetches) /\ Len(SubSeq(s, k, Len(s))) = m
      /\ \A i \in 1 .. m : SubSeq(s, k, Len(s))[i] = s[n + 1 - m + i]
  BY <1>3, <1>4, <1>5
<1>7. recent'[h] = SubSeq(s, k, Len(s))
  BY <1>1, <1>2
<1>8. DOMAIN recent' = Hosts /\ \A g \in Hosts : g # h => recent'[g] = recent[g]
  BY <1>1, <1>2
<1>9. recent'[h][m] = e /\ \A i \in 1 .. m - 1 : recent'[h][i] = recent[h][n + 1 - m + i]
  <2>1. m \in 1 .. m /\ n + 1 - m + m = n + 1
    BY <1>4
  <2>2. \A i \in 1 .. m - 1 : i \in 1 .. m /\ n + 1 - m + i \in 1 .. n
    BY <1>4
  <2> QED
    BY <2>1, <2>2, <1>3, <1>6, <1>7
<1> QED
  BY <1>6, <1>7, <1>8, <1>9 DEF n, m, e

LEMMA HostWorks ==
  ASSUME BreakerInv, NEW h \in Hosts, FetchWorks(h), Noted(h, TRUE)
  PROVE  HostOK(h)'
<1>1. fails'[h] = 0 /\ skipUntil'[h] = 0
  BY DEF FetchWorks, BreakerInv
<1> DEFINE n == Len(recent[h])
           m == IF n < Limit THEN n + 1 ELSE Limit
<1>2. /\ recent'[h] \in Seq(Fetches) /\ Len(recent'[h]) = m
      /\ recent'[h][m] = [ok |-> TRUE, at |-> clock]
  BY NotedKeeps
<1>3. n \in Nat /\ n <= Limit
  BY DEF BreakerInv, HostOK
<1> QED
  BY <1>1, <1>2, <1>3, BreakerFacts DEF HostOK

LEMMA HostBreaks ==
  ASSUME BreakerInv, NEW h \in Hosts, FetchBreaks(h), Noted(h, FALSE)
  PROVE  HostOK(h)'
<1> DEFINE n == Len(recent[h])
           m == IF n < Limit THEN n + 1 ELSE Limit
<1>1. HostOK(h) /\ DOMAIN fails = Hosts /\ DOMAIN skipUntil = Hosts
  BY DEF BreakerInv
<1>2. fails'[h] = IF fails[h] < Limit THEN fails[h] + 1 ELSE Limit
  <2>1. fails[h] + 1 \in Nat /\ fails[h] \in Nat
    BY <1>1 DEF HostOK
  <2>2. fails'[h] = Min({fails[h] + 1, Limit})
    BY <1>1 DEF FetchBreaks
  <2> QED
    BY <2>1, <2>2, MinOfTwo, BreakerFacts
<1>3. skipUntil'[h] = IF fails'[h] >= Limit THEN clock + Cooldown ELSE skipUntil[h]
  BY <1>1 DEF FetchBreaks
<1>4. /\ recent'[h] \in Seq(Fetches) /\ Len(recent'[h]) = m
      /\ recent'[h][m] = [ok |-> FALSE, at |-> clock]
      /\ \A i \in 1 .. m - 1 : recent'[h][i] = recent[h][n + 1 - m + i]
  BY NotedKeeps
<1>5. n \in Nat /\ n <= Limit
  BY <1>1 DEF HostOK
<1>6. fails'[h] \in 0 .. Limit /\ fails'[h] <= m /\ m <= Limit /\ m \in Nat \ {0}
  BY <1>1, <1>2, <1>5, BreakerFacts DEF HostOK
<1>7. \A i \in m - fails'[h] + 1 .. m : ~recent'[h][i].ok
  <2> SUFFICES ASSUME NEW i \in m - fails'[h] + 1 .. m PROVE ~recent'[h][i].ok
    OBVIOUS
  <2>1. CASE i = m
    BY <2>1, <1>4
  <2>2. CASE i # m
    <3>1. i \in 1 .. m - 1
      BY <2>2, <1>6
    <3>2. /\ fails[h] \in 0 .. Limit /\ fails[h] <= n
          /\ m - fails'[h] + 1 <= i
      BY <1>1, <1>6 DEF HostOK
    <3>3. /\ i \in Int /\ n + 1 - m + i <= n
          /\ n + 1 - m + i >= n - fails[h] + 1
      <4> HIDE DEF n
      <4>1. CASE fails[h] = Limit
        BY <4>1, <3>1, <3>2, <1>2, <1>5, <1>6, BreakerFacts
      <4>2. CASE fails[h] # Limit
        <5>1. fails'[h] = fails[h] + 1
          BY <4>2, <3>2, <1>2, BreakerFacts
        <5> QED
          BY <5>1, <3>1, <3>2, <1>5, <1>6, BreakerFacts
      <4> QED
        BY <4>1, <4>2
    <3>4. n + 1 - m + i \in n - fails[h] + 1 .. n
      BY <3>2, <3>3, <1>5, <1>6
    <3> HIDE DEF m, n
    <3> QED
      BY <3>1, <3>4, <1>1, <1>4 DEF HostOK, n
  <2> QED
    BY <2>1, <2>2
<1>8. fails'[h] < m => recent'[h][m - fails'[h]].ok
  <2> SUFFICES ASSUME fails'[h] < m PROVE recent'[h][m - fails'[h]].ok
    OBVIOUS
  <2>1. fails'[h] = fails[h] + 1 /\ m - fails'[h] \in 1 .. m - 1 /\ fails[h] < n
    BY <1>1, <1>2, <1>5, <1>6, BreakerFacts DEF HostOK
  <2>2. n + 1 - m + (m - fails'[h]) = n - fails[h]
    BY <2>1, <1>1, <1>5, <1>6 DEF HostOK
  <2> HIDE DEF m, n
  <2> QED
    BY <2>1, <2>2, <1>1, <1>4 DEF HostOK, n
<1>9. /\ fails'[h] < Limit => skipUntil'[h] = 0
      /\ fails'[h] = Limit => skipUntil'[h] = recent'[h][m].at + Cooldown
  BY <1>1, <1>2, <1>3, <1>4, BreakerFacts DEF HostOK
<1> HIDE DEF m
<1> QED
  BY <1>4, <1>6, <1>7, <1>8, <1>9 DEF HostOK

LEMMA BreakerInit == Init => BreakerInv
<1> SUFFICES ASSUME Init PROVE BreakerInv
  OBVIOUS
<1>1. /\ fails = [h \in Hosts |-> 0] /\ skipUntil = [h \in Hosts |-> 0]
      /\ recent = [h \in Hosts |-> <<>>] /\ clock \in {1, MaxClock}
  BY DEF Init, GatesInit
<1>2. \A h \in Hosts : fails[h] = 0 /\ skipUntil[h] = 0 /\ recent[h] = <<>>
  BY <1>1
<1>3. ASSUME NEW h \in Hosts PROVE HostOK(h)
  <2>1. fails[h] = 0 /\ skipUntil[h] = 0 /\ recent[h] = <<>> /\ Len(recent[h]) = 0
    BY <1>2
  <2>2. recent[h] \in Seq(Fetches)
    BY <2>1
  <2>3. 0 - 0 + 1 .. 0 = {}
    OBVIOUS
  <2> QED
    BY <2>1, <2>2, <2>3, BreakerFacts DEF HostOK
<1> QED
  BY <1>1, <1>3, BreakerFacts DEF BreakerInv

LEMMA BreakerFetch ==
  ASSUME BreakerInv, NEW t \in Threads, FetchBody(t) \/ ReadPage(t),
         ~UNCHANGED <<fails, skipUntil, recent>>
  PROVE  BreakerInv'
<1> DEFINE g == job[t].input.host
<1>1. PICK ok \in BOOLEAN :
        /\ Noted(g, ok) /\ UNCHANGED clock
        /\ IF ok THEN FetchWorks(g) ELSE FetchBreaks(g)
  BY DEF FetchBody, ReadPage
<1> HIDE DEF g
<1>2. /\ DOMAIN fails' = Hosts /\ DOMAIN skipUntil' = Hosts /\ DOMAIN recent' = Hosts
      /\ clock' \in Nat
  BY <1>1 DEF BreakerInv, Noted, FetchWorks, FetchBreaks
<1>3. ASSUME NEW h \in Hosts PROVE HostOK(h)'
  <2>1. CASE h = g
    BY <2>1, <1>1, HostWorks, HostBreaks
  <2>2. CASE h # g
    <3>1. fails'[h] = fails[h] /\ skipUntil'[h] = skipUntil[h] /\ recent'[h] = recent[h]
      BY <2>2, <1>1 DEF BreakerInv, Noted, FetchWorks, FetchBreaks
    <3>2. HostOK(h)
      BY DEF BreakerInv
    <3> QED
      BY <3>1, <3>2 DEF HostOK
  <2> QED
    BY <2>1, <2>2
<1> QED
  BY <1>2, <1>3 DEF BreakerInv

LEMMA BreakerStep == BreakerInv /\ [Next]_vars => BreakerInv'
<1> SUFFICES ASSUME BreakerInv, [Next]_vars PROVE BreakerInv'
  OBVIOUS
<1>1. CASE ~UNCHANGED <<fails, skipUntil, recent>> /\ \E t \in Threads : FetchBody(t) \/ ReadPage(t)
  BY <1>1, BreakerFetch
<1>2. CASE UNCHANGED <<fails, skipUntil, recent>> /\ clock' \in {clock, clock + 1}
  BY <1>2 DEF BreakerInv, HostOK
<1>3. ASSUME NEW t \in Threads, FetchBody(t) \/ ReadPage(t) PROVE clock' = clock
  BY <1>3 DEF FetchBody, ReadPage
<1> QED
  BY <1>1, <1>2, <1>3
  DEF Next, GatesStep, Tick, TakeRelease, vars, gateVars, breakerVars

\* A host is skipped exactly while it keeps failing and has not cooled down
\* (BreakerSound), for any number of hosts and of threads that fetch from them, in
\* whatever order their fetches come in (feeds.py:219-253).
THEOREM BreakerIsRight == Spec => []BreakerSound
BY BreakerInit, BreakerStep, BreakerIsSound, PTL DEF Spec

(***************************************************************************)
(* Whose an event is.                                                      *)
(***************************************************************************)

\* What the gates establish of a release before they let it through.
Theirs(j) ==
  LET n == NameOf(j.match.ticker)
  IN /\ NamesMatch(j.body.issuer, n) \/ NamesMatch(j.body.text.line, n) \/ Names(j.body.text, n)
     /\ ~j.input.teaser.firm /\ ~j.body.text.firm
     /\ ~CrossWireDup(j.match.ticker, Fingerprint(j.input, j.body.text))

\* Why EventIsTheirs holds, for one job: it is so from the end of the gates on.
GatedOK(j) ==
  /\ j.pc \in {"fetch", "page"} => ~j.input.teaser.firm
  /\ j.pc = "ask" /\ j.kind = "release" => Theirs(j)
  /\ j.pc = "done" /\ j.kind = "release" /\ j.out.mode = "llm" => Theirs(j)

GatedInv == JobShape /\ \A t \in Threads : GatedOK(job[t])

\* resolve_issuer: the company found is one that the issuer field or the dateline
\* names, unless it says that it is not verified.
LEMMA IssuerFound ==
  ASSUME NEW tickers, NEW issuer, NEW x,
         ResolveIssuer(tickers, issuer, x).kind # "none"
  PROVE  LET m == ResolveIssuer(tickers, issuer, x)
             n == NameOf(m.ticker)
         IN m.kind = "unverified" \/ NamesMatch(issuer, n) \/ NamesMatch(x.line, n)
<1> DEFINE known == {i \in 1 .. Len(tickers) : tickers[i] \in Indexed}
           Matching(n) == {i \in known : NamesMatch(n, NameOf(tickers[i]))}
           First(kind, S) == [kind |-> kind, ticker |-> tickers[Min(S)]]
           m == ResolveIssuer(tickers, issuer, x)
<1>1. \/ Matching(issuer) # {} /\ m = First("issuer_field", Matching(issuer))
      \/ Matching(x.line) # {} /\ m = First("dateline", Matching(x.line))
      \/ m = First("unverified", known)
  BY DEF ResolveIssuer
<1>2. ASSUME NEW n, Matching(n) # {}
      PROVE  NamesMatch(n, NameOf(tickers[Min(Matching(n))]))
  <2>1. Matching(n) \in SUBSET Nat
    OBVIOUS
  <2>2. Min(Matching(n)) \in Matching(n)
    BY <2>1, <1>2, MinOf
  <2> QED
    BY <2>2
<1> HIDE DEF Matching, known, m
<1> QED
  BY <1>1, <1>2 DEF m

\* Judged lets a release through to the model only with its own company's name.
LEMMA JudgedTheirs ==
  ASSUME NEW j, DOMAIN j = JobFields, ~j.input.teaser.firm, NEW b
  PROVE  GatedOK(Judged(j, b))
<1> DEFINE r == j.input
           tickers == Tickers(r, b.text)
           match == ResolveIssuer(tickers, b.issuer, b.text)
           next == [j EXCEPT !.body = b, !.match = match]
           n == Judged(j, b)
<1>1. \/ \E out \in {Drop, Raised} : n = Done(next, out)
      \/ /\ n = Ask(next)
         /\ ~b.text.firm /\ match.kind # "none" /\ ~Unnamed(r, b, match)
         /\ ~CrossWireDup(match.ticker, Fingerprint(r, b.text))
  BY DEF Judged
<1>2. match.kind = "unverified" \/ NamesMatch(b.issuer, NameOf(match.ticker))
        \/ NamesMatch(b.text.line, NameOf(match.ticker))
      \/ match.kind = "none"
  BY IssuerFound
<1> HIDE DEF match, tickers
<1>3. /\ DOMAIN next = JobFields /\ next.kind = j.kind /\ next.input = r
      /\ next.body = b /\ next.match = match
  BY DEF JobFields
<1> HIDE DEF next, n
<1>4. CASE \E out \in {Drop, Raised} : n = Done(next, out)
  <2>1. Drop.mode = "drop" /\ Raised.mode = "raised"
    BY DEF Drop, Raised
  <2>2. n.pc = "done" /\ n.out.mode # "llm"
    BY <1>3, <1>4, <2>1, DoneFacts
  <2> QED
    BY <2>2 DEF GatedOK, n
<1>5. CASE /\ n = Ask(next)
           /\ ~b.text.firm /\ match.kind # "none" /\ ~Unnamed(r, b, match)
           /\ ~CrossWireDup(match.ticker, Fingerprint(r, b.text))
  <2>1. /\ n.pc = "ask" /\ n.input = r /\ n.body = b /\ n.match = match
    BY <1>3, <1>5, AskFacts
  <2>2. \/ NamesMatch(b.issuer, NameOf(match.ticker))
        \/ NamesMatch(b.text.line, NameOf(match.ticker))
        \/ Names(b.text, NameOf(match.ticker))
    BY <1>2, <1>5 DEF Unnamed
  <2>3. Theirs(n)
    BY <2>1, <2>2, <1>5 DEF Theirs
  <2> QED
    BY <2>1, <2>3 DEF GatedOK, n
<1> QED
  BY <1>1, <1>4, <1>5

LEMMA GatedFrame ==
  ASSUME GatedInv, NEW t \in Threads, NEW n, DOMAIN n = JobFields, GatedOK(n),
         job' = [job EXCEPT ![t] = n]
  PROVE  GatedInv'
<1>1. JobShape' /\ job'[t] = n /\ \A u \in Threads : u # t => job'[u] = job[u]
  BY JobFrame DEF GatedInv
<1> QED
  BY <1>1 DEF GatedInv

LEMMA GatedStartFiling ==
  ASSUME GatedInv, NEW t \in Threads, NEW f \in Filings, StartFiling(t, f)
  PROVE  GatedInv'
<1>1. PICK read \in SUBSET Fetchable(f) :
        LET j == [Idle EXCEPT !.kind = "filing", !.input = f, !.chars = Substance(f, read)]
        IN job' = [job EXCEPT ![t] =
             IF j.chars < MinSource THEN Done(j, FactsOnly(f)) ELSE Ask(j)]
  BY DEF StartFiling
<1> DEFINE c == Substance(f, read)
           j == [Idle EXCEPT !.kind = "filing", !.input = f, !.chars = c]
           n == IF j.chars < MinSource THEN Done(j, FactsOnly(f)) ELSE Ask(j)
<1>2. job' = [job EXCEPT ![t] = n]
  BY <1>1
<1> HIDE DEF c
<1>3. DOMAIN j = JobFields /\ j.kind = "filing"
  BY IdleFacts DEF JobFields
<1> HIDE DEF j
<1>4. DOMAIN n = JobFields /\ n.kind = "filing" /\ n.pc \in {"ask", "done"}
  BY <1>3, DoneFacts, AskFacts
<1> HIDE DEF n
<1> QED
  BY <1>2, <1>4, GatedFrame DEF GatedOK

LEMMA GatedTakeRelease ==
  ASSUME GatedInv, NEW t \in Threads, NEW r \in Releases, TakeRelease(t, r)
  PROVE  GatedInv'
<1> DEFINE j == [Idle EXCEPT !.kind = "release", !.input = r]
           fetch == [j EXCEPT !.pc = "fetch"]
<1>1. \/ job' = [job EXCEPT ![t] = Done(j, Drop)]
      \/ ~Screened(r) /\ job' = [job EXCEPT ![t] = fetch]
      \/ ~Screened(r) /\ job' = [job EXCEPT ![t] = Judged(j, Teaser(r))]
  BY DEF TakeRelease
<1>2. DOMAIN j = JobFields /\ j.input = r
  BY IdleFacts DEF JobFields
<1> HIDE DEF j
<1>3. DOMAIN fetch = JobFields /\ fetch.pc = "fetch" /\ fetch.input = r
  BY <1>2 DEF JobFields
<1> HIDE DEF fetch
<1>4. ~Screened(r) => ~r.teaser.firm
  BY DEF Screened
<1>5. CASE job' = [job EXCEPT ![t] = Done(j, Drop)]
  <2>1. Drop.mode = "drop"
    BY DEF Drop
  <2>2. DOMAIN Done(j, Drop) = JobFields /\ GatedOK(Done(j, Drop))
    BY <1>2, <2>1, DoneFacts DEF GatedOK
  <2> QED
    BY <1>5, <2>2, GatedFrame
<1>6. CASE ~Screened(r) /\ job' = [job EXCEPT ![t] = fetch]
  BY <1>3, <1>4, <1>6, GatedFrame DEF GatedOK
<1>7. CASE ~Screened(r) /\ job' = [job EXCEPT ![t] = Judged(j, Teaser(r))]
  BY <1>2, <1>4, <1>7, JudgedFacts, JudgedTheirs, GatedFrame
<1> QED
  BY <1>1, <1>5, <1>6, <1>7

LEMMA GatedFetchBody ==
  ASSUME GatedInv, NEW t \in Threads, FetchBody(t) \/ ReadPage(t)
  PROVE  GatedInv'
<1> DEFINE page == [job[t] EXCEPT !.pc = "page"]
<1>1. \/ \E b : job' = [job EXCEPT ![t] = Judged(job[t], b)]
      \/ job' = [job EXCEPT ![t] = page]
  BY DEF FetchBody, ReadPage
<1>2. DOMAIN job[t] = JobFields /\ ~job[t].input.teaser.firm
  BY DEF GatedInv, GatedOK, JobShape, FetchBody, ReadPage
<1>3. DOMAIN page = JobFields /\ page.pc = "page" /\ page.input = job[t].input
  BY <1>2 DEF JobFields
<1> HIDE DEF page
<1>4. GatedOK(page)
  BY <1>2, <1>3 DEF GatedOK
<1> QED
  BY <1>1, <1>2, <1>3, <1>4, JudgedFacts, JudgedTheirs, GatedFrame

\* The chain keeps what the gates left.
LEMMA GatedModelStep ==
  ASSUME GatedInv, NEW t \in Threads, ModelStep(t)
  PROVE  GatedInv'
<1>1. /\ job[t].pc = "ask" /\ DOMAIN job[t] = JobFields
      /\ job[t].kind = "release" => Theirs(job[t])
  BY DEF ModelStep, RetryPlain, NextModel, Raises, Answers, Completing, GatedInv, GatedOK,
         JobShape
<1>2. \E n : /\ job' = [job EXCEPT ![t] = n] /\ DOMAIN n = JobFields
             /\ n.pc \in {"ask", "done"} /\ n.kind = job[t].kind
             /\ n.input = job[t].input /\ n.body = job[t].body /\ n.match = job[t].match
  <2>1. ASSUME NEW e
        PROVE  LET f == Failing(job[t], e)
               IN /\ DOMAIN f = JobFields /\ f.pc = job[t].pc /\ f.kind = job[t].kind
                  /\ f.input = job[t].input /\ f.body = job[t].body
                  /\ f.match = job[t].match
    BY <1>1 DEF Failing, JobFields
  <2>2. CASE RetryPlain(t)
    <3> DEFINE f == Failing(job[t], "rejected")
               n == [f EXCEPT !.plain = TRUE]
    <3>1. job' = [job EXCEPT ![t] = n]
      BY <2>2 DEF RetryPlain
    <3> HIDE DEF f
    <3>2. /\ DOMAIN n = JobFields /\ n.pc = f.pc /\ n.kind = f.kind
          /\ n.input = f.input /\ n.body = f.body /\ n.match = f.match
      BY <2>1 DEF JobFields, f
    <3> HIDE DEF n
    <3> QED
      BY <3>1, <3>2, <2>1, <1>1 DEF f
  <2>3. CASE \E e \in Faults : NextModel(t, e)
    <3> PICK e \in Faults : NextModel(t, e)
      BY <2>3
    <3> DEFINE f == Failing(job[t], e)
               n == [f EXCEPT !.pos = @ + 1, !.plain = FALSE]
    <3>1. job' = [job EXCEPT ![t] = n]
      BY DEF NextModel
    <3> HIDE DEF f
    <3>2. /\ DOMAIN n = JobFields /\ n.pc = f.pc /\ n.kind = f.kind
          /\ n.input = f.input /\ n.body = f.body /\ n.match = f.match
      BY <2>1 DEF JobFields, f
    <3> HIDE DEF n
    <3> QED
      BY <3>1, <3>2, <2>1, <1>1 DEF f
  <2>4. CASE \E e \in Faults : Raises(t, e)
    <3> PICK e \in Faults : Raises(t, e)
      BY <2>4
    <3> DEFINE f == Failing(job[t], e)
               out == IF f.kind = "filing" THEN FactsOnly(f.input) ELSE Raised
               n == Done(f, out)
    <3>1. job' = [job EXCEPT ![t] = n]
      BY DEF Raises
    <3> HIDE DEF f, out
    <3>2. /\ DOMAIN n = JobFields /\ n.pc = "done" /\ n.kind = f.kind
          /\ n.input = f.input /\ n.body = f.body /\ n.match = f.match
      BY <2>1, DoneFacts DEF f
    <3> HIDE DEF n
    <3> QED
      BY <3>1, <3>2, <2>1 DEF f
  <2>5. CASE \E r \in Replies : Answers(t, r)
    <3> PICK r \in Replies : Answers(t, r)
      BY <2>5
    <3> DEFINE j == [job[t] EXCEPT !.reply = <<r>>]
               out == IF j.kind = "filing" THEN FilingBriefed(j.input, r) ELSE ReleaseBriefed(r)
               n == Done(j, out)
    <3>1. job' = [job EXCEPT ![t] = n]
      BY DEF Answers
    <3>2. /\ DOMAIN j = JobFields /\ j.kind = job[t].kind
          /\ j.input = job[t].input /\ j.body = job[t].body /\ j.match = job[t].match
      BY <1>1 DEF JobFields
    <3> HIDE DEF j, out
    <3>3. /\ DOMAIN n = JobFields /\ n.pc = "done" /\ n.kind = j.kind
          /\ n.input = j.input /\ n.body = j.body /\ n.match = j.match
      BY <3>2, DoneFacts
    <3> HIDE DEF n
    <3> QED
      BY <3>1, <3>2, <3>3
  <2> QED
    BY <2>2, <2>3, <2>4, <2>5 DEF ModelStep
<1>3. PICK n : /\ job' = [job EXCEPT ![t] = n] /\ DOMAIN n = JobFields
               /\ n.pc \in {"ask", "done"} /\ n.kind = job[t].kind
               /\ n.input = job[t].input /\ n.body = job[t].body /\ n.match = job[t].match
  BY <1>2
<1>4. GatedOK(n)
  BY <1>1, <1>3 DEF GatedOK, Theirs
<1> QED
  BY <1>3, <1>4, GatedFrame

LEMMA GatedInit == Init => GatedInv
<1> SUFFICES ASSUME Init PROVE GatedInv
  OBVIOUS
<1>1. job = [t \in Threads |-> Idle]
  BY DEF Init, GatesInit, BriefingInit
<1>2. JobShape /\ \A t \in Threads : job[t] = Idle
  BY <1>1, IdleFacts DEF JobShape
<1>3. GatedOK(Idle)
  BY IdleFacts DEF GatedOK
<1> QED
  BY <1>2, <1>3 DEF GatedInv

LEMMA GatedStep == GatedInv /\ [Next]_vars => GatedInv'
<1> SUFFICES ASSUME GatedInv, [Next]_vars PROVE GatedInv'
  OBVIOUS
<1>1. CASE UNCHANGED job
  BY <1>1 DEF GatedInv, JobShape
<1>2. CASE \E t \in Threads : \/ \E f \in Filings : StartFiling(t, f)
                              \/ \E r \in Releases : TakeRelease(t, r)
                              \/ FetchBody(t) \/ ReadPage(t) \/ ModelStep(t)
  BY <1>2, GatedStartFiling, GatedTakeRelease, GatedFetchBody, GatedModelStep
<1> QED
  BY <1>1, <1>2 DEF Next, GatesStep, Tick, vars, gateVars, briefingVars

\* An event is its company's own (EventIsTheirs), whatever the releases say, the
\* pages they are fetched from and the models, for any number of threads
\* (pipeline.py:194-255, issuer.py:206-297).
THEOREM EventsAreTheirs == Spec => []EventIsTheirs
<1>1. GatedInv => EventIsTheirs
  BY DEF GatedInv, GatedOK, Theirs, EventIsTheirs
<1> QED
  BY GatedInit, GatedStep, <1>1, PTL DEF Spec

(***************************************************************************)
(* From a quote to the passage it shows.                                   *)
(***************************************************************************)

Doc == [url : BOOLEAN, words : Seq(Words), breaks : SUBSET Nat]
Places(q) == 1 .. Len(q) - Shingle + 1

LEMMA EvidenceFacts ==
  /\ Shingle \in Nat \ {0} /\ MinPercent \in Nat /\ MaxEvidence \in Nat
  /\ Docs \subseteq Seq(Doc)
  /\ Quotes \subseteq Seq(Seq(Words))
<1>1. Shingle \in Nat \ {0} /\ MinPercent \in Nat /\ MaxEvidence \in Nat
  BY EvidenceAssumption
<1>2. \A files \in Docs : files \in Seq(Doc)
  BY EvidenceAssumption, Zenon DEF Doc
<1>3. Quotes \subseteq Seq(Seq(Words))
  BY EvidenceAssumption, Zenon
<1> QED
  BY <1>1, <1>2, <1>3

LEMMA HitsFacts ==
  ASSUME NEW d, NEW q \in Seq(Words), Len(q) >= Shingle, NEW a
  PROVE  /\ Hits(d, q, a) \in SUBSET Places(q) /\ Places(q) \in SUBSET Nat
         /\ IsFiniteSet(Hits(d, q, a)) /\ IsFiniteSet(Places(q))
         /\ Len(q) - Shingle + 1 \in Nat \ {0}
         /\ Cardinality(Places(q)) = Len(q) - Shingle + 1
         /\ Cardinality(Hits(d, q, a)) \in Nat
         /\ Cardinality(Hits(d, q, a)) <= Len(q) - Shingle + 1
<1>1. Len(q) - Shingle + 1 \in Nat \ {0}
  BY EvidenceFacts
<1>2. Hits(d, q, a) \in SUBSET Places(q) /\ Places(q) \in SUBSET Nat
  BY DEF Hits, Places
<1>3. IsFiniteSet(Places(q)) /\ Cardinality(Places(q)) = Len(q) - Shingle + 1
  BY <1>1, FS_Interval DEF Places
<1>4. IsFiniteSet(Hits(d, q, a)) /\ Cardinality(Hits(d, q, a)) <= Cardinality(Places(q))
  BY <1>2, <1>3, FS_Subset
<1>5. Cardinality(Hits(d, q, a)) \in Nat
  BY <1>4, FS_CardinalityType
<1> QED
  BY <1>1, <1>2, <1>3, <1>4, <1>5

\* Among finitely many alignments one has the most hits and comes first.
LEMMA AlignmentFound ==
  ASSUME NEW d, d.words \in Seq(Words), NEW q \in Seq(Words), Len(q) >= Shingle,
         Alignments(d, q) # {}
  PROVE  Alignment(d, q) \in Alignments(d, q)
<1> DEFINE A == Alignments(d, q)
           C(a) == Cardinality(Hits(d, q, a))
           n == Len(q) - Shingle + 1
<1>1. \A a \in A : C(a) \in Nat /\ C(a) <= n
  BY HitsFacts
<1>2. n \in Nat
  BY HitsFacts
<1>3. \A a \in A : a \in Int /\ a + Len(q) \in Nat
  BY DEF Alignments
<1> HIDE DEF A, C, n
<1>4. PICK m \in {C(a) : a \in A} : \A a \in A : C(a) <= m
  <2> DEFINE Counts == {C(a) : a \in A}
  <2>1. Counts \in SUBSET Nat /\ Counts # {} /\ \A c \in Counts : c <= n
    BY <1>1 DEF A
  <2> HIDE DEF Counts
  <2>2. Max(Counts) \in Counts /\ \A c \in Counts : c <= Max(Counts)
    BY <2>1, <1>2, MaxOf
  <2> QED
    BY <2>2 DEF Counts
<1>5. PICK a \in A : C(a) = m /\ \A b \in A : C(b) = m => a <= b
  <2> DEFINE Shifted == {a + Len(q) : a \in {b \in A : C(b) = m}}
  <2>1. Shifted \in SUBSET Nat /\ Shifted # {}
    BY <1>3, <1>4
  <2>2. Min(Shifted) \in Shifted /\ \A y \in Shifted : Min(Shifted) <= y
    BY <2>1, MinOf
  <2>3. PICK a \in A : C(a) = m /\ Min(Shifted) = a + Len(q)
    BY <2>2
  <2>4. ASSUME NEW b \in A, C(b) = m PROVE a <= b
    <3>1. b + Len(q) \in Shifted
      BY <2>4
    <3>2. a + Len(q) <= b + Len(q)
      BY <3>1, <2>2, <2>3
    <3>3. a \in Int /\ b \in Int /\ Len(q) \in Nat
      BY <1>3
    <3> QED
      BY <3>2, <3>3
  <2> QED
    BY <2>3, <2>4
<1>6. \A b \in A \ {a} : C(a) > C(b) \/ (C(a) = C(b) /\ a < b)
  BY <1>1, <1>3, <1>4, <1>5
<1> QED
  BY <1>6 DEF Alignment, A, C

LEMMA LocatedFacts ==
  ASSUME NEW d, d.words \in Seq(Words), NEW q \in Seq(Words), Located(d, q)
  PROVE  LET a == Alignment(d, q)
             H == Hits(d, q, a)
         IN /\ Len(q) >= Shingle /\ a \in Int /\ H # {}
            /\ Coverage(d, q) \in Nat /\ Coverage(d, q) <= 100
            /\ 100 * Cardinality(H) >= MinPercent * (Len(q) - Shingle + 1)
<1> DEFINE a == Alignment(d, q)
           H == Hits(d, q, a)
           h == Cardinality(H)
           n == Len(q) - Shingle + 1
<1>1. Len(q) >= Shingle /\ a \in Alignments(d, q)
  BY AlignmentFound DEF Located
<1>2. a \in Int /\ H # {}
  BY <1>1 DEF Alignments
<1>3. h \in Nat /\ n \in Nat \ {0} /\ h <= n
  BY <1>1, HitsFacts
<1>4. Coverage(d, q) = (100 * h) \div n /\ (100 * h) \div n >= MinPercent
  BY DEF Located, Coverage
<1> HIDE DEF a, H, h, n
<1>5. (100 * h) \div n <= 100 /\ (100 * h) \div n \in Nat
  BY <1>3
<1>6. 100 * h >= MinPercent * n
  <2> DEFINE z == (100 * h) \div n
  <2>1. z * n <= 100 * h /\ z \in Nat /\ z >= MinPercent
    BY <1>3, <1>4
  <2> HIDE DEF z
  <2>2. MinPercent * n <= z * n
    BY <2>1, <1>3, EvidenceFacts
  <2>3. MinPercent * n \in Nat /\ z * n \in Nat /\ 100 * h \in Nat
    BY <2>1, <1>3, EvidenceFacts
  <2> QED
    BY <2>1, <2>2, <2>3
<1> QED
  <2>1. Coverage(d, q) \in Nat /\ Coverage(d, q) <= 100
    <3> DEFINE z == (100 * h) \div n
    <3>1. Coverage(d, q) = z /\ z \in Nat /\ z <= 100
      BY <1>4, <1>5
    <3> HIDE DEF z
    <3> QED
      BY <3>1
  <2> QED
    BY <2>1, <1>1, <1>2, <1>6 DEF a, H, h, n

\* The span reaches over every hit and not past the quote.
LEMMA SpanFacts ==
  ASSUME NEW d, d.words \in Seq(Words), NEW q \in Seq(Words), Located(d, q)
  PROVE  LET a == Alignment(d, q)
             lo == Span(d, q)[1]
             hi == Span(d, q)[2]
         IN /\ lo \in Nat \ {0} /\ hi \in Nat /\ lo <= hi /\ hi <= Len(d.words)
            /\ hi - lo + 1 <= Len(q)
            /\ \A h \in Hits(d, q, a) : lo <= a + h /\ a + h + Shingle - 1 <= hi
<1> DEFINE a == Alignment(d, q)
           H == Hits(d, q, a)
           Same(p) == p \in 1 .. Len(d.words) /\ p - a \in 1 .. Len(q) /\ d.words[p] = q[p - a]
           lo0 == a + Min(H)
           hi0 == a + Max(H) + Shingle - 1
           Lows == {l \in 1 .. lo0 : \A p \in l .. lo0 - 1 : Same(p)}
           Highs == {h \in hi0 .. Len(d.words) : \A p \in hi0 + 1 .. h : Same(p)}
<1>1. /\ a \in Int /\ H # {} /\ H \in SUBSET Nat
      /\ Len(q) - Shingle + 1 \in Nat /\ \A h \in H : h <= Len(q) - Shingle + 1
      /\ Len(d.words) \in Nat /\ Len(q) \in Nat /\ Shingle \in Nat \ {0}
  <2>1. Len(q) >= Shingle /\ a \in Int /\ H # {}
    BY LocatedFacts
  <2>2. H \in SUBSET Places(q) /\ Places(q) \in SUBSET Nat /\ Len(q) - Shingle + 1 \in Nat
    BY <2>1, HitsFacts
  <2>3. \A h \in H : h <= Len(q) - Shingle + 1
    BY <2>2 DEF Places
  <2> QED
    BY <2>1, <2>2, <2>3, EvidenceFacts
<1>2. \A h \in H : h >= 1 /\ a + h >= 1 /\ a + h <= Len(d.words) - Shingle + 1
  BY <1>1 DEF Hits
<1> HIDE DEF a, H
<1>3. Min(H) \in H /\ Max(H) \in H /\ \A h \in H : Min(H) <= h /\ h <= Max(H)
  BY <1>1, MinOf, MaxOf
<1>4. /\ lo0 \in Nat \ {0} /\ hi0 \in Nat /\ lo0 <= hi0 /\ hi0 <= Len(d.words)
      /\ lo0 - a >= 1 /\ hi0 - a <= Len(q)
      /\ \A h \in H : lo0 <= a + h /\ a + h + Shingle - 1 <= hi0
  <2> DEFINE m == Min(H)
             k == Max(H)
  <2>1. /\ m \in Nat /\ k \in Nat /\ m <= k /\ m >= 1 /\ a + m >= 1
        /\ k <= Len(q) - Shingle + 1 /\ a + k <= Len(d.words) - Shingle + 1
        /\ \A h \in H : m <= h /\ h <= k /\ h \in Nat
    BY <1>1, <1>2, <1>3
  <2>2. lo0 = a + m /\ hi0 = a + k + Shingle - 1
    OBVIOUS
  <2> HIDE DEF m, k, lo0, hi0
  <2> QED
    BY <2>1, <2>2, <1>1
<1> HIDE DEF lo0, hi0
<1>5. Lows \in SUBSET Nat /\ lo0 \in Lows
  BY <1>4
<1>6. Highs \in SUBSET Nat /\ hi0 \in Highs /\ \A h \in Highs : h <= Len(d.words)
  BY <1>1, <1>4
<1> DEFINE lo == Min(Lows)
           hi == Max(Highs)
<1>7. lo \in Lows /\ hi \in Highs
  <2> HIDE DEF Lows, Highs
  <2> QED
    BY <1>1, <1>5, <1>6, MinOf, MaxOf
<1>8. Span(d, q) = <<lo, hi>>
  BY DEF Span, a, H, lo0, hi0
<1> HIDE DEF lo, hi
<1>9. lo \in Nat \ {0} /\ lo <= lo0 /\ hi \in Nat /\ hi0 <= hi /\ hi <= Len(d.words)
  BY <1>4, <1>7
<1>10. lo - a >= 1
  <2>1. CASE lo = lo0
    BY <2>1, <1>4
  <2>2. CASE lo # lo0
    <3>1. Same(lo)
      BY <2>2, <1>4, <1>7, <1>9
    <3> QED
      BY <3>1, <1>1, <1>9
  <2> QED
    BY <2>1, <2>2
<1>11. hi - a <= Len(q)
  <2>1. CASE hi = hi0
    BY <2>1, <1>4
  <2>2. CASE hi # hi0
    <3>1. Same(hi)
      BY <2>2, <1>4, <1>7, <1>9
    <3> QED
      BY <3>1, <1>1, <1>9
  <2> QED
    BY <2>1, <2>2
<1>12. lo <= hi /\ hi - lo + 1 <= Len(q)
  BY <1>1, <1>4, <1>9, <1>10, <1>11
<1>13. \A h \in H : lo <= a + h /\ a + h + Shingle - 1 <= hi
  BY <1>1, <1>4, <1>9
<1>14. Span(d, q)[1] = lo /\ Span(d, q)[2] = hi
  BY <1>8
<1> QED
  BY <1>9, <1>12, <1>13, <1>14 DEF a, H

LEMMA BestDocFound ==
  ASSUME docs \in Seq(Doc), NEW q \in Seq(Words), BestDoc(q) # 0
  PROVE  /\ BestDoc(q) \in 1 .. Len(docs)
         /\ docs[BestDoc(q)].words \in Seq(Words)
         /\ Located(docs[BestDoc(q)], q)
<1> DEFINE found == {i \in SourceDocs : Located(docs[i], q)}
           Cov(i) == Coverage(docs[i], q)
           best == {i \in found : \A j \in found : Cov(j) <= Cov(i)}
<1>1. \A i \in 1 .. Len(docs) : docs[i].words \in Seq(Words)
  <2>1. \A x \in Doc : x.words \in Seq(Words)
    BY DEF Doc
  <2> QED
    BY <2>1
<1>2. found \in SUBSET (1 .. Len(docs)) /\ found \in SUBSET Nat
  BY DEF SourceDocs
<1>3. \A i \in found : Cov(i) \in Nat /\ Cov(i) <= 100
  BY <1>1, <1>2, LocatedFacts
<1>4. found # {} /\ BestDoc(q) = Min(best)
  BY DEF BestDoc
<1>5. \A i \in found : Located(docs[i], q)
  OBVIOUS
<1> HIDE DEF found, Cov
<1>6. best # {}
  <2> DEFINE covs == {Cov(i) : i \in found}
  <2>1. covs \in SUBSET Nat /\ covs # {} /\ \A c \in covs : c <= 100
    BY <1>3, <1>4
  <2> HIDE DEF covs
  <2>2. Max(covs) \in covs /\ \A c \in covs : c <= Max(covs)
    BY <2>1, MaxOf
  <2> QED
    BY <2>2 DEF covs
<1>7. best \in SUBSET Nat /\ best \subseteq found
  BY <1>2
<1> HIDE DEF best
<1>8. BestDoc(q) \in found
  BY <1>4, <1>6, <1>7, MinOf
<1> QED
  BY <1>1, <1>2, <1>5, <1>8

\* A shingle within a passage is one of the passage's.
LEMMA ShingleOfPassage ==
  ASSUME NEW w \in Seq(Words), NEW lo \in Nat \ {0}, NEW hi \in Nat, lo <= hi, hi <= Len(w),
         NEW p \in Int, lo <= p, p + Shingle - 1 <= hi
  PROVE  SubSeq(w, p, p + Shingle - 1) \in Shingles(SubSeq(w, lo, hi))
<1> DEFINE passage == SubSeq(w, lo, hi)
           k == p - lo + 1
           l == k + Shingle - 1
<1>1. Shingle \in Nat \ {0}
  BY EvidenceFacts
<1>2. passage \in Seq(Words) /\ Len(passage) = hi - lo + 1
  OBVIOUS
<1>3. k \in 1 .. Len(passage) - Shingle + 1 /\ lo + k - 1 = p
  BY <1>1, <1>2
<1>4. /\ k \in 1 .. hi - lo + 1 /\ l \in 1 .. hi - lo + 1
      /\ lo + l - 1 = p + Shingle - 1
  BY <1>1
<1>5. lo \in 1 .. Len(w) /\ hi \in 1 .. Len(w)
  OBVIOUS
<1> HIDE DEF k, l
<1>6. SubSeq(passage, k, l) = SubSeq(w, lo + k - 1, lo + l - 1)
  BY <1>4, <1>5, SubSeqOfSubSeq
<1>7. SubSeq(passage, k, l) \in Shingles(passage)
  BY <1>3 DEF Shingles, l
<1> QED
  BY <1>3, <1>4, <1>6, <1>7

\* The shingles that align are read in the passage.
LEMMA PassageSupports ==
  ASSUME NEW d, d.words \in Seq(Words), NEW q \in Seq(Words), Located(d, q),
         NEW lo, NEW hi, lo = Span(d, q)[1], hi = Span(d, q)[2]
  PROVE  LET passage == SubSeq(d.words, lo, hi)
             read == {i \in Places(q) : SubSeq(q, i, i + Shingle - 1) \in Shingles(passage)}
         IN /\ 100 * Cardinality(read) >= MinPercent * Cardinality(Places(q))
            /\ Len(passage) <= Len(q)
<1> DEFINE a == Alignment(d, q)
           H == Hits(d, q, a)
           passage == SubSeq(d.words, lo, hi)
           read == {i \in Places(q) : SubSeq(q, i, i + Shingle - 1) \in Shingles(passage)}
<1>1. /\ lo \in Nat \ {0} /\ hi \in Nat /\ lo <= hi /\ hi <= Len(d.words)
      /\ hi - lo + 1 <= Len(q)
      /\ \A h \in H : lo <= a + h /\ a + h + Shingle - 1 <= hi
  BY SpanFacts
<1>2. Len(q) >= Shingle /\ a \in Int /\ Shingle \in Nat \ {0}
  BY LocatedFacts, EvidenceFacts
<1>3. passage \in Seq(Words) /\ Len(passage) = hi - lo + 1
  BY <1>1
<1>4. ASSUME NEW i \in H PROVE SubSeq(q, i, i + Shingle - 1) \in Shingles(passage)
  <2> DEFINE s == SubSeq(q, i, i + Shingle - 1)
             w == SubSeq(d.words, a + i, a + i + Shingle - 1)
  <2>1. /\ i \in 1 .. Len(q) - Shingle + 1 /\ a + i \in 1 .. Len(d.words) - Shingle + 1
        /\ \A l \in 0 .. Shingle - 1 : d.words[a + i + l] = q[i + l]
    BY DEF Hits
  <2>2. i \in Int /\ lo <= a + i /\ a + i + Shingle - 1 <= hi
    BY <1>1, <2>1
  <2> HIDE DEF a, H
  <2>3. s = w
    <3>1. /\ s \in Seq(Words) /\ Len(s) = Shingle
          /\ \A l \in 1 .. Shingle : s[l] = q[i + l - 1]
      BY <1>2, <2>1
    <3>2. /\ w \in Seq(Words) /\ Len(w) = Shingle
          /\ \A l \in 1 .. Shingle : w[l] = d.words[a + i + l - 1]
      BY <1>2, <2>1
    <3>3. ASSUME NEW l \in 1 .. Shingle PROVE s[l] = w[l]
      <4>1. l - 1 \in 0 .. Shingle - 1 /\ a + i + (l - 1) = a + i + l - 1 /\ i + (l - 1) = i + l - 1
        BY <1>2, <2>1
      <4> QED
        BY <4>1, <2>1, <3>1, <3>2
    <3> HIDE DEF s, w
    <3> QED
      BY <3>1, <3>2, <3>3, SeqEqual
  <2>4. w \in Shingles(passage)
    <3> DEFINE p == a + i
    <3>1. p \in Int /\ lo <= p /\ p + Shingle - 1 <= hi
      BY <1>2, <2>2
    <3> HIDE DEF p
    <3>2. SubSeq(d.words, p, p + Shingle - 1) \in Shingles(SubSeq(d.words, lo, hi))
      BY <1>1, <3>1, ShingleOfPassage
    <3> QED
      BY <3>2 DEF p
  <2> QED
    BY <2>3, <2>4
<1>5. H \subseteq read /\ IsFiniteSet(read) /\ Cardinality(H) <= Cardinality(read)
  <2>1. H \subseteq read
    BY <1>2, <1>4, HitsFacts
  <2>2. IsFiniteSet(read)
    BY <1>2, HitsFacts, FS_Subset
  <2> HIDE DEF H, read
  <2> QED
    BY <2>1, <2>2, FS_Subset
<1>6. Cardinality(H) \in Nat /\ Cardinality(read) \in Nat
  BY <1>2, <1>5, HitsFacts, FS_CardinalityType
<1>7. Cardinality(Places(q)) = Len(q) - Shingle + 1 /\ Len(q) - Shingle + 1 \in Nat
  BY <1>2, HitsFacts
<1> HIDE DEF read, H
<1>8. 100 * Cardinality(read) >= MinPercent * Cardinality(Places(q))
  <2>1. MinPercent * (Len(q) - Shingle + 1) \in Nat
    BY <1>7, EvidenceFacts
  <2>2. 100 * Cardinality(H) >= MinPercent * (Len(q) - Shingle + 1)
    BY LocatedFacts DEF H
  <2> QED
    BY <2>1, <2>2, <1>5, <1>6, <1>7
<1> QED
  BY <1>1, <1>3, <1>8 DEF read

\* A link that is given leads to words that read as the passage: the first
\* candidate that does is taken.
LEMMA LinkLeads ==
  ASSUME NEW d, NEW lo, NEW hi, Link(d, lo, hi) # NoLink
  PROVE  /\ Highlight(d, Link(d, lo, hi)) # <<>>
         /\ Reads(d, Link(d, lo, hi)) = Text(d, lo, hi)
<1> DEFINE c == Candidates(d, lo, hi)
           Lands(l) == Highlight(d, l) # <<>> /\ Reads(d, l) = Text(d, lo, hi)
           lands == {i \in 1 .. Len(c) : Size(c[i]) <= MaxDirective /\ Lands(c[i])}
<1>1. lands # {} /\ Link(d, lo, hi) = c[Min(lands)]
  BY DEF Link
<1>2. lands \in SUBSET Nat /\ \A i \in lands : Lands(c[i])
  OBVIOUS
<1> HIDE DEF c, lands, Lands
<1>3. Lands(Link(d, lo, hi))
  BY <1>1, <1>2, MinOf
<1> QED
  BY <1>3 DEF Lands

Shown == [quote : Seq(Words), doc : Nat, lo : Nat, hi : Nat,
          link : {Link(d, lo, hi) : d \in Doc, lo \in Nat, hi \in Nat}]

\* Why EvidenceIsProof holds: what was resolved so far is proof.
EvidenceInv ==
  /\ docs \in Seq(Doc) /\ cited \in Seq(Seq(Words)) /\ evidence \in Seq(Shown)
  /\ EvidenceIsProof

LEMMA EvidenceStarts == Init => EvidenceInv
<1> SUFFICES ASSUME Init PROVE EvidenceInv
  OBVIOUS
<1>1. evidence = <<>>
  BY DEF Init, EvidenceInit, NoEvidence
<1>2. docs \in Seq(Doc)
  <2>1. docs = <<>> \/ docs \in Docs
    BY DEF Init, EvidenceInit, NoEvidence
  <2>2. <<>> \in Seq(Doc)
    OBVIOUS
  <2> QED
    BY <2>1, <2>2, EvidenceFacts, Zenon
<1>3. cited \in Seq(Seq(Words))
  <2>1. CASE cited = <<>>
    BY <2>1
  <2>2. ASSUME NEW raw \in Quotes, cited = CitedQuotes(raw) PROVE cited \in Seq(Seq(Words))
    <3>1. raw \in Seq(Seq(Words)) /\ Len(raw) \in Nat /\ 2 * MaxEvidence \in Nat
      BY EvidenceFacts
    <3> DEFINE k == Min({2 * MaxEvidence, Len(raw)})
    <3>2. k \in Nat /\ k <= Len(raw)
      BY <3>1, MinOfTwo
    <3> HIDE DEF k
    <3>3. SubSeq(raw, 1, k) \in Seq(Seq(Words))
      BY <3>1, <3>2
    <3> QED
      BY <2>2, <3>3 DEF CitedQuotes, k
  <2> QED
    BY <2>1, <2>2 DEF Init, EvidenceInit, NoEvidence
<1>4. evidence \in Seq(Shown) /\ Len(evidence) = 0
  BY <1>1
<1>5. EvidenceIsProof
  BY <1>4, EvidenceFacts DEF EvidenceIsProof
<1> QED
  BY <1>2, <1>3, <1>4, <1>5 DEF EvidenceInv

\* One more entry of its own passage leaves all of them proof.
LEMMA ProofGrows ==
  ASSUME EvidenceInv, UNCHANGED docs, Len(evidence) < MaxEvidence,
         NEW e \in Shown, evidence' = Append(evidence, e),
         Supported(docs[e.doc], e), LinkLands(docs[e.doc], e), ~Claimed(e.doc, <<e.lo, e.hi>>)
  PROVE  EvidenceIsProof' /\ evidence' \in Seq(Shown)
<1> DEFINE n == Len(evidence)
<1>1. /\ n \in Nat /\ evidence' \in Seq(Shown) /\ Len(evidence') = n + 1
      /\ evidence'[n + 1] = e /\ \A i \in 1 .. n : evidence'[i] = evidence[i]
  BY DEF EvidenceInv
<1>2. \A i \in 1 .. n : evidence[i] \in Shown
  BY DEF EvidenceInv
<1> DEFINE Proves(x) == Supported(docs[x.doc], x) /\ LinkLands(docs[x.doc], x)
<1>3. \A i \in 1 .. n : Proves(evidence[i])
  BY DEF EvidenceInv, EvidenceIsProof
<1>4. \A i, j \in 1 .. n : i < j => Apart(evidence[i], evidence[j])
  BY DEF EvidenceInv, EvidenceIsProof
<1>5. \A i \in 1 .. n : Apart(evidence[i], e)
  <2> SUFFICES ASSUME NEW i \in 1 .. n PROVE Apart(evidence[i], e)
    OBVIOUS
  <2>1. evidence[i] \in Shown
    BY <1>2
  <2>2. evidence[i].lo \in Nat /\ evidence[i].hi \in Nat /\ e.lo \in Nat /\ e.hi \in Nat
    BY <2>1 DEF Shown
  <2>3. ~(evidence[i].doc = e.doc /\ e.lo <= evidence[i].hi /\ evidence[i].lo <= e.hi)
    BY DEF Claimed
  <2> QED
    BY <2>2, <2>3 DEF Apart
<1> HIDE DEF n
<1>6. Proves(e)
  OBVIOUS
<1> HIDE DEF Proves
<1>7. \A i \in 1 .. n + 1 : Proves(evidence'[i])
  <2> SUFFICES ASSUME NEW i \in 1 .. n + 1 PROVE Proves(evidence'[i])
    OBVIOUS
  <2>1. CASE i = n + 1
    BY <2>1, <1>1, <1>6
  <2>2. CASE i # n + 1
    <3>1. i \in 1 .. n
      BY <2>2, <1>1
    <3> QED
      BY <3>1, <1>1, <1>3
  <2> QED
    BY <2>1, <2>2
<1>8. \A i, j \in 1 .. n + 1 : i < j => Apart(evidence'[i], evidence'[j])
  <2> SUFFICES ASSUME NEW i \in 1 .. n + 1, NEW j \in 1 .. n + 1, i < j
      PROVE  Apart(evidence'[i], evidence'[j])
    OBVIOUS
  <2>1. i \in 1 .. n /\ (j = n + 1 \/ j \in 1 .. n)
    BY <1>1
  <2> QED
    BY <2>1, <1>1, <1>4, <1>5
<1>9. n + 1 <= MaxEvidence
  BY <1>1, EvidenceFacts DEF n
<1> QED
  BY <1>1, <1>7, <1>8, <1>9 DEF EvidenceIsProof, Proves

LEMMA EvidenceResolve ==
  ASSUME EvidenceInv, ResolveQuote
  PROVE  EvidenceInv'
<1> DEFINE q == Head(cited)
           i == BestDoc(q)
           d == docs[i]
           span == Span(d, q)
           e == [quote |-> q, doc |-> i, lo |-> span[1], hi |-> span[2],
                 link |-> Link(d, span[1], span[2])]
<1>1. docs' = docs /\ docs' \in Seq(Doc) /\ cited' \in Seq(Seq(Words)) /\ q \in Seq(Words)
  BY DEF ResolveQuote, EvidenceInv
<1>2. \/ UNCHANGED evidence
      \/ /\ Len(evidence) < MaxEvidence /\ i # 0 /\ ~Claimed(i, span)
         /\ evidence' = Append(evidence, e)
  <2>1. Len(evidence) \in Nat
    BY DEF EvidenceInv
  <2> QED
    BY <2>1, EvidenceFacts DEF ResolveQuote
<1>3. CASE UNCHANGED evidence
  BY <1>1, <1>3 DEF EvidenceInv, EvidenceIsProof, Apart
<1>4. CASE /\ Len(evidence) < MaxEvidence /\ i # 0 /\ ~Claimed(i, span)
           /\ evidence' = Append(evidence, e)
  <2>1. i \in 1 .. Len(docs) /\ d.words \in Seq(Words) /\ Located(d, q)
    BY <1>1, <1>4, BestDocFound DEF EvidenceInv
  <2>2. span[1] \in Nat /\ span[2] \in Nat
    BY <1>1, <2>1, SpanFacts
  <2>3. Supported(d, e)
    <3>1. e.quote = q /\ e.lo = span[1] /\ e.hi = span[2]
      OBVIOUS
    <3> HIDE DEF q, e, d
    <3> QED
      BY <1>1, <2>1, <3>1, PassageSupports DEF Supported, Places
  <2>4. LinkLands(d, e)
    BY LinkLeads DEF LinkLands
  <2>5. i \in Nat
    BY <2>1
  <2>6. e \in Shown
    <3>1. d \in Doc
      BY <2>1 DEF EvidenceInv
    <3> HIDE DEF q, i, d, span
    <3> QED
      BY <1>1, <2>2, <2>5, <3>1 DEF Shown
  <2>7. ~Claimed(e.doc, <<e.lo, e.hi>>)
    BY <1>4 DEF Claimed
  <2>8. EvidenceIsProof' /\ evidence' \in Seq(Shown)
    <3> HIDE DEF e
    <3> QED
      BY <1>1, <1>4, <2>3, <2>4, <2>6, <2>7, ProofGrows DEF e
  <2> QED
    BY <1>1, <2>8 DEF EvidenceInv
<1> QED
  BY <1>2, <1>3, <1>4

LEMMA EvidenceStep == EvidenceInv /\ [Next]_vars => EvidenceInv'
<1> SUFFICES ASSUME EvidenceInv, [Next]_vars PROVE EvidenceInv'
  OBVIOUS
<1>1. CASE ResolveQuote
  BY <1>1, EvidenceResolve
<1>2. CASE EvidenceFails
  BY <1>2, EvidenceFacts
  DEF EvidenceFails, EvidenceInv, EvidenceIsProof
<1>3. CASE UNCHANGED evidenceVars
  BY <1>3
  DEF evidenceVars, EvidenceInv, EvidenceIsProof, Apart
<1> QED
  BY <1>1, <1>2, <1>3 DEF Next, vars

\* Evidence is proof (EvidenceIsProof): whatever the documents read, the model cites
\* and the thresholds are, an entry is a passage that enough of its quote supports,
\* its link leads to those words and no passage is shown twice (evidence.py:165-300).
THEOREM EvidenceProves == Spec => []EvidenceIsProof
<1>1. EvidenceInv => EvidenceIsProof
  BY DEF EvidenceInv
<1> QED
  BY EvidenceStarts, EvidenceStep, <1>1, PTL DEF Spec
=============================================================================
