----------------------------- MODULE FmpPipeline ----------------------------
(***************************************************************************)
(* The FMP press-release loop of the ingest service                        *)
(* (services/ingest/press_release/pipeline.py, fmp_poll_loop): one poller  *)
(* and Workers coroutines on one event loop, process_release in executor   *)
(* threads, the seen file with its Redis mirror and the fingerprint file.  *)
(* Clocks are countdowns and ages that saturate at the last value the code *)
(* compares them with, so the model needs no bound on time.                *)
(***************************************************************************)
EXTENDS Naturals, Sequences, FiniteSets, SequencesExt

CONSTANTS
  Releases,        \* what FMP lists, by url
  Foreign,         \* those of a wire that is not ingested
  SameText,        \* <<r, s>>: s is the same release on another wire
  Workers,
  NoRelease,
  MaxAge,          \* PR_MAX_AGE_MINUTES
  MaxLate,         \* PR_MAX_LATE_MINUTES
  MaxAttempts,     \* _MAX_LLM_ATTEMPTS
  Pause,           \* _RATE_LIMIT_PAUSE_SECONDS
  RetryDelay,      \* [1 .. MaxAttempts - 1 -> Nat], 30 seconds * n
  MaxFaults        \* bound: failed saves and publishes, kills and deploys

FmpAssumption ==
  /\ IsFiniteSet(Releases)
  /\ Foreign \subseteq Releases
  /\ \A r, s \in Releases : <<r, s>> \in SameText => <<s, r>> \in SameText
  /\ NoRelease \notin Releases
  /\ MaxAge \in Nat /\ MaxLate \in Nat /\ MaxAge <= MaxLate
  /\ MaxAttempts \in Nat \ {0}
  /\ Pause \in Nat
  /\ RetryDelay \in [1 .. MaxAttempts - 1 -> Nat]

ASSUME FmpAssumption

VARIABLES
  listing,         \* "ahead", "listed" or "off": FMP's list of latest releases
  age,             \* since publishedDate, up to TooOld; 0 once it is taken up
  seen, dirty,     \* the seen set in memory, and whether it differs from disk
  disk, mirror,    \* pr_seen.json and its Redis mirror
  fps, fpsDisk,    \* fingerprints in memory and in pr_fingerprints.json
  queue, inFlight,
  attempts,        \* failures other than rate limits, per release
  retryIn,         \* until retry_at
  held,            \* since first_seen, up to TooOld; NotHeld before
  baselined,       \* the first poll of this process is done
  pausedIn,        \* until paused_until
  pc, job, waitIn, \* each worker's place, its release, what is left of its sleep
  published,       \* filing:new messages sent, per release
  torn,            \* releases whose publication some store failed to record
  missed,          \* releases whose fingerprint came too late or was lost
  faults

outside == <<listing, age>>
memory == <<seen, dirty, fps, attempts, held, baselined>>
files == <<disk, mirror, fpsDisk>>
work == <<queue, inFlight, retryIn, pausedIn>>
workers == <<pc, job, waitIn>>
history == <<published, torn, missed, faults>>
vars == <<outside, memory, files, work, workers, history>>

TooOld == MaxLate + 1
NotHeld == TooOld + 1

\* The event loop runs one coroutine at a time: nothing else of the loop runs
\* between a publication and the saves that follow it.
LoopIsFree == \A w \in Workers : pc[w] \notin {"save", "saveFps"}

Init ==
  /\ listing = [r \in Releases |-> "ahead"]
  /\ age = [r \in Releases |-> 0]
  /\ seen = {} /\ disk = {} /\ mirror = {}
  /\ fps = {} /\ fpsDisk = {}
  /\ published = [r \in Releases |-> 0]
  /\ torn = {} /\ missed = {}
  /\ faults = 0
  /\ dirty = FALSE
  /\ queue = <<>>
  /\ inFlight = {}
  /\ attempts = [r \in Releases |-> 0]
  /\ retryIn = [r \in Releases |-> 0]
  /\ held = [r \in Releases |-> NotHeld]
  /\ baselined = FALSE
  /\ pausedIn = 0
  /\ pc = [w \in Workers |-> "idle"]
  /\ job = [w \in Workers |-> NoRelease]
  /\ waitIn = [w \in Workers |-> 0]

-----------------------------------------------------------------------------
(* Surroundings: FMP's list of the newest releases, and time.              *)

\* How old a release may be when FMP lists it; of a foreign row nobody asks.
Ages(r) == IF r \in Foreign THEN {0} ELSE 0 .. TooOld

List(r) ==
  /\ listing[r] = "ahead"
  /\ listing' = [listing EXCEPT ![r] = "listed"]
  /\ \E a \in Ages(r) : age' = [age EXCEPT ![r] = a]
  /\ UNCHANGED <<memory, files, work, workers, history>>

\* Newer releases push it off the page FMP returns.
Unlist(r) ==
  /\ listing[r] = "listed"
  /\ listing' = [listing EXCEPT ![r] = "off"]
  /\ age' = [age EXCEPT ![r] = 0]
  /\ UNCHANGED <<memory, files, work, workers, history>>

Later(n) == IF n < TooOld THEN n + 1 ELSE n
Sooner(n) == IF n > 0 THEN n - 1 ELSE 0

Elapse ==
  /\ age' = [r \in Releases |->
               IF listing[r] = "listed" /\ r \notin Foreign \cup seen
                  /\ held[r] = NotHeld
               THEN Later(age[r]) ELSE age[r]]
  /\ held' = [r \in Releases |-> Later(held[r])]
  /\ retryIn' = [r \in Releases |-> Sooner(retryIn[r])]
  /\ pausedIn' = Sooner(pausedIn)
  /\ waitIn' = [w \in Workers |-> Sooner(waitIn[w])]
  /\ UNCHANGED <<listing, seen, dirty, fps, attempts, baselined, files, queue,
                 inFlight, pc, job, history>>

-----------------------------------------------------------------------------
(* The poller.                                                             *)

\* save_seen: the file is replaced at once, the mirror is best effort.
SaveSeen(known) ==
  /\ disk' = known
  /\ \/ /\ mirror' = mirror \cup known
        /\ UNCHANGED <<torn, faults>>
     \/ /\ faults < MaxFaults
        /\ faults' = faults + 1
        /\ torn' = torn \cup (known \ mirror)
        /\ UNCHANGED mirror

\* Mutant: what is in flight is not looked at.
DueMutant == {r \in Releases \ Foreign :
                listing[r] = "listed" /\ r \notin seen /\ retryIn[r] = 0}

\* What this poll takes a first or another look at, and what it finds too old.
Due == {r \in Releases \ Foreign :
          listing[r] = "listed" /\ r \notin seen \cup inFlight /\ retryIn[r] = 0}
Stale == {r \in Due : held[r] = NotHeld
                      /\ age[r] > (IF baselined THEN MaxLate ELSE MaxAge)}
OtherWire == {r \in Foreign : listing[r] = "listed"}

Poll ==
  LET fresh == Due \ Stale
      settled == (Stale \cup OtherWire) \ seen
      known == seen \cup settled
      changed == dirty \/ settled # {}
      flush == changed /\ inFlight \cup fresh = {}
  IN /\ LoopIsFree
     /\ seen' = known
     /\ age' = [r \in Releases |-> IF r \in fresh \cup settled THEN 0 ELSE age[r]]
     /\ held' = [r \in Releases |->
                   IF r \in settled THEN NotHeld
                   ELSE IF r \in fresh /\ held[r] = NotHeld THEN 0 ELSE held[r]]
     /\ inFlight' = inFlight \cup fresh
     /\ \E order \in SetToSeqs(fresh) : queue' = queue \o order
     /\ baselined' = TRUE
     /\ dirty' = (changed /\ ~flush)
     /\ IF flush THEN SaveSeen(known) ELSE UNCHANGED <<disk, mirror, torn, faults>>
     /\ UNCHANGED <<listing, fps, attempts, fpsDisk, retryIn, pausedIn, workers,
                    published, missed>>

-----------------------------------------------------------------------------
(* The workers.                                                            *)

Goto(w, from, to) ==
  /\ LoopIsFree
  /\ pc[w] = from
  /\ pc' = [pc EXCEPT ![w] = to]

\* The pause is read once, before the sleep.
Take(w) ==
  /\ queue # <<>>
  /\ Goto(w, "idle", IF pausedIn > 0 THEN "waiting" ELSE "gates")
  /\ job' = [job EXCEPT ![w] = Head(queue)]
  /\ waitIn' = [waitIn EXCEPT ![w] = pausedIn]
  /\ queue' = Tail(queue)
  /\ UNCHANGED <<outside, memory, files, inFlight, retryIn, pausedIn, history>>

Wake(w) ==
  /\ waitIn[w] = 0
  /\ Goto(w, "waiting", "gates")
  /\ UNCHANGED <<outside, memory, files, work, job, waitIn, history>>

\* Mutant: the poller is not told that there is something to save.
MarkSeenDirtyMutant(r) ==
  /\ seen' = seen \cup {r}
  /\ held' = [held EXCEPT ![r] = NotHeld]
  /\ UNCHANGED dirty

MarkSeen(r) ==
  /\ seen' = seen \cup {r}
  /\ held' = [held EXCEPT ![r] = NotHeld]
  /\ dirty' = TRUE

\* The worker's `finally`, and back to the queue.
Release(w) ==
  /\ pc' = [pc EXCEPT ![w] = "idle"]
  /\ job' = [job EXCEPT ![w] = NoRelease]
  /\ inFlight' = inFlight \ {job[w]}
  /\ UNCHANGED <<outside, fps, baselined, files, queue, waitIn, history>>

\* process_release returned None.
Drop(w) ==
  /\ MarkSeen(job[w])
  /\ attempts' = [attempts EXCEPT ![job[w]] = 0]
  /\ UNCHANGED <<retryIn, pausedIn>>
  /\ Release(w)

\* Mutant: the failures are not counted.
FailedMutant(w) ==
  /\ retryIn' = [retryIn EXCEPT ![job[w]] = RetryDelay[1]]
  /\ UNCHANGED <<seen, held, dirty, attempts, pausedIn>>
  /\ Release(w)

\* It raised: ArticleUnavailable, or the LLM failed.
Failed(w) ==
  LET n == attempts[job[w]] + 1
  IN /\ \/ /\ n >= MaxAttempts
           /\ MarkSeen(job[w])
           /\ attempts' = [attempts EXCEPT ![job[w]] = 0]
           /\ UNCHANGED retryIn
        \/ /\ n < MaxAttempts
           /\ attempts' = [attempts EXCEPT ![job[w]] = n]
           /\ retryIn' = [retryIn EXCEPT ![job[w]] = RetryDelay[n]]
           /\ UNCHANGED <<seen, held, dirty>>
     /\ UNCHANGED pausedIn
     /\ Release(w)

\* It raised a rate limit: every worker is to pause, the release waits.
RateLimited(w) ==
  /\ pausedIn' = Pause
  /\ \/ /\ held[job[w]] > MaxLate
        /\ MarkSeen(job[w])
        /\ UNCHANGED retryIn
     \/ /\ held[job[w]] <= MaxLate
        /\ retryIn' = [retryIn EXCEPT ![job[w]] = Pause]
        /\ UNCHANGED <<seen, held, dirty>>
  /\ UNCHANGED attempts
  /\ Release(w)

Copy(r, s) == r = s \/ <<r, s>> \in SameText
KnownCopy(r) == \E s \in fps : Copy(r, s)

\* Mutant: no cross-wire check.
GatesMutant(w) ==
  /\ LoopIsFree
  /\ pc[w] = "gates"
  /\ \/ Drop(w)
     \/ Failed(w)
     \/ /\ Goto(w, "gates", "llm")
        /\ UNCHANGED <<outside, memory, files, work, job, waitIn, history>>

\* process_release up to the LLM call, in an executor thread: a gate or the
\* cross-wire check drops it, the article does not load, or it goes on.  Its
\* outcome is taken up when the loop is free; nothing it reads changes before.
Gates(w) ==
  /\ LoopIsFree
  /\ pc[w] = "gates"
  /\ \/ Drop(w)
     \/ Failed(w)
     \/ /\ ~KnownCopy(job[w])
        /\ Goto(w, "gates", "llm")
        /\ UNCHANGED <<outside, memory, files, work, job, waitIn, history>>

\* The others past the gates with a copy of it have missed this fingerprint.
TooLate(w) ==
  {job[v] : v \in {u \in Workers \ {w} : pc[u] = "llm" /\ Copy(job[u], job[w])}}

\* The release is marked and published, or Redis is down and it is not.
Publish(w) ==
  /\ MarkSeen(job[w])
  /\ attempts' = [attempts EXCEPT ![job[w]] = 0]
  /\ inFlight' = inFlight \ {job[w]}
  /\ fps' = fps \cup {job[w]}
  /\ missed' = missed \cup TooLate(w)
  /\ \/ /\ published' = [published EXCEPT ![job[w]] = @ + 1]
        /\ UNCHANGED faults
     \/ /\ faults < MaxFaults
        /\ faults' = faults + 1
        /\ UNCHANGED published
  /\ Goto(w, "llm", "save")
  /\ UNCHANGED <<outside, baselined, files, queue, retryIn, pausedIn, job,
                 waitIn, torn>>

\* classify_release returns, in the same thread.
Classify(w) ==
  /\ LoopIsFree
  /\ pc[w] = "llm"
  /\ Publish(w) \/ Drop(w) \/ Failed(w) \/ RateLimited(w)

\* Mutant: the seen set waits for the poller.
SaveMutant(w) ==
  /\ pc[w] = "save"
  /\ pc' = [pc EXCEPT ![w] = "saveFps"]
  /\ UNCHANGED <<outside, memory, disk, mirror, fpsDisk, work, job, waitIn,
                 published, torn, missed, faults>>

Save(w) ==
  /\ pc[w] = "save"
  /\ pc' = [pc EXCEPT ![w] = "saveFps"]
  /\ SaveSeen(seen)
  /\ UNCHANGED <<outside, memory, fpsDisk, work, job, waitIn, published, missed>>

SaveFps(w) ==
  /\ pc[w] = "saveFps"
  /\ pc' = [pc EXCEPT ![w] = "idle"]
  /\ job' = [job EXCEPT ![w] = NoRelease]
  /\ fpsDisk' = fps
  /\ dirty' = FALSE
  /\ UNCHANGED <<outside, seen, fps, attempts, held, baselined, disk, mirror,
                 work, waitIn, history>>

\* The saves are outside the worker's try: its task ends there.
SaveFails(w) ==
  /\ faults < MaxFaults
  /\ faults' = faults + 1
  /\ pc[w] \in {"save", "saveFps"}
  /\ pc' = [pc EXCEPT ![w] = "dead"]
  /\ job' = [job EXCEPT ![w] = NoRelease]
  /\ torn' = IF pc[w] = "save" THEN torn \cup {job[w]} ELSE torn
  /\ missed' = missed \cup (fps \ fpsDisk)
  /\ UNCHANGED <<outside, memory, files, work, waitIn, published>>

-----------------------------------------------------------------------------
(* The process ends and another starts.                                    *)

\* Killed, or the poller raised and _supervise restarts it; a deploy wipes the
\* disk; Redis may be down when the seen set is loaded.
Restart ==
  /\ faults < MaxFaults
  /\ faults' = faults + 1
  /\ \E wiped, up \in BOOLEAN :
       LET kept == IF wiped THEN {} ELSE disk
           keptFps == IF wiped THEN {} ELSE fpsDisk
           found == IF up THEN mirror ELSE {}
       IN /\ disk' = kept
          /\ seen' = kept \cup found
          /\ fps' = keptFps
          /\ fpsDisk' = keptFps
          /\ torn' = torn \cup {job[w] : w \in {v \in Workers : pc[v] = "save"}}
                          \cup (mirror \ found)
          /\ missed' = missed \cup (fps \ keptFps)
  /\ dirty' = FALSE
  /\ queue' = <<>>
  /\ inFlight' = {}
  /\ attempts' = [r \in Releases |-> 0]
  /\ retryIn' = [r \in Releases |-> 0]
  /\ held' = [r \in Releases |-> NotHeld]
  /\ baselined' = FALSE
  /\ pausedIn' = 0
  /\ pc' = [w \in Workers |-> "idle"]
  /\ job' = [w \in Workers |-> NoRelease]
  /\ waitIn' = [w \in Workers |-> 0]
  /\ UNCHANGED <<outside, mirror, published>>

Step(w) ==
  \/ Take(w) \/ Wake(w) \/ Gates(w) \/ Classify(w) \/ Save(w) \/ SaveFps(w)

Next ==
  \/ \E r \in Releases : List(r) \/ Unlist(r)
  \/ Elapse
  \/ Poll
  \/ \E w \in Workers : Step(w) \/ SaveFails(w)
  \/ Restart

\* The loop sleeps between polls and never ends; each article fetch and LLM
\* call has a timeout.
Fairness ==
  /\ WF_vars(Elapse)
  /\ WF_vars(Poll)
  /\ \A w \in Workers : WF_vars(Step(w))

Spec == Init /\ [][Next]_vars /\ Fairness
-----------------------------------------------------------------------------
(* Properties.                                                             *)

Places == {"idle", "waiting", "gates", "llm", "save", "saveFps", "dead"}
Working == {w \in Workers : pc[w] \in {"waiting", "gates", "llm"}}

\* Every variable keeps its type, a worker past the queue has a release, and
\* whatever is seen is no longer held.
TypeOK ==
  /\ listing \in [Releases -> {"ahead", "listed", "off"}]
  /\ age \in [Releases -> 0 .. TooOld]
  /\ seen \subseteq Releases /\ disk \subseteq Releases /\ mirror \subseteq Releases
  /\ fps \subseteq Releases /\ fpsDisk \subseteq Releases
  /\ dirty \in BOOLEAN /\ baselined \in BOOLEAN
  /\ queue \in Seq(Releases)
  /\ inFlight \subseteq Releases
  /\ attempts \in [Releases -> 0 .. MaxAttempts - 1]
  /\ retryIn \in [Releases -> Nat]
  /\ held \in [Releases -> 0 .. NotHeld]
  /\ pausedIn \in 0 .. Pause
  /\ pc \in [Workers -> Places]
  /\ job \in [Workers -> Releases \cup {NoRelease}]
  /\ waitIn \in [Workers -> 0 .. Pause]
  /\ published \in [Releases -> Nat]
  /\ torn \subseteq Releases /\ missed \subseteq Releases
  /\ faults \in Nat
  /\ \A w \in Workers : pc[w] \in {"idle", "dead"} <=> job[w] = NoRelease
  /\ \A r \in seen : held[r] = NotHeld

\* in_flight is exactly what is queued or with a worker, each release once: no
\* release is judged, paid for and published by two workers at a time.
OneWorkerEach ==
  /\ inFlight = ToSet(queue) \cup {job[w] : w \in Working}
  /\ \A w \in Working : job[w] \notin ToSet(queue)
  /\ \A v, w \in Working : job[v] = job[w] => v = w
  /\ \A i, j \in 1 .. Len(queue) : queue[i] = queue[j] => i = j
  /\ inFlight \cap seen = {}

\* A release is published once, over retries, restarts and deploys, unless the
\* process died between the publication and the save or a store was down.
PublishedOnce == \A r \in Releases : published[r] > 1 => r \in torn

\* "Cross-wire dedup": of two wires' copies of a release one is published,
\* unless both were with the LLM at once or the fingerprint was lost.
CopiesPublishedOnce ==
  \A r, s \in Releases :
    r # s /\ Copy(r, s) /\ published[r] > 0 /\ published[s] > 0 =>
      {r, s} \cap missed # {}

AllDead == \A w \in Workers : pc[w] = "dead"

\* "Every release FMP lists leaves exactly one outcome": one that stays listed
\* ends up published, dropped or given up, whatever fails and however often it
\* is rate-limited, as long as a worker is left.
ListedIsSettled ==
  \A r \in Releases :
    (listing[r] = "listed") ~> (r \in seen \/ listing[r] = "off" \/ AllDead)

\* What is seen, drops included, reaches the file or the mirror, unless the
\* process dies first.
SeenIsSaved ==
  \A r \in Releases :
    (r \in seen) ~> (r \in disk \cup mirror \/ r \notin seen \/ AllDead)

\* "a rate-limited release is retried until PR_MAX_LATE_MINUTES after it was
\* first seen": one that nothing but a rate limit holds back is taken up again,
\* unless the process dies.
RateLimitedIsRetried ==
  \A r \in Releases :
    (held[r] # NotHeld /\ attempts[r] = 0 /\ r \notin inFlight) ~>
      (r \in inFlight \/ held[r] = NotHeld \/ AllDead)
=============================================================================
