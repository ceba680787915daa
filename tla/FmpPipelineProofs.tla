-------------------------- MODULE FmpPipelineProofs --------------------------
(***************************************************************************)
(* What the FMP loop guarantees for any number of workers, releases and    *)
(* failures and any limits: the types, one owner per release, and one      *)
(* publication of each release and of each pair of copies.                 *)
(***************************************************************************)
EXTENDS FmpPipeline, SequenceTheorems, FiniteSetTheorems, TLAPS

(* Sequences without repetition.                                            *)

Once(q) == \A i, j \in 1 .. Len(q) : q[i] = q[j] => i = j

LEMMA OrderOf ==
  ASSUME NEW S, IsFiniteSet(S), NEW order \in SetToSeqs(S)
  PROVE  order \in Seq(S) /\ ToSet(order) = S /\ Once(order)
  <1> DEFINE n == Cardinality(S)
  <1>1. n \in Nat
    BY FS_CardinalityType
  <1>2. /\ order \in [1 .. n -> S]
        /\ \A i, j \in 1 .. n : i # j => order[i] # order[j]
    BY DEF SetToSeqs
  <1>3. order \in Seq(S) /\ Len(order) = n
    BY <1>1, <1>2, IsASeq, LenProperties
  <1>4. order \in Injection(1 .. n, S)
    BY <1>2 DEF Injection, IsInjective
  <1>5. IsFiniteSet(1 .. n) /\ Cardinality(1 .. n) = n
    BY <1>1, FS_Interval
  <1>6. order \in Surjection(1 .. n, S)
    BY <1>4, <1>5, FS_Injection
  <1>7. ToSet(order) = S
    BY <1>2, <1>6 DEF ToSet, Surjection
  <1>8. QED
    BY <1>2, <1>3, <1>7 DEF Once

LEMMA HeadOnce ==
  ASSUME NEW S, NEW q \in Seq(S), q # <<>>, Once(q)
  PROVE  /\ Head(q) \in S /\ Tail(q) \in Seq(S)
         /\ ToSet(q) = {Head(q)} \cup ToSet(Tail(q))
         /\ Head(q) \notin ToSet(Tail(q))
         /\ Once(Tail(q))
  <1>1. /\ Len(q) \in Nat \ {0} /\ Head(q) = q[1] /\ Tail(q) \in Seq(S)
        /\ Len(Tail(q)) = Len(q) - 1
        /\ \A i \in 1 .. Len(q) - 1 : Tail(q)[i] = q[i + 1]
    BY HeadTailProperties, LenProperties
  <1>2. DOMAIN q = 1 .. Len(q) /\ DOMAIN Tail(q) = 1 .. Len(q) - 1
    BY <1>1, LenProperties
  <1>3. ToSet(q) = {Head(q)} \cup ToSet(Tail(q))
    <2>1. ASSUME NEW x \in ToSet(q) PROVE x \in {Head(q)} \cup ToSet(Tail(q))
      <3>1. PICK i \in 1 .. Len(q) : x = q[i]
        BY <1>2 DEF ToSet
      <3>2. CASE i = 1
        BY <3>1, <3>2, <1>1
      <3>3. CASE i # 1
        <4>1. i - 1 \in 1 .. Len(q) - 1 /\ Tail(q)[i - 1] = q[i]
          BY <3>3, <1>1
        <4>2. QED
          BY <4>1, <3>1, <1>2 DEF ToSet
      <3>4. QED
        BY <3>2, <3>3
    <2>2. ASSUME NEW x \in ToSet(Tail(q)) PROVE x \in ToSet(q)
      <3>1. PICK i \in 1 .. Len(q) - 1 : x = Tail(q)[i]
        BY <1>2 DEF ToSet
      <3>2. i + 1 \in 1 .. Len(q) /\ x = q[i + 1]
        BY <3>1, <1>1
      <3>3. QED
        BY <3>2, <1>2 DEF ToSet
    <2>3. Head(q) \in ToSet(q)
      BY <1>1, <1>2 DEF ToSet
    <2>4. QED
      BY <2>1, <2>2, <2>3
  <1>4. Head(q) \notin ToSet(Tail(q))
    <2> SUFFICES ASSUME NEW i \in 1 .. Len(q) - 1, Head(q) = Tail(q)[i]
                 PROVE  FALSE
      BY <1>2 DEF ToSet
    <2>1. q[1] = q[i + 1] /\ 1 \in 1 .. Len(q) /\ i + 1 \in 1 .. Len(q) /\ 1 # i + 1
      BY <1>1
    <2>2. QED
      BY <2>1 DEF Once
  <1>5. Once(Tail(q))
    <2> SUFFICES ASSUME NEW i \in 1 .. Len(q) - 1, NEW j \in 1 .. Len(q) - 1,
                        Tail(q)[i] = Tail(q)[j]
                 PROVE  i = j
      BY <1>1 DEF Once
    <2>1. q[i + 1] = q[j + 1] /\ i + 1 \in 1 .. Len(q) /\ j + 1 \in 1 .. Len(q)
      BY <1>1
    <2>2. i + 1 = j + 1
      BY <2>1 DEF Once
    <2>3. QED
      BY <2>2
  <1>6. QED
    BY <1>1, <1>3, <1>4, <1>5

LEMMA ConcatOnce ==
  ASSUME NEW S, NEW p \in Seq(S), NEW q \in Seq(S), Once(p), Once(q),
         ToSet(p) \cap ToSet(q) = {}
  PROVE  /\ p \o q \in Seq(S)
         /\ ToSet(p \o q) = ToSet(p) \cup ToSet(q)
         /\ Once(p \o q)
  <1> DEFINE m == Len(p)
             n == Len(q)
  <1>1. /\ p \o q \in Seq(S) /\ m \in Nat /\ n \in Nat /\ Len(p \o q) = m + n
        /\ \A i \in 1 .. m + n :
             (p \o q)[i] = IF i <= m THEN p[i] ELSE q[i - m]
    BY ConcatProperties, LenProperties
  <1>2. /\ DOMAIN p = 1 .. m /\ DOMAIN q = 1 .. n /\ DOMAIN (p \o q) = 1 .. m + n
    BY <1>1, LenProperties
  <1> HIDE DEF m, n
  <1>3. \A i \in 1 .. m + n : (p \o q)[i] \in ToSet(p) \cup ToSet(q)
    <2> TAKE i \in 1 .. m + n
    <2>1. CASE i <= m
      <3>1. i \in 1 .. m /\ (p \o q)[i] = p[i]
        BY <2>1, <1>1
      <3>2. QED
        BY <3>1, <1>2 DEF ToSet
    <2>2. CASE i > m
      <3>1. i - m \in 1 .. n /\ (p \o q)[i] = q[i - m]
        BY <2>2, <1>1
      <3>2. QED
        BY <3>1, <1>2 DEF ToSet
    <2>3. QED
      BY <2>1, <2>2, <1>1
  <1>4. ToSet(p) \subseteq ToSet(p \o q)
    <2> SUFFICES ASSUME NEW i \in 1 .. m PROVE p[i] \in ToSet(p \o q)
      BY <1>2 DEF ToSet
    <2>1. i \in 1 .. m + n /\ (p \o q)[i] = p[i]
      BY <1>1
    <2>2. QED
      BY <2>1, <1>2 DEF ToSet
  <1>5. ToSet(q) \subseteq ToSet(p \o q)
    <2> SUFFICES ASSUME NEW i \in 1 .. n PROVE q[i] \in ToSet(p \o q)
      BY <1>2 DEF ToSet
    <2>1. m + i \in 1 .. m + n /\ (p \o q)[m + i] = q[i]
      BY <1>1
    <2>2. QED
      BY <2>1, <1>2 DEF ToSet
  <1>6. ToSet(p \o q) = ToSet(p) \cup ToSet(q)
    BY <1>2, <1>3, <1>4, <1>5 DEF ToSet
  <1>7. Once(p \o q)
    <2> SUFFICES ASSUME NEW i \in 1 .. m + n, NEW j \in 1 .. m + n,
                        (p \o q)[i] = (p \o q)[j]
                 PROVE  i = j
      BY <1>1 DEF Once
    <2>1. CASE i <= m /\ j <= m
      <3>1. i \in 1 .. m /\ j \in 1 .. m /\ p[i] = p[j]
        BY <2>1, <1>1
      <3>2. QED
        BY <3>1 DEF Once, m
    <2>2. CASE i > m /\ j > m
      <3>1. i - m \in 1 .. n /\ j - m \in 1 .. n /\ q[i - m] = q[j - m]
        BY <2>2, <1>1
      <3>2. i - m = j - m
        BY <3>1 DEF Once, n
      <3>3. QED
        BY <3>2, <1>1
    <2>3. CASE i <= m /\ j > m
      <3>1. p[i] = q[j - m] /\ i \in 1 .. m /\ j - m \in 1 .. n
        BY <2>3, <1>1
      <3>2. QED
        BY <3>1, <1>2 DEF ToSet
    <2>4. CASE i > m /\ j <= m
      <3>1. p[j] = q[i - m] /\ j \in 1 .. m /\ i - m \in 1 .. n
        BY <2>4, <1>1
      <3>2. QED
        BY <3>1, <1>2 DEF ToSet
    <2>5. QED
      BY <2>1, <2>2, <2>3, <2>4, <1>1
  <1>8. QED
    BY <1>1, <1>6, <1>7

-----------------------------------------------------------------------------
(* Type correctness.                                                        *)

LEMMA Consts ==
  /\ MaxLate \in Nat /\ MaxAge \in Nat /\ Pause \in Nat
  /\ MaxAttempts \in Nat \ {0}
  /\ TooOld = MaxLate + 1 /\ NotHeld = MaxLate + 2
  /\ NoRelease \notin Releases
  /\ RetryDelay \in [1 .. MaxAttempts - 1 -> Nat]
  /\ IsFiniteSet(Releases)
  BY FmpAssumption DEF FmpAssumption, TooOld, NotHeld

LEMMA OutsideType ==
  TypeOK /\ ((\E r \in Releases : List(r) \/ Unlist(r)) \/ Elapse) => TypeOK'
  <1>1. ASSUME TypeOK, NEW r \in Releases, List(r) \/ Unlist(r) PROVE TypeOK'
    <2>1. listing' \in [Releases -> {"ahead", "listed", "off"}]
      BY <1>1 DEF List, Unlist, TypeOK
    <2>2. age' \in [Releases -> 0 .. TooOld]
      <3>1. 0 \in 0 .. TooOld
        BY Consts
      <3>2. CASE List(r)
        <4>1. PICK a \in Ages(r) : age' = [age EXCEPT ![r] = a]
          BY <3>2 DEF List
        <4>2. a \in 0 .. TooOld
          BY <3>1 DEF Ages
        <4>3. age \in [Releases -> 0 .. TooOld]
          BY <1>1 DEF TypeOK
        <4>4. QED
          BY <4>1, <4>2, <4>3
      <3>3. CASE Unlist(r)
        BY <1>1, <3>1, <3>3 DEF Unlist, TypeOK
      <3>4. QED
        BY <1>1, <3>2, <3>3
    <2>3. QED
      BY <1>1, <2>1, <2>2
         DEF List, Unlist, TypeOK, memory, files, work, workers, history
  <1>2. ASSUME TypeOK, Elapse PROVE TypeOK'
    <2>1. /\ \A n \in 0 .. NotHeld : Later(n) \in 0 .. NotHeld
          /\ \A n \in 0 .. TooOld : Later(n) \in 0 .. TooOld
      BY Consts DEF Later
    <2>2. \A n \in Nat : Sooner(n) \in Nat /\ (n \in 0 .. Pause => Sooner(n) \in 0 .. Pause)
      BY Consts DEF Sooner
    <2>3. Later(NotHeld) = NotHeld
      BY Consts DEF Later
    <2>4. age' \in [Releases -> 0 .. TooOld]
      <3>1. age \in [Releases -> 0 .. TooOld]
        BY <1>2 DEF TypeOK
      <3>2. \A r \in Releases : Later(age[r]) \in 0 .. TooOld /\ age[r] \in 0 .. TooOld
        BY <2>1, <3>1
      <3>3. QED
        BY <1>2, <3>2 DEF Elapse
    <2>5. held' \in [Releases -> 0 .. NotHeld]
      BY <1>2, <2>1 DEF Elapse, TypeOK
    <2>6. retryIn' \in [Releases -> Nat]
      BY <1>2, <2>2 DEF Elapse, TypeOK
    <2>7. pausedIn' \in 0 .. Pause /\ waitIn' \in [Workers -> 0 .. Pause]
      BY <1>2, <2>2, Consts DEF Elapse, TypeOK
    <2>8. \A r \in seen' : held'[r] = NotHeld
      BY <1>2, <2>3 DEF Elapse, TypeOK
    <2>9. QED
      BY <1>2, <2>4, <2>5, <2>6, <2>7, <2>8 DEF Elapse, TypeOK, files, history
  <1>3. QED
    BY <1>1, <1>2

LEMMA SaveSeenType ==
  ASSUME TypeOK, NEW known \in SUBSET Releases, SaveSeen(known)
  PROVE  /\ disk' \subseteq Releases /\ mirror' \subseteq Releases
         /\ torn' \subseteq Releases /\ faults' \in Nat
  BY DEF SaveSeen, TypeOK

\* What a poll does to the queue.
LEMMA PollQueue ==
  ASSUME TypeOK, Poll
  PROVE  /\ Due \ Stale \subseteq Releases \ (seen \cup inFlight \cup Foreign)
         /\ inFlight' = inFlight \cup (Due \ Stale)
         /\ \E order \in Seq(Releases) :
              /\ queue' = queue \o order
              /\ ToSet(order) = Due \ Stale
              /\ Once(order)
  <1>1. Due \ Stale \subseteq Releases \ (seen \cup inFlight \cup Foreign)
    BY DEF Due
  <1>2. PICK order \in SetToSeqs(Due \ Stale) : queue' = queue \o order
    BY DEF Poll
  <1>3. IsFiniteSet(Due \ Stale)
    BY <1>1, Consts, FS_Subset
  <1>4. order \in Seq(Due \ Stale) /\ ToSet(order) = Due \ Stale /\ Once(order)
    BY <1>3, OrderOf
  <1>5. order \in Seq(Releases)
    BY <1>1, <1>4, SeqMonotonic
  <1>6. inFlight' = inFlight \cup (Due \ Stale)
    BY DEF Poll
  <1>7. QED
    BY <1>1, <1>2, <1>4, <1>5, <1>6

LEMMA PollType == TypeOK /\ Poll => TypeOK'
  <1> SUFFICES ASSUME TypeOK, Poll PROVE TypeOK'
    OBVIOUS
  <1> DEFINE fresh == Due \ Stale
             settled == (Stale \cup OtherWire) \ seen
             known == seen \cup settled
             changed == dirty \/ settled # {}
             flush == changed /\ inFlight \cup fresh = {}
  <1>1. /\ Due \subseteq Releases \ Foreign /\ Stale \subseteq Due
        /\ OtherWire \subseteq Foreign /\ Foreign \subseteq Releases
    BY FmpAssumption DEF Due, Stale, OtherWire, FmpAssumption
  <1>2. fresh \subseteq Releases /\ known \subseteq Releases /\ fresh \cap known = {}
    BY <1>1 DEF TypeOK, Due
  <1>3. /\ seen' = known
        /\ age' = [r \in Releases |-> IF r \in fresh \cup settled THEN 0 ELSE age[r]]
        /\ held' = [r \in Releases |->
                      IF r \in settled THEN NotHeld
                      ELSE IF r \in fresh /\ held[r] = NotHeld THEN 0 ELSE held[r]]
        /\ inFlight' = inFlight \cup fresh
        /\ baselined' = TRUE
        /\ dirty' = (changed /\ ~flush)
        /\ IF flush THEN SaveSeen(known) ELSE UNCHANGED <<disk, mirror, torn, faults>>
        /\ UNCHANGED <<listing, fps, attempts, fpsDisk, retryIn, pausedIn, workers,
                       published, missed>>
    BY DEF Poll
  <1>4. queue' \in Seq(Releases)
    <2>1. PICK order \in Seq(Releases) : queue' = queue \o order
      BY PollQueue
    <2>2. QED
      BY <2>1, ConcatProperties DEF TypeOK
  <1>5. /\ disk' \subseteq Releases /\ mirror' \subseteq Releases
        /\ torn' \subseteq Releases /\ faults' \in Nat
    <2>1. CASE flush
      BY <1>2, <1>3, <2>1, SaveSeenType
    <2>2. CASE ~flush
      BY <1>3, <2>2 DEF TypeOK
    <2>3. QED
      BY <2>1, <2>2
  <1> HIDE DEF fresh, settled, known, changed, flush
  <1>6. age' \in [Releases -> 0 .. TooOld] /\ held' \in [Releases -> 0 .. NotHeld]
    BY <1>3, Consts DEF TypeOK
  <1>7. \A r \in seen' : held'[r] = NotHeld
    <2>1. known = seen \cup settled
      BY DEF known
    <2>2. QED
      BY <1>2, <1>3, <2>1 DEF TypeOK
  <1>8. seen' \subseteq Releases /\ inFlight' \subseteq Releases /\ dirty' \in BOOLEAN
    BY <1>2, <1>3 DEF TypeOK
  <1>9. QED
    BY <1>3, <1>4, <1>5, <1>6, <1>7, <1>8 DEF TypeOK, workers

\* A worker in the middle of a release has one.
LEMMA JobIsRelease ==
  ASSUME TypeOK, NEW w \in Workers, pc[w] \notin {"idle", "dead"}
  PROVE  job[w] \in Releases
  BY DEF TypeOK

LEMMA MarkSeenType ==
  ASSUME TypeOK, NEW r \in Releases, MarkSeen(r)
  PROVE  /\ seen' \subseteq Releases /\ dirty' \in BOOLEAN
         /\ held' \in [Releases -> 0 .. NotHeld]
         /\ \A s \in seen' : held'[s] = NotHeld
  <1>1. NotHeld \in 0 .. NotHeld
    BY Consts
  <1>2. held' \in [Releases -> 0 .. NotHeld]
    BY <1>1 DEF MarkSeen, TypeOK
  <1>3. QED
    BY <1>2 DEF MarkSeen, TypeOK

LEMMA ReleaseType ==
  ASSUME TypeOK, NEW w \in Workers, Release(w),
         seen' \subseteq Releases, dirty' \in BOOLEAN,
         held' \in [Releases -> 0 .. NotHeld], \A s \in seen' : held'[s] = NotHeld,
         attempts' \in [Releases -> 0 .. MaxAttempts - 1],
         retryIn' \in [Releases -> Nat], pausedIn' \in 0 .. Pause
  PROVE  TypeOK'
  <1>1. /\ pc' \in [Workers -> Places]
        /\ job' \in [Workers -> Releases \cup {NoRelease}]
        /\ inFlight' \subseteq Releases
    BY DEF Release, TypeOK, Places
  <1>2. \A v \in Workers : pc'[v] \in {"idle", "dead"} <=> job'[v] = NoRelease
    BY DEF Release, TypeOK
  <1>3. QED
    BY <1>1, <1>2 DEF Release, TypeOK, outside, files, history

LEMMA DropType ==
  ASSUME TypeOK, NEW w \in Workers, job[w] \in Releases, Drop(w)
  PROVE  TypeOK'
  <1>1. attempts' \in [Releases -> 0 .. MaxAttempts - 1]
    <2>1. 0 \in 0 .. MaxAttempts - 1
      BY Consts
    <2>2. QED
      BY <2>1 DEF Drop, TypeOK
  <1>2. MarkSeen(job[w]) /\ Release(w) /\ UNCHANGED <<retryIn, pausedIn>>
    BY DEF Drop
  <1>3. QED
    BY <1>1, <1>2, MarkSeenType, ReleaseType DEF TypeOK

LEMMA FailedType ==
  ASSUME TypeOK, NEW w \in Workers, job[w] \in Releases, Failed(w)
  PROVE  TypeOK'
  <1> DEFINE n == attempts[job[w]] + 1
  <1>1. n \in 1 .. MaxAttempts
    BY Consts DEF TypeOK
  <1>2. Release(w) /\ UNCHANGED pausedIn
    BY DEF Failed
  <1>3. CASE /\ n >= MaxAttempts
             /\ MarkSeen(job[w])
             /\ attempts' = [attempts EXCEPT ![job[w]] = 0]
             /\ UNCHANGED retryIn
    <2>1. attempts' \in [Releases -> 0 .. MaxAttempts - 1]
      <3>1. 0 \in 0 .. MaxAttempts - 1
        BY Consts
      <3>2. QED
        BY <1>3, <3>1 DEF TypeOK
    <2>2. QED
      BY <1>2, <1>3, <2>1, MarkSeenType, ReleaseType DEF TypeOK
  <1>4. CASE /\ n < MaxAttempts
             /\ attempts' = [attempts EXCEPT ![job[w]] = n]
             /\ retryIn' = [retryIn EXCEPT ![job[w]] = RetryDelay[n]]
             /\ UNCHANGED <<seen, held, dirty>>
    <2>1. n \in 0 .. MaxAttempts - 1 /\ RetryDelay[n] \in Nat
      BY <1>1, <1>4, Consts
    <2> HIDE DEF n
    <2>2. attempts' \in [Releases -> 0 .. MaxAttempts - 1]
          /\ retryIn' \in [Releases -> Nat]
      BY <1>4, <2>1 DEF TypeOK
    <2>3. QED
      BY <1>2, <1>4, <2>2, ReleaseType DEF TypeOK
  <1>5. QED
    BY <1>3, <1>4 DEF Failed

LEMMA RateLimitedType ==
  ASSUME TypeOK, NEW w \in Workers, job[w] \in Releases, RateLimited(w)
  PROVE  TypeOK'
  <1>1. pausedIn' \in 0 .. Pause /\ Release(w) /\ UNCHANGED attempts
    BY Consts DEF RateLimited
  <1>2. CASE MarkSeen(job[w]) /\ UNCHANGED retryIn
    BY <1>1, <1>2, MarkSeenType, ReleaseType DEF TypeOK
  <1>3. CASE /\ retryIn' = [retryIn EXCEPT ![job[w]] = Pause]
             /\ UNCHANGED <<seen, held, dirty>>
    <2>1. retryIn' \in [Releases -> Nat]
      BY <1>3, Consts DEF TypeOK
    <2>2. QED
      BY <1>1, <1>3, <2>1, ReleaseType DEF TypeOK
  <1>4. QED
    BY <1>2, <1>3 DEF RateLimited

LEMMA PublishType ==
  ASSUME TypeOK, NEW w \in Workers, job[w] \in Releases, Publish(w)
  PROVE  TypeOK'
  <1>1. /\ seen' \subseteq Releases /\ dirty' \in BOOLEAN
        /\ held' \in [Releases -> 0 .. NotHeld]
        /\ \A s \in seen' : held'[s] = NotHeld
    BY MarkSeenType DEF Publish
  <1>2. attempts' \in [Releases -> 0 .. MaxAttempts - 1]
    <2>1. 0 \in 0 .. MaxAttempts - 1
      BY Consts
    <2>2. QED
      BY <2>1 DEF Publish, TypeOK
  <1>3. missed' \subseteq Releases
    <2>1. TooLate(w) \subseteq Releases
      BY JobIsRelease DEF TooLate
    <2>2. QED
      BY <2>1 DEF Publish, TypeOK
  <1>4. published' \in [Releases -> Nat] /\ faults' \in Nat
    <2>1. CASE published' = [published EXCEPT ![job[w]] = @ + 1] /\ UNCHANGED faults
      BY <2>1 DEF TypeOK
    <2>2. CASE faults' = faults + 1 /\ UNCHANGED published
      BY <2>2 DEF TypeOK
    <2>3. QED
      BY <2>1, <2>2 DEF Publish
  <1>5. pc' \in [Workers -> Places] /\ pc[w] = "llm" /\ pc' = [pc EXCEPT ![w] = "save"]
    BY DEF Publish, Goto, TypeOK, Places
  <1>6. QED
    BY <1>1, <1>2, <1>3, <1>4, <1>5 DEF Publish, TypeOK, outside, files

LEMMA StepType ==
  ASSUME TypeOK, NEW w \in Workers, Step(w) \/ SaveFails(w)
  PROVE  TypeOK'
  <1>1. CASE Take(w)
    <2>1. queue # <<>> /\ Head(queue) \in Releases /\ Tail(queue) \in Seq(Releases)
      BY <1>1, HeadTailProperties DEF Take, TypeOK
    <2>2. /\ pc' \in [Workers -> Places]
          /\ job' \in [Workers -> Releases \cup {NoRelease}]
          /\ waitIn' \in [Workers -> 0 .. Pause]
          /\ queue' \in Seq(Releases)
      BY <1>1, <2>1 DEF Take, Goto, TypeOK, Places
    <2>3. \A v \in Workers : pc'[v] \in {"idle", "dead"} <=> job'[v] = NoRelease
      BY <1>1, <2>1, Consts DEF Take, Goto, TypeOK
    <2>4. QED
      BY <1>1, <2>2, <2>3 DEF Take, TypeOK, outside, memory, files, history
  <1>2. CASE Wake(w)
    BY <1>2 DEF Wake, Goto, TypeOK, Places, outside, memory, files, work, history
  <1>3. CASE Gates(w)
    <2>1. job[w] \in Releases
      BY <1>3, JobIsRelease DEF Gates
    <2>2. CASE /\ Goto(w, "gates", "llm")
               /\ UNCHANGED <<outside, memory, files, work, job, waitIn, history>>
      BY <2>2 DEF Goto, TypeOK, Places, outside, memory, files, work, history
    <2>3. QED
      BY <1>3, <2>1, <2>2, DropType, FailedType DEF Gates
  <1>4. CASE Classify(w)
    <2>1. job[w] \in Releases
      BY <1>4, JobIsRelease DEF Classify
    <2>2. QED
      BY <1>4, <2>1, DropType, FailedType, RateLimitedType, PublishType DEF Classify
  <1>5. CASE Save(w)
    <2>1. /\ disk' \subseteq Releases /\ mirror' \subseteq Releases
          /\ torn' \subseteq Releases /\ faults' \in Nat
      BY <1>5, SaveSeenType DEF Save, TypeOK
    <2>2. pc' \in [Workers -> Places]
          /\ \A v \in Workers : pc'[v] \in {"idle", "dead"} <=> job[v] = NoRelease
      BY <1>5 DEF Save, TypeOK, Places
    <2>3. QED
      BY <1>5, <2>1, <2>2 DEF Save, TypeOK, outside, memory, work
  <1>6. CASE SaveFps(w)
    <2>1. /\ pc' \in [Workers -> Places]
          /\ job' \in [Workers -> Releases \cup {NoRelease}]
          /\ \A v \in Workers : pc'[v] \in {"idle", "dead"} <=> job'[v] = NoRelease
      BY <1>6 DEF SaveFps, TypeOK, Places
    <2>2. QED
      BY <1>6, <2>1 DEF SaveFps, TypeOK, outside, work, history
  <1>7. CASE SaveFails(w)
    <2>1. job[w] \in Releases
      BY <1>7, JobIsRelease DEF SaveFails
    <2>2. /\ pc' \in [Workers -> Places]
          /\ job' \in [Workers -> Releases \cup {NoRelease}]
          /\ \A v \in Workers : pc'[v] \in {"idle", "dead"} <=> job'[v] = NoRelease
      BY <1>7 DEF SaveFails, TypeOK, Places
    <2>3. torn' \subseteq Releases /\ missed' \subseteq Releases /\ faults' \in Nat
      BY <1>7, <2>1 DEF SaveFails, TypeOK
    <2>4. QED
      BY <1>7, <2>2, <2>3 DEF SaveFails, TypeOK, outside, memory, files, work
  <1>8. QED
    BY <1>1, <1>2, <1>3, <1>4, <1>5, <1>6, <1>7 DEF Step

LEMMA RestartType == TypeOK /\ Restart => TypeOK'
  <1> SUFFICES ASSUME TypeOK, Restart PROVE TypeOK'
    OBVIOUS
  <1>1. /\ disk' \subseteq Releases /\ seen' \subseteq Releases
        /\ fps' \subseteq Releases /\ fpsDisk' \subseteq Releases
        /\ torn' \subseteq Releases /\ missed' \subseteq Releases
    <2>1. {job[w] : w \in {v \in Workers : pc[v] = "save"}} \subseteq Releases
      BY JobIsRelease
    <2>2. QED
      BY <2>1 DEF Restart, TypeOK
  <1>2. /\ attempts' \in [Releases -> 0 .. MaxAttempts - 1]
        /\ held' \in [Releases -> 0 .. NotHeld]
        /\ waitIn' \in [Workers -> 0 .. Pause] /\ pausedIn' \in 0 .. Pause
    BY Consts DEF Restart
  <1>3. /\ pc' \in [Workers -> Places]
        /\ job' \in [Workers -> Releases \cup {NoRelease}]
        /\ \A w \in Workers : pc'[w] = "idle" /\ job'[w] = NoRelease
    BY DEF Restart, Places
  <1>4. \A r \in seen' : held'[r] = NotHeld
    <2>1. held' = [r \in Releases |-> NotHeld]
      BY DEF Restart
    <2>2. QED
      BY <1>1, <2>1
  <1>5. /\ queue' = <<>> /\ inFlight' = {} /\ retryIn' = [r \in Releases |-> 0]
        /\ dirty' = FALSE /\ baselined' = FALSE /\ faults' = faults + 1
        /\ UNCHANGED <<outside, mirror, published>>
    BY DEF Restart
  <1>6. queue' \in Seq(Releases) /\ inFlight' \subseteq Releases
    BY <1>5
  <1>7. retryIn' \in [Releases -> Nat] /\ faults' \in Nat
    BY <1>5 DEF TypeOK
  <1>8. /\ listing' \in [Releases -> {"ahead", "listed", "off"}]
        /\ age' \in [Releases -> 0 .. TooOld]
        /\ mirror' \subseteq Releases
        /\ published' \in [Releases -> Nat]
    BY <1>5 DEF TypeOK, outside
  <1>9. dirty' \in BOOLEAN /\ baselined' \in BOOLEAN
    BY <1>5
  <1>10. \A w \in Workers : pc'[w] \in {"idle", "dead"} <=> job'[w] = NoRelease
    BY <1>3
  <1>11. QED
    BY <1>1, <1>2, <1>3, <1>4, <1>6, <1>7, <1>8, <1>9, <1>10 DEF TypeOK

LEMMA TypeInit == Init => TypeOK
  <1> SUFFICES ASSUME Init PROVE TypeOK
    OBVIOUS
  <1>1. /\ age \in [Releases -> 0 .. TooOld]
        /\ attempts \in [Releases -> 0 .. MaxAttempts - 1]
        /\ held \in [Releases -> 0 .. NotHeld]
        /\ waitIn \in [Workers -> 0 .. Pause] /\ pausedIn \in 0 .. Pause
    BY Consts DEF Init
  <1>2. queue \in Seq(Releases)
    BY DEF Init
  <1>3. QED
    BY <1>1, <1>2 DEF Init, TypeOK, Places

LEMMA TypeNext == TypeOK /\ [Next]_vars => TypeOK'
  <1>1. CASE UNCHANGED vars
    BY <1>1 DEF TypeOK, vars, outside, memory, files, work, workers, history
  <1>2. QED
    BY <1>1, OutsideType, PollType, StepType, RestartType DEF Next

\* The loop's variables keep their types: a worker past the queue has a release
\* to process, and what is seen is no longer timed.
THEOREM TypeCorrect == Spec => []TypeOK
  BY TypeInit, TypeNext, PTL DEF Spec

-----------------------------------------------------------------------------
(* Who owns a release.                                                      *)

LEMMA OwnFacts ==
  OneWorkerEach <=>
    /\ inFlight = ToSet(queue) \cup {job[w] : w \in Working}
    /\ \A w \in Working : job[w] \notin ToSet(queue)
    /\ \A v, w \in Working : job[v] = job[w] => v = w
    /\ Once(queue)
    /\ inFlight \cap seen = {}
  BY DEF OneWorkerEach, Once

\* Steps that leave the queue alone, and move no worker in or out of work.
LEMMA OwnQuiet ==
  ASSUME OneWorkerEach, UNCHANGED <<queue, inFlight, seen>>,
         Working' = Working, \A w \in Working : job'[w] = job[w]
  PROVE  OneWorkerEach'
  BY DEF OneWorkerEach

\* A worker is done with its release, which it may have marked as seen.
LEMMA OwnLeave ==
  ASSUME OneWorkerEach, NEW w \in Working, UNCHANGED queue,
         inFlight' = inFlight \ {job[w]}, seen' \subseteq seen \cup {job[w]},
         Working' = Working \ {w}, \A v \in Working \ {w} : job'[v] = job[v]
  PROVE  OneWorkerEach'
  <1>1. \A v \in Working \ {w} : job[v] # job[w]
    BY DEF OneWorkerEach
  <1>2. {job'[v] : v \in Working'} = {job[v] : v \in Working} \ {job[w]}
    BY <1>1
  <1>3. inFlight' = ToSet(queue') \cup {job'[v] : v \in Working'}
    BY <1>2 DEF OneWorkerEach
  <1>4. inFlight' \cap seen' = {}
    BY DEF OneWorkerEach
  <1>5. QED
    BY <1>3, <1>4 DEF OneWorkerEach

LEMMA OwnRelease ==
  ASSUME TypeOK, OneWorkerEach, NEW w \in Workers, pc[w] \in {"gates", "llm"},
         Release(w), seen' \subseteq seen \cup {job[w]}
  PROVE  OneWorkerEach'
  <1>1. w \in Working
    BY DEF Working
  <1>2. Working' = Working \ {w}
    BY DEF Working, Release, TypeOK
  <1>3. \A v \in Working \ {w} : job'[v] = job[v]
    BY DEF Working, Release, TypeOK
  <1>4. UNCHANGED queue /\ inFlight' = inFlight \ {job[w]}
    BY DEF Release
  <1>5. QED
    BY <1>1, <1>2, <1>3, <1>4, OwnLeave

LEMMA OwnTake ==
  ASSUME TypeOK, OneWorkerEach, NEW w \in Workers, Take(w)
  PROVE  OneWorkerEach'
  <1>1. /\ queue \in Seq(Releases) /\ queue # <<>>
        /\ pc[w] = "idle" /\ queue' = Tail(queue)
        /\ job' = [job EXCEPT ![w] = Head(queue)]
        /\ UNCHANGED <<inFlight, seen>>
    BY DEF Take, Goto, TypeOK, memory
  <1>2. /\ ToSet(queue) = {Head(queue)} \cup ToSet(queue')
        /\ Head(queue) \notin ToSet(queue') /\ Once(queue')
    BY <1>1, OwnFacts, HeadOnce
  <1>3. w \notin Working /\ Working' = Working \cup {w}
    <2>1. pc'[w] \in {"waiting", "gates"} /\ \A v \in Workers \ {w} : pc'[v] = pc[v]
      BY DEF Take, Goto, TypeOK
    <2>2. QED
      BY <1>1, <2>1 DEF Working
  <1>4. job'[w] = Head(queue)
    BY <1>1 DEF TypeOK
  <1>5. {job'[v] : v \in Working'} = {job[v] : v \in Working} \cup {Head(queue)}
    BY <1>1, <1>3, <1>4 DEF TypeOK, Working
  <1>6. \A v \in Working : job'[v] = job[v] /\ job[v] \notin ToSet(queue)
    BY <1>1, <1>3, OwnFacts DEF TypeOK, Working
  <1>7. /\ inFlight' = ToSet(queue') \cup {job'[v] : v \in Working'}
        /\ inFlight' \cap seen' = {}
    BY <1>1, <1>2, <1>5, OwnFacts
  <1>8. \A v \in Working' : job'[v] \notin ToSet(queue')
    BY <1>2, <1>3, <1>4, <1>6
  <1>9. \A u, v \in Working' : job'[u] = job'[v] => u = v
    BY <1>2, <1>3, <1>4, <1>6, OwnFacts
  <1>10. QED
    BY <1>2, <1>7, <1>8, <1>9 DEF OneWorkerEach, Once

\* The inductive invariant: no row of a foreign wire is ever taken up.
OwnInv == OneWorkerEach /\ inFlight \cap Foreign = {}

LEMMA OwnPoll ==
  ASSUME TypeOK, OwnInv, Poll
  PROVE  OwnInv'
  <1> DEFINE fresh == Due \ Stale
  <1>1. /\ fresh \subseteq Releases \ (seen \cup inFlight \cup Foreign)
        /\ inFlight' = inFlight \cup fresh
    BY PollQueue
  <1>2. PICK order \in Seq(Releases) :
          queue' = queue \o order /\ ToSet(order) = fresh /\ Once(order)
    BY PollQueue
  <1>3. /\ Due \cap inFlight = {}
        /\ OtherWire \subseteq Foreign
        /\ seen' = seen \cup ((Stale \cup OtherWire) \ seen)
        /\ UNCHANGED <<pc, job>>
    BY DEF Poll, Due, OtherWire, workers
  <1>4. Stale \subseteq Due
    BY DEF Stale
  <1> HIDE DEF fresh
  <1>5. ToSet(queue) \cap fresh = {}
    BY <1>1, OwnFacts DEF OwnInv
  <1>6. ToSet(queue') = ToSet(queue) \cup fresh /\ Once(queue')
    BY <1>2, <1>5, ConcatOnce, OwnFacts DEF OwnInv, TypeOK
  <1>7. Working' = Working /\ {job'[w] : w \in Working'} = {job[w] : w \in Working}
    BY <1>3 DEF Working
  <1>8. inFlight' = ToSet(queue') \cup {job'[w] : w \in Working'}
    BY <1>1, <1>6, <1>7, OwnFacts DEF OwnInv
  <1>9. \A w \in Working' : job'[w] \notin ToSet(queue')
    <2> TAKE w \in Working'
    <2>1. w \in Working /\ job'[w] = job[w] /\ job[w] \in inFlight
      BY <1>3, <1>7, OwnFacts DEF OwnInv
    <2>2. QED
      BY <2>1, <1>1, <1>6, OwnFacts DEF OwnInv
  <1>10. \A v, w \in Working' : job'[v] = job'[w] => v = w
    BY <1>3, <1>7, OwnFacts DEF OwnInv
  <1>11. inFlight' \cap seen' = {}
    <2>1. inFlight \cap seen' = {}
      BY <1>3, <1>4, OwnFacts DEF OwnInv
    <2>2. fresh \cap seen' = {}
      BY <1>1, <1>3 DEF fresh
    <2>3. QED
      BY <1>1, <2>1, <2>2
  <1>12. inFlight' \cap Foreign = {}
    BY <1>1 DEF OwnInv
  <1>13. QED
    BY <1>6, <1>8, <1>9, <1>10, <1>11, <1>12 DEF OwnInv, OneWorkerEach, Once

LEMMA OwnStep ==
  ASSUME TypeOK, OneWorkerEach, NEW w \in Workers, Step(w) \/ SaveFails(w)
  PROVE  OneWorkerEach' /\ inFlight' \subseteq inFlight
  <1>1. CASE Take(w)
    BY <1>1, OwnTake DEF Take
  <1>2. CASE Wake(w)
    <2>1. Working' = Working
      BY <1>2 DEF Wake, Goto, Working, TypeOK
    <2>2. QED
      BY <1>2, <2>1, OwnQuiet DEF Wake, memory, work
  <1>3. CASE Drop(w) /\ pc[w] \in {"gates", "llm"}
    <2>1. Release(w) /\ seen' \subseteq seen \cup {job[w]}
      BY <1>3 DEF Drop, MarkSeen
    <2>2. QED
      BY <1>3, <2>1, OwnRelease DEF Release
  <1>4. CASE Failed(w) /\ pc[w] \in {"gates", "llm"}
    <2>1. Release(w) /\ seen' \subseteq seen \cup {job[w]}
      BY <1>4 DEF Failed, MarkSeen
    <2>2. QED
      BY <1>4, <2>1, OwnRelease DEF Release
  <1>5. CASE RateLimited(w) /\ pc[w] \in {"gates", "llm"}
    <2>1. Release(w) /\ seen' \subseteq seen \cup {job[w]}
      BY <1>5 DEF RateLimited, MarkSeen
    <2>2. QED
      BY <1>5, <2>1, OwnRelease DEF Release
  <1>6. CASE /\ Goto(w, "gates", "llm")
             /\ UNCHANGED <<outside, memory, files, work, job, waitIn, history>>
    <2>1. Working' = Working
      BY <1>6 DEF Goto, Working, TypeOK
    <2>2. QED
      BY <1>6, <2>1, OwnQuiet DEF memory, work
  <1>7. CASE Publish(w)
    <2>1. /\ pc[w] = "llm" /\ pc' = [pc EXCEPT ![w] = "save"]
          /\ seen' = seen \cup {job[w]} /\ inFlight' = inFlight \ {job[w]}
          /\ UNCHANGED <<queue, job>>
      BY <1>7 DEF Publish, Goto, MarkSeen
    <2>2. w \in Working /\ Working' = Working \ {w}
      BY <2>1 DEF Working, TypeOK
    <2>3. QED
      BY <2>1, <2>2, OwnLeave
  <1>8. CASE Save(w)
    <2>1. Working' = Working
      BY <1>8 DEF Save, Working, TypeOK
    <2>2. QED
      BY <1>8, <2>1, OwnQuiet DEF Save, memory, work
  <1>9. CASE SaveFps(w)
    <2>1. Working' = Working /\ \A v \in Working : job'[v] = job[v]
      BY <1>9 DEF SaveFps, Working, TypeOK
    <2>2. QED
      BY <1>9, <2>1, OwnQuiet DEF SaveFps, work
  <1>10. CASE SaveFails(w)
    <2>1. Working' = Working /\ \A v \in Working : job'[v] = job[v]
      BY <1>10 DEF SaveFails, Working, TypeOK
    <2>2. QED
      BY <1>10, <2>1, OwnQuiet DEF SaveFails, memory, work
  <1>11. QED
    BY <1>1, <1>2, <1>3, <1>4, <1>5, <1>6, <1>7, <1>8, <1>9, <1>10
       DEF Step, Gates, Classify

LEMMA OwnNext == TypeOK /\ OwnInv /\ [Next]_vars => OwnInv'
  <1> SUFFICES ASSUME TypeOK, OwnInv, [Next]_vars PROVE OwnInv'
    OBVIOUS
  <1>1. ASSUME NEW r \in Releases, List(r) \/ Unlist(r) PROVE OwnInv'
    <2>1. UNCHANGED <<queue, inFlight, seen, pc, job>> /\ Working' = Working
      BY <1>1 DEF List, Unlist, memory, work, workers, Working
    <2>2. QED
      BY <2>1, OwnQuiet DEF OwnInv
  <1>2. CASE Elapse
    <2>1. UNCHANGED <<queue, inFlight, seen, pc, job>> /\ Working' = Working
      BY <1>2 DEF Elapse, Working
    <2>2. QED
      BY <2>1, OwnQuiet DEF OwnInv
  <1>3. CASE Poll
    BY <1>3, OwnPoll
  <1>4. ASSUME NEW w \in Workers, Step(w) \/ SaveFails(w) PROVE OwnInv'
    BY <1>4, OwnStep DEF OwnInv
  <1>5. CASE Restart
    <2>1. queue' = <<>> /\ inFlight' = {} /\ Working' = {}
      BY <1>5 DEF Restart, Working
    <2>2. ToSet(queue') = {} /\ Len(queue') = 0
      BY <2>1 DEF ToSet
    <2>3. \A i, j \in 1 .. Len(queue') : queue'[i] = queue'[j] => i = j
      BY <2>2
    <2>4. QED
      BY <2>1, <2>2, <2>3 DEF OwnInv, OneWorkerEach
  <1>6. CASE UNCHANGED vars
    <2>1. UNCHANGED <<queue, inFlight, seen, pc, job>> /\ Working' = Working
      BY <1>6 DEF vars, memory, work, workers, Working
    <2>2. QED
      BY <2>1, OwnQuiet DEF OwnInv
  <1>7. QED
    BY <1>1, <1>2, <1>3, <1>4, <1>5, <1>6 DEF Next

LEMMA OwnInit == Init => OwnInv
  <1> SUFFICES ASSUME Init PROVE OwnInv
    OBVIOUS
  <1>1. queue = <<>> /\ inFlight = {} /\ Working = {} /\ ToSet(queue) = {}
    BY DEF Init, Working, ToSet
  <1>2. \A i, j \in 1 .. Len(queue) : queue[i] = queue[j] => i = j
    BY <1>1
  <1>3. QED
    BY <1>1, <1>2 DEF OwnInv, OneWorkerEach

\* However many workers and however the polls, retries and failures interleave,
\* a release is in the queue or with one worker, once, until it is seen.
THEOREM OwnedOnce == Spec => []OneWorkerEach
  <1>1. OwnInv => OneWorkerEach
    BY DEF OwnInv
  <1>2. QED
    BY <1>1, TypeInit, TypeNext, OwnInit, OwnNext, PTL DEF Spec

-----------------------------------------------------------------------------
(* One publication.                                                         *)

Saving(r) == \E w \in Workers : pc[w] = "save" /\ job[w] = r

\* A release published and not torn was published once, is seen, and is in the
\* mirror unless its publisher is about to save it.
PublishedInv ==
  \A r \in Releases \ torn :
    \/ published[r] = 0
    \/ published[r] = 1 /\ r \in seen /\ (r \in mirror \/ Saving(r))

\* Steps that publish nothing and forget nothing.
LEMMA PublishedQuiet ==
  ASSUME PublishedInv, UNCHANGED published,
         seen \subseteq seen', mirror \subseteq mirror', torn \subseteq torn',
         \A w \in Workers : pc[w] = "save" => pc'[w] = "save" /\ job'[w] = job[w]
  PROVE  PublishedInv'
  <1> SUFFICES ASSUME NEW r \in Releases \ torn'
               PROVE  \/ published'[r] = 0
                      \/ /\ published'[r] = 1 /\ r \in seen'
                         /\ r \in mirror' \/ Saving(r)'
    BY DEF PublishedInv
  <1>1. Saving(r) => Saving(r)'
    BY DEF Saving
  <1>2. QED
    BY <1>1 DEF PublishedInv

LEMMA PublishedRelease ==
  ASSUME TypeOK, PublishedInv, NEW w \in Workers, pc[w] # "save", Release(w),
         seen \subseteq seen', UNCHANGED mirror
  PROVE  PublishedInv'
  <1>1. \A v \in Workers : pc[v] = "save" => pc'[v] = "save" /\ job'[v] = job[v]
    BY DEF Release, TypeOK
  <1>2. QED
    BY <1>1, PublishedQuiet DEF Release, history

LEMMA PublishedPublish ==
  ASSUME TypeOK, OneWorkerEach, PublishedInv, NEW w \in Workers, Publish(w)
  PROVE  PublishedInv'
  <1>1. /\ pc[w] = "llm" /\ LoopIsFree /\ pc' = [pc EXCEPT ![w] = "save"]
        /\ seen' = seen \cup {job[w]}
        /\ UNCHANGED <<job, mirror, torn>>
    BY DEF Publish, Goto, MarkSeen, files
  <1>2. job[w] \in Releases /\ job[w] \notin seen
    BY <1>1, JobIsRelease DEF OneWorkerEach, Working
  <1>3. pc'[w] = "save" /\ job'[w] = job[w]
    BY <1>1 DEF TypeOK
  <1>4. \A r \in Releases : ~Saving(r)
    BY <1>1 DEF LoopIsFree, Saving
  <1>5. /\ published'[job[w]] \in {published[job[w]], published[job[w]] + 1}
        /\ \A r \in Releases \ {job[w]} : published'[r] = published[r]
    BY <1>2 DEF Publish, TypeOK
  <1> SUFFICES ASSUME NEW r \in Releases \ torn'
               PROVE  \/ published'[r] = 0
                      \/ /\ published'[r] = 1 /\ r \in seen'
                         /\ r \in mirror' \/ Saving(r)'
    BY DEF PublishedInv
  <1>6. CASE r = job[w]
    <2>1. published[r] = 0
      BY <1>1, <1>2, <1>6 DEF PublishedInv
    <2>2. published'[r] \in {0, 1}
      BY <1>5, <1>6, <2>1
    <2>3. Saving(r)' /\ r \in seen'
      BY <1>1, <1>3, <1>6 DEF Saving
    <2>4. QED
      BY <2>2, <2>3
  <1>7. CASE r # job[w]
    BY <1>1, <1>4, <1>5, <1>7 DEF PublishedInv
  <1>8. QED
    BY <1>6, <1>7

LEMMA PublishedSave ==
  ASSUME TypeOK, PublishedInv, NEW w \in Workers, Save(w)
  PROVE  PublishedInv'
  <1>1. /\ UNCHANGED <<published, seen, job>>
        /\ \/ mirror' = mirror \cup seen /\ torn' = torn
           \/ mirror' = mirror /\ torn' = torn \cup (seen \ mirror)
    BY DEF Save, SaveSeen, memory
  <1>2. QED
    BY <1>1 DEF PublishedInv

LEMMA PublishedSaveFails ==
  ASSUME TypeOK, PublishedInv, NEW w \in Workers, SaveFails(w)
  PROVE  PublishedInv'
  <1>1. /\ UNCHANGED <<published, seen, mirror>>
        /\ torn' = IF pc[w] = "save" THEN torn \cup {job[w]} ELSE torn
        /\ pc' = [pc EXCEPT ![w] = "dead"]
        /\ job' = [job EXCEPT ![w] = NoRelease]
    BY DEF SaveFails, memory, files
  <1> SUFFICES ASSUME NEW r \in Releases \ torn'
               PROVE  \/ published'[r] = 0
                      \/ /\ published'[r] = 1 /\ r \in seen'
                         /\ r \in mirror' \/ Saving(r)'
    BY DEF PublishedInv
  <1>2. r \notin torn /\ (pc[w] = "save" => r # job[w])
    BY <1>1
  <1>3. Saving(r) => Saving(r)'
    BY <1>1, <1>2 DEF Saving, TypeOK
  <1>4. QED
    BY <1>1, <1>2, <1>3 DEF PublishedInv

LEMMA PublishedRestart ==
  ASSUME TypeOK, PublishedInv, Restart
  PROVE  PublishedInv'
  <1>1. PICK wiped, up \in BOOLEAN :
          /\ seen' = (IF wiped THEN {} ELSE disk) \cup (IF up THEN mirror ELSE {})
          /\ torn' = torn \cup {job[w] : w \in {v \in Workers : pc[v] = "save"}}
                          \cup (mirror \ (IF up THEN mirror ELSE {}))
    BY DEF Restart
  <1>2. UNCHANGED <<published, mirror>>
    BY DEF Restart
  <1> SUFFICES ASSUME NEW r \in Releases \ torn'
               PROVE  \/ published'[r] = 0
                      \/ /\ published'[r] = 1 /\ r \in seen'
                         /\ r \in mirror' \/ Saving(r)'
    BY DEF PublishedInv
  <1>3. r \notin torn /\ ~Saving(r)
    BY <1>1 DEF Saving
  <1>4. r \in mirror => up /\ r \in seen'
    BY <1>1
  <1>5. QED
    BY <1>2, <1>3, <1>4 DEF PublishedInv

LEMMA PublishedStep ==
  ASSUME TypeOK, OneWorkerEach, PublishedInv,
         NEW w \in Workers, Step(w) \/ SaveFails(w)
  PROVE  PublishedInv'
  <1>1. CASE Take(w)
    <2>1. \A v \in Workers : pc[v] = "save" => pc'[v] = "save" /\ job'[v] = job[v]
      BY <1>1 DEF Take, Goto, TypeOK
    <2>2. QED
      BY <1>1, <2>1, PublishedQuiet DEF Take, memory, files, history
  <1>2. CASE Wake(w)
    <2>1. \A v \in Workers : pc[v] = "save" => pc'[v] = "save" /\ job'[v] = job[v]
      BY <1>2 DEF Wake, Goto, TypeOK
    <2>2. QED
      BY <1>2, <2>1, PublishedQuiet DEF Wake, memory, files, history
  <1>3. CASE Drop(w) /\ pc[w] # "save"
    <2>1. Release(w) /\ seen \subseteq seen' /\ UNCHANGED mirror
      BY <1>3 DEF Drop, MarkSeen, Release, files
    <2>2. QED
      BY <1>3, <2>1, PublishedRelease
  <1>4. CASE Failed(w) /\ pc[w] # "save"
    <2>1. Release(w) /\ seen \subseteq seen' /\ UNCHANGED mirror
      BY <1>4 DEF Failed, MarkSeen, Release, files
    <2>2. QED
      BY <1>4, <2>1, PublishedRelease
  <1>5. CASE RateLimited(w) /\ pc[w] # "save"
    <2>1. Release(w) /\ seen \subseteq seen' /\ UNCHANGED mirror
      BY <1>5 DEF RateLimited, MarkSeen, Release, files
    <2>2. QED
      BY <1>5, <2>1, PublishedRelease
  <1>6. CASE /\ Goto(w, "gates", "llm")
             /\ UNCHANGED <<outside, memory, files, work, job, waitIn, history>>
    <2>1. \A v \in Workers : pc[v] = "save" => pc'[v] = "save" /\ job'[v] = job[v]
      BY <1>6 DEF Goto, TypeOK
    <2>2. QED
      BY <1>6, <2>1, PublishedQuiet DEF memory, files, history
  <1>7. CASE SaveFps(w)
    <2>1. \A v \in Workers : pc[v] = "save" => pc'[v] = "save" /\ job'[v] = job[v]
      BY <1>7 DEF SaveFps, TypeOK
    <2>2. QED
      BY <1>7, <2>1, PublishedQuiet DEF SaveFps, history
  <1>8. CASE Publish(w) \/ Save(w) \/ SaveFails(w)
    BY <1>8, PublishedPublish, PublishedSave, PublishedSaveFails
  <1>9. QED
    BY <1>1, <1>2, <1>3, <1>4, <1>5, <1>6, <1>7, <1>8 DEF Step, Gates, Classify

LEMMA PublishedNext ==
  TypeOK /\ OwnInv /\ PublishedInv /\ [Next]_vars => PublishedInv'
  <1> SUFFICES ASSUME TypeOK, OwnInv, PublishedInv, [Next]_vars PROVE PublishedInv'
    OBVIOUS
  <1>1. CASE (\E r \in Releases : List(r) \/ Unlist(r)) \/ Elapse \/ UNCHANGED vars
    BY <1>1, PublishedQuiet
       DEF List, Unlist, Elapse, vars, memory, files, workers, history
  <1>2. CASE Poll
    <2>1. /\ seen \subseteq seen' /\ UNCHANGED <<pc, job, published>>
          /\ mirror \subseteq mirror' /\ torn \subseteq torn'
      BY <1>2 DEF Poll, SaveSeen, workers
    <2>2. QED
      BY <2>1, PublishedQuiet
  <1>3. ASSUME NEW w \in Workers, Step(w) \/ SaveFails(w) PROVE PublishedInv'
    BY <1>3, PublishedStep DEF OwnInv
  <1>4. CASE Restart
    BY <1>4, PublishedRestart
  <1>5. QED
    BY <1>1, <1>2, <1>3, <1>4 DEF Next

\* However often it is polled, retried and handed over, and whatever is killed
\* or deployed, a release is published at most once unless a store failed or
\* the process died between its publication and the save.
THEOREM PublishedAtMostOnce == Spec => []PublishedOnce
  <1>1. Init => PublishedInv
    BY DEF Init, PublishedInv
  <1>2. TypeOK /\ PublishedInv => PublishedOnce
    <2> SUFFICES ASSUME TypeOK, PublishedInv, NEW r \in Releases, r \notin torn
                 PROVE  ~(published[r] > 1)
      BY DEF PublishedOnce
    <2>1. published[r] \in {0, 1}
      BY DEF PublishedInv
    <2>2. QED
      BY <2>1
  <1>3. QED
    BY <1>1, <1>2, TypeInit, TypeNext, OwnInit, OwnNext, PublishedNext, PTL
       DEF Spec

-----------------------------------------------------------------------------
(* One publication per pair of copies.                                      *)

\* What is published is remembered or was missed; and a worker with the LLM has
\* missed every remembered copy of its release.
CopiesInv ==
  /\ \A r \in Releases \ missed : published[r] > 0 => r \in fps
  /\ \A w \in Workers : pc[w] = "llm" =>
       \A s \in fps : Copy(job[w], s) => job[w] \in missed
  /\ CopiesPublishedOnce

LEMMA CopySymmetric ==
  ASSUME NEW r \in Releases, NEW s \in Releases, Copy(r, s)
  PROVE  Copy(s, r)
  BY FmpAssumption DEF FmpAssumption, Copy

LEMMA CopiesQuiet ==
  ASSUME CopiesInv, UNCHANGED <<published, fps>>, missed \subseteq missed',
         \A w \in Workers : pc'[w] = "llm" => pc[w] = "llm" /\ job'[w] = job[w]
  PROVE  CopiesInv'
  BY DEF CopiesInv, CopiesPublishedOnce, Copy

LEMMA CopiesRelease ==
  ASSUME TypeOK, CopiesInv, NEW w \in Workers, Release(w)
  PROVE  CopiesInv'
  <1>1. \A v \in Workers : pc'[v] = "llm" => pc[v] = "llm" /\ job'[v] = job[v]
    BY DEF Release, TypeOK
  <1>2. QED
    BY <1>1, CopiesQuiet DEF Release, history

LEMMA CopiesPublish ==
  ASSUME TypeOK, CopiesInv, NEW w \in Workers, Publish(w)
  PROVE  CopiesInv'
  <1>1. /\ pc[w] = "llm" /\ pc' = [pc EXCEPT ![w] = "save"] /\ job' = job
        /\ fps' = fps \cup {job[w]} /\ missed' = missed \cup TooLate(w)
    BY DEF Publish, Goto
  <1>2. job[w] \in Releases
    BY <1>1, JobIsRelease
  <1>3. /\ \A r \in Releases \ {job[w]} : published'[r] = published[r]
        /\ \A r \in Releases : published[r] \in Nat
    BY <1>2 DEF Publish, TypeOK
  <1>4. \A r \in Releases \ missed' : published'[r] > 0 => r \in fps'
    BY <1>1, <1>3 DEF CopiesInv
  <1>5. ASSUME NEW v \in Workers, pc'[v] = "llm", NEW s \in fps', Copy(job'[v], s)
        PROVE  job'[v] \in missed'
    <2>1. v # w /\ pc[v] = "llm" /\ job'[v] = job[v]
      BY <1>1, <1>5 DEF TypeOK
    <2>2. CASE s \in fps
      BY <1>1, <1>5, <2>1, <2>2 DEF CopiesInv
    <2>3. CASE s = job[w]
      BY <1>1, <1>5, <2>1, <2>3 DEF TooLate
    <2>4. QED
      BY <1>1, <1>5, <2>2, <2>3
  <1>6. ASSUME NEW s \in Releases, s # job[w], Copy(job[w], s), published'[s] > 0
        PROVE  {job[w], s} \cap missed' # {}
    <2>1. published[s] > 0
      BY <1>3, <1>6
    <2>2. CASE s \in missed
      BY <1>1, <2>2
    <2>3. CASE s \notin missed
      <3>1. s \in fps
        BY <2>1, <2>3 DEF CopiesInv
      <3>2. job[w] \in missed
        BY <1>1, <1>6, <3>1 DEF CopiesInv
      <3>3. QED
        BY <1>1, <3>2
    <2>4. QED
      BY <2>2, <2>3
  <1>7. CopiesPublishedOnce'
    <2> SUFFICES ASSUME NEW r \in Releases, NEW s \in Releases, r # s, Copy(r, s),
                        published'[r] > 0, published'[s] > 0
                 PROVE  {r, s} \cap missed' # {}
      BY DEF CopiesPublishedOnce, Copy
    <2>1. CASE r = job[w]
      BY <1>6, <2>1
    <2>2. CASE s = job[w]
      <3>1. Copy(s, r)
        BY CopySymmetric
      <3>2. {s, r} \cap missed' # {}
        BY <1>6, <2>2, <3>1
      <3>3. QED
        BY <3>2
    <2>3. CASE r # job[w] /\ s # job[w]
      <3>1. published[r] > 0 /\ published[s] > 0
        BY <1>3, <2>3
      <3>2. {r, s} \cap missed # {}
        BY <3>1 DEF CopiesInv, CopiesPublishedOnce
      <3>3. QED
        BY <1>1, <3>2
    <2>4. QED
      BY <2>1, <2>2, <2>3
  <1>8. \A v \in Workers : pc'[v] = "llm" =>
          \A s \in fps' : Copy(job'[v], s) => job'[v] \in missed'
    BY <1>5
  <1>9. QED
    BY <1>4, <1>7, <1>8 DEF CopiesInv, Copy

LEMMA CopiesStep ==
  ASSUME TypeOK, CopiesInv, NEW w \in Workers, Step(w) \/ SaveFails(w)
  PROVE  CopiesInv'
  <1>1. CASE Take(w) \/ Wake(w)
    <2>1. \A v \in Workers : pc'[v] = "llm" => pc[v] = "llm" /\ job'[v] = job[v]
      BY <1>1 DEF Take, Wake, Goto, TypeOK
    <2>2. QED
      BY <1>1, <2>1, CopiesQuiet DEF Take, Wake, memory, history
  <1>2. CASE Drop(w) \/ Failed(w) \/ RateLimited(w)
    BY <1>2, CopiesRelease DEF Drop, Failed, RateLimited
  <1>3. CASE /\ ~KnownCopy(job[w])
             /\ Goto(w, "gates", "llm")
             /\ UNCHANGED <<outside, memory, files, work, job, waitIn, history>>
    <2>1. /\ UNCHANGED <<published, missed, fps, job>>
          /\ \A v \in Workers : pc'[v] = "llm" => pc[v] = "llm" \/ v = w
      BY <1>3 DEF Goto, TypeOK, memory, history
    <2>2. \A s \in fps : ~Copy(job[w], s)
      BY <1>3 DEF KnownCopy
    <2>3. QED
      BY <2>1, <2>2 DEF CopiesInv, CopiesPublishedOnce, Copy
  <1>4. CASE Publish(w)
    BY <1>4, CopiesPublish
  <1>5. CASE Save(w) \/ SaveFps(w) \/ SaveFails(w)
    <2>1. \A v \in Workers : pc'[v] = "llm" => pc[v] = "llm" /\ job'[v] = job[v]
      BY <1>5 DEF Save, SaveFps, SaveFails, TypeOK
    <2>2. UNCHANGED <<published, fps>> /\ missed \subseteq missed'
      BY <1>5 DEF Save, SaveFps, SaveFails, memory, history
    <2>3. QED
      BY <2>1, <2>2, CopiesQuiet
  <1>6. QED
    BY <1>1, <1>2, <1>3, <1>4, <1>5 DEF Step, Gates, Classify

LEMMA CopiesNext == TypeOK /\ CopiesInv /\ [Next]_vars => CopiesInv'
  <1> SUFFICES ASSUME TypeOK, CopiesInv, [Next]_vars PROVE CopiesInv'
    OBVIOUS
  <1>1. CASE \/ (\E r \in Releases : List(r) \/ Unlist(r)) \/ Elapse \/ Poll
             \/ UNCHANGED vars
    <2>1. UNCHANGED <<published, missed, fps, pc, job>>
      BY <1>1 DEF List, Unlist, Elapse, Poll, vars, memory, workers, history
    <2>2. QED
      BY <2>1, CopiesQuiet
  <1>2. ASSUME NEW w \in Workers, Step(w) \/ SaveFails(w) PROVE CopiesInv'
    BY <1>2, CopiesStep
  <1>3. CASE Restart
    <2>1. PICK kept \in {{}, fpsDisk} : fps' = kept /\ missed' = missed \cup (fps \ kept)
      BY <1>3 DEF Restart
    <2>2. UNCHANGED published /\ \A w \in Workers : pc'[w] = "idle"
      BY <1>3 DEF Restart
    <2>3. QED
      BY <2>1, <2>2 DEF CopiesInv, CopiesPublishedOnce, Copy
  <1>4. QED
    BY <1>1, <1>2, <1>3 DEF Next

\* Of two wires' copies of a release one is published, unless both were with
\* the LLM at the same time or a fingerprint was lost with its file.
THEOREM CopiesAtMostOnce == Spec => []CopiesPublishedOnce
  <1>1. Init => CopiesInv
    BY DEF Init, CopiesInv, CopiesPublishedOnce
  <1>2. CopiesInv => CopiesPublishedOnce
    BY DEF CopiesInv
  <1>3. QED
    BY <1>1, <1>2, TypeInit, TypeNext, CopiesNext, PTL DEF Spec
=============================================================================
