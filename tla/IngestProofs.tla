----------------------------- MODULE IngestProofs -----------------------------
(***************************************************************************)
(* What TLAPS proves of Ingest, for any feeds, any number of wires and any *)
(* number of failures, crashes, deploys and evictions.                     *)
(***************************************************************************)
EXTENDS Ingest, TLAPS

(***************************************************************************)
(* The store, whichever loop uses it.                                      *)
(***************************************************************************)

\* What the seen store's variables hold.
StoreTypeOK ==
  /\ seen \in [Paths -> SUBSET Entries]
  /\ file \in [Paths -> (SUBSET Entries) \cup {Missing}]
  /\ mirror \in [Paths -> SUBSET Entries]
  /\ belief \in [Paths -> SUBSET Entries]
  /\ redated \in [Paths -> SUBSET Entries]
  /\ published \in [Entries -> 0 .. 2]
  /\ unanswered \subseteq Entries

\* A loop that has loaded its file knows what it published, unless no store
\* gave it back at the load.
Knows(p) ==
  \A e \in Kept(p) : published[e] > 0 => e \in seen[p] \cup unanswered

\* Why RememberedIsNotRepublished holds: between the load and the end of the
\* loop, what was published is in memory or no store gave it back.
RememberInv ==
  /\ RememberedIsNotRepublished
  /\ edgarPc # "load" => Knows("seen.json")
  /\ wirePc # "load" => Knows("pr_seen.json")

\* What _mirrored holds, is still handled and was not marked anew is in Redis;
\* and the 8-K loop, which never loads twice in a process, never loses a filing
\* that is in _mirrored.
BeliefInv ==
  /\ belief["seen.json"] \subseteq seen["seen.json"]
  /\ \/ evicted
     \/ \A p \in Paths :
          ((belief[p] \cap (seen[p] \cup LoadFile(p))) \ old) \ redated[p] \subseteq mirror[p]

\* A process that has not loaded the filings yet mirrored none.
FilingsFresh == edgarPc = "load" => belief["seen.json"] = {}

\* Whatever of the handled entries Redis lacks is in the difference that the next
\* save sends: after a half-applied transaction, a stand-down, a loop that was
\* started again without Redis, an entry lost and handled again -- unless Redis
\* itself dropped the hash (seen.py:121-141).
OwedIsKnown ==
  evicted \/ \A p \in Paths : Pruned(p) \ mirror[p] \subseteq Changed(p)

(***************************************************************************)
(* What each operation of the store keeps.                                 *)
(***************************************************************************)

\* The two files hold different entries.
LEMMA KeptApart ==
  /\ Paths = {"seen.json", "pr_seen.json"}
  /\ Kept("seen.json") = Filings /\ Kept("pr_seen.json") = Releases
  /\ \A p, q \in Paths : p # q => Kept(p) \cap Kept(q) = {}
  /\ \A p \in Paths : Kept(p) \subseteq Entries
<1>1. Filings \cap Releases = {}
  BY IngestAssumption
<1> QED
  BY <1>1 DEF Kept, Paths, Entries

LEMMA FileType ==
  ASSUME StoreTypeOK, NEW p \in Paths
  PROVE  LoadFile(p) \subseteq Entries
BY DEF StoreTypeOK, LoadFile

\* A step that leaves the store's variables alone.
LEMMA StoreFrame ==
  ASSUME UNCHANGED storeVars
  PROVE  /\ StoreTypeOK => StoreTypeOK'
         /\ BeliefInv => BeliefInv'
         /\ RememberedIsNotRepublished => RememberedIsNotRepublished'
         /\ \A p \in Paths : Knows(p) => Knows(p)'
BY DEF storeVars, StoreTypeOK, BeliefInv, RememberedIsNotRepublished, Knows,
       LoadFile, Kept

\* A load: the memory is what the stores give back, the rest is unanswered.
LEMMA LoadKeeps ==
  ASSUME StoreTypeOK, NEW p \in Paths, LoadSeen(p), Unanswer(p),
         p = "seen.json" => belief[p] = {},
         UNCHANGED <<old, published, evicted>>
  PROVE  /\ StoreTypeOK'
         /\ Knows(p)'
         /\ \A q \in Paths \ {p} : Knows(q) => Knows(q)'
         /\ BeliefInv => BeliefInv'
<1> DEFINE held == LoadFile(p) \cup (IF down' THEN {} ELSE mirror[p])
<1>1. /\ seen' = [seen EXCEPT ![p] = held]
      /\ UNCHANGED <<file, mirror>>
      /\ \/ belief' = [belief EXCEPT ![p] = mirror[p]]
            /\ redated' = [redated EXCEPT ![p] = {}]
         \/ UNCHANGED <<belief, redated>> /\ held = LoadFile(p)
  BY DEF LoadSeen, Redis, Fault
<1>2. held \subseteq Entries /\ mirror[p] \subseteq Entries
  BY FileType DEF StoreTypeOK
<1>3. unanswered' = (unanswered \ Kept(p)) \cup {e \in Kept(p) \ held : published[e] > 0}
  BY DEF Unanswer
<1> HIDE DEF held
<1>4. StoreTypeOK'
  BY <1>1, <1>2, <1>3, KeptApart DEF StoreTypeOK
<1>5. Knows(p)'
  BY <1>1, <1>3 DEF Knows, Kept, StoreTypeOK
<1>6. ASSUME NEW q \in Paths \ {p}, Knows(q)
      PROVE  Knows(q)'
  BY <1>1, <1>3, <1>6, KeptApart DEF Knows, StoreTypeOK, Kept
<1>7. ASSUME BeliefInv
      PROVE  BeliefInv'
  <2>1. belief'["seen.json"] \subseteq seen'["seen.json"]
    BY <1>1, <1>7, KeptApart DEF BeliefInv, StoreTypeOK, held, LoadSeen, Redis
  <2> QED
    BY <1>1, <1>7, <2>1 DEF BeliefInv, StoreTypeOK, LoadFile
<1> QED
  BY <1>4, <1>5, <1>6, <1>7

\* A save, whether it writes the file, the mirror, both or half.
LEMMA SaveKeeps ==
  ASSUME StoreTypeOK, NEW p \in Paths, SaveSeen(p) \/ SaveSeenFails,
         UNCHANGED <<seen, old, published, unanswered, evicted>>
  PROVE  /\ StoreTypeOK'
         /\ BeliefInv => BeliefInv'
<1>1. CASE SaveSeenFails
  BY <1>1 DEF SaveSeenFails, StoreTypeOK, BeliefInv, LoadFile
<1>2. CASE SaveSeen(p)
  <2> DEFINE written == (mirror[p] \cup Changed(p)) \ Removed(p)
  <2>1. /\ file' = [file EXCEPT ![p] = Pruned(p)]
        /\ \/ UNCHANGED <<mirror, belief, redated>>
           \/ /\ mirror' = [mirror EXCEPT ![p] = written]
              /\ belief' = [belief EXCEPT ![p] = Pruned(p)]
              /\ redated' = [redated EXCEPT ![p] = {}]
           \/ /\ mirror' = [mirror EXCEPT ![p] = written]
              /\ UNCHANGED <<belief, redated>>
    BY <1>2 DEF SaveSeen, SyncRedis
  <2>2. /\ Pruned(p) = seen[p] \ old /\ Pruned(p) \subseteq Entries
        /\ written \subseteq Entries
    BY DEF Pruned, Changed, Removed, StoreTypeOK
  <2>3. StoreTypeOK'
    <3> HIDE DEF written
    <3> QED
      BY <2>1, <2>2 DEF StoreTypeOK
  <2>4. ASSUME BeliefInv, ~evicted, NEW q \in Paths
        PROVE  ((belief'[q] \cap (seen'[q] \cup LoadFile(q)')) \ old') \ redated'[q]
                 \subseteq mirror'[q]
    <3>1. ((belief[q] \cap (seen[q] \cup LoadFile(q))) \ old) \ redated[q]
            \subseteq mirror[q]
      BY <2>4 DEF BeliefInv
    <3>2. CASE q # p
      <4>1. LoadFile(q)' = LoadFile(q)
        BY <2>1, <3>2 DEF LoadFile, StoreTypeOK
      <4> HIDE DEF written
      <4> QED
        BY <2>1, <3>1, <3>2, <4>1 DEF StoreTypeOK
    <3>3. CASE q = p
      <4>1. LoadFile(p)' \subseteq seen[p]
        BY <2>1, <2>2 DEF LoadFile, StoreTypeOK
      <4>2. /\ Changed(p) = (seen[p] \ old) \ (belief[p] \ redated[p])
            /\ Removed(p) = belief[p] \ (seen[p] \ old)
        BY <2>2 DEF Changed, Removed
      <4>3. \/ mirror'[p] = mirror[p] /\ belief'[p] = belief[p]
               /\ redated'[p] = redated[p]
            \/ mirror'[p] = written /\ belief'[p] = Pruned(p)
            \/ mirror'[p] = written /\ belief'[p] = belief[p]
               /\ redated'[p] = redated[p]
        <5> HIDE DEF written
        <5> QED
          BY <2>1 DEF StoreTypeOK
      <4> QED
        BY <2>2, <3>1, <3>3, <4>1, <4>2, <4>3
    <3> QED
      BY <3>2, <3>3
  <2>5. ASSUME BeliefInv
        PROVE  belief'["seen.json"] \subseteq seen'["seen.json"]
    BY <2>1, <2>2, <2>5, KeptApart DEF BeliefInv, StoreTypeOK
  <2> QED
    BY <2>3, <2>4, <2>5 DEF BeliefInv
<1> QED
  BY <1>1, <1>2

\* Marking an entry seen: a release that was believed mirrored has a new date.
LEMMA MarkKeeps ==
  ASSUME StoreTypeOK, NEW p \in Paths, NEW e \in Kept(p), MarkSeen(p, e),
         UNCHANGED <<file, mirror, belief, old, evicted>>
  PROVE  /\ published' \in [Entries -> 0 .. 2] /\ unanswered' \subseteq Entries
              => StoreTypeOK'
         /\ BeliefInv => BeliefInv'
         /\ \A q \in Paths : /\ seen[q] \subseteq seen'[q]
                             /\ q = p => e \in seen'[q]
<1>1. \A q \in Paths :
        /\ seen'[q] = IF q = p THEN seen[p] \cup {e} ELSE seen[q]
        /\ redated'[q] = IF q = p THEN redated[p] \cup ({e} \cap belief[p] \cap Releases)
                                  ELSE redated[q]
        /\ LoadFile(q)' = LoadFile(q)
  BY DEF MarkSeen, StoreTypeOK, LoadFile
<1>2. seen' \in [Paths -> SUBSET Entries] /\ redated' \in [Paths -> SUBSET Entries]
  BY KeptApart DEF MarkSeen, StoreTypeOK
<1>3. ASSUME BeliefInv
      PROVE  BeliefInv'
  <2>1. belief'["seen.json"] \subseteq seen'["seen.json"]
    BY <1>1, <1>3, KeptApart DEF BeliefInv
  <2>2. ASSUME ~evicted, NEW q \in Paths
        PROVE  ((belief[q] \cap (seen'[q] \cup LoadFile(q))) \ old) \ redated'[q]
                 \subseteq mirror[q]
    <3>1. ((belief[q] \cap (seen[q] \cup LoadFile(q))) \ old) \ redated[q]
            \subseteq mirror[q]
      BY <1>3, <2>2 DEF BeliefInv
    <3>2. q = "seen.json" => belief[q] \subseteq seen[q]
      BY <1>3 DEF BeliefInv
    <3>3. q = "pr_seen.json" /\ q = p => e \in Releases
      BY KeptApart
    <3>4. q = "seen.json" \/ q = "pr_seen.json"
      BY KeptApart
    <3> QED
      BY <1>1, <3>1, <3>2, <3>3, <3>4
  <2> QED
    BY <1>1, <2>1, <2>2 DEF BeliefInv
<1> QED
  BY <1>1, <1>2, <1>3, KeptApart DEF StoreTypeOK

\* A release or filing dropped, or given up: marked and never published.
LEMMA DropKeeps ==
  ASSUME StoreTypeOK, NEW p \in Paths, NEW e \in Kept(p), MarkSeen(p, e),
         UNCHANGED <<file, mirror, belief, old, evicted, published, unanswered>>
  PROVE  /\ StoreTypeOK'
         /\ BeliefInv => BeliefInv'
         /\ \A q \in Paths : Knows(q) => Knows(q)'
<1>1. \A q \in Paths : seen[q] \subseteq seen'[q]
  BY MarkKeeps
<1>2. StoreTypeOK' /\ (BeliefInv => BeliefInv')
  BY MarkKeeps DEF StoreTypeOK
<1> QED
  BY <1>1, <1>2 DEF Knows, Kept

\* A publication: of an entry that its loop does not remember.
LEMMA PublishKeeps ==
  ASSUME StoreTypeOK, NEW p \in Paths, NEW e \in Kept(p) \ seen[p],
         MarkSeen(p, e), Publish(e), Knows(p), RememberedIsNotRepublished,
         UNCHANGED <<file, mirror, belief, old, evicted>>
  PROVE  /\ StoreTypeOK'
         /\ RememberedIsNotRepublished'
         /\ BeliefInv => BeliefInv'
         /\ \A q \in Paths : Knows(q) => Knows(q)'
<1>1. e \in Entries
  BY KeptApart
<1>2. published[e] = 0 \/ e \in unanswered
  BY <1>1 DEF Knows, StoreTypeOK
<1>3. \A f \in Entries : published'[f] =
        IF f = e /\ e \notin unanswered THEN 1 ELSE published[f]
  BY <1>1, <1>2 DEF Publish, StoreTypeOK
<1>4. published' \in [Entries -> 0 .. 2] /\ unanswered' \subseteq Entries
  BY <1>1, <1>2 DEF Publish, StoreTypeOK
<1>5. /\ StoreTypeOK' /\ (BeliefInv => BeliefInv')
      /\ \A q \in Paths : seen[q] \subseteq seen'[q]
      /\ e \in seen'[p]
  BY <1>1, <1>4, MarkKeeps
<1>6. RememberedIsNotRepublished'
  BY <1>3 DEF RememberedIsNotRepublished
<1>7. ASSUME NEW q \in Paths, Knows(q), NEW f \in Kept(q), published'[f] > 0
      PROVE  f \in seen'[q] \cup unanswered'
  <2>1. CASE f = e
    <3>1. q = p
      BY <2>1, KeptApart
    <3> QED
      BY <1>5, <2>1, <3>1
  <2>2. CASE f # e
    <3>1. published'[f] = published[f] /\ (f \in unanswered => f \in unanswered')
      BY <1>3, <2>2, KeptApart DEF Publish
    <3> QED
      BY <1>5, <1>7, <3>1 DEF Knows
  <2> QED
    BY <2>1, <2>2
<1>8. \A q \in Paths : Knows(q) => Knows(q)'
  BY <1>7 DEF Knows, Kept
<1> QED
  BY <1>5, <1>6, <1>8

(***************************************************************************)
(* The steps of the loops.                                                 *)
(***************************************************************************)

StoreInv == StoreTypeOK /\ RememberInv /\ BeliefInv /\ FilingsFresh

\* A step that changes no variable of the store and loads no file.
LEMMA StoreStays ==
  ASSUME StoreInv, UNCHANGED storeVars, FilingsFresh',
         edgarPc' # "load" => edgarPc # "load",
         wirePc' # "load" => wirePc # "load"
  PROVE  StoreInv'
BY StoreFrame, KeptApart DEF StoreInv, RememberInv

\* A step that keeps what either loop knows.
LEMMA KnowsStays ==
  ASSUME StoreInv, StoreTypeOK', BeliefInv', RememberedIsNotRepublished',
         \A p \in Paths : Knows(p) => Knows(p)', FilingsFresh',
         edgarPc' # "load" => edgarPc # "load",
         wirePc' # "load" => wirePc # "load"
  PROVE  StoreInv'
BY KeptApart DEF StoreInv, RememberInv

\* A save of either loop.
LEMMA SaveStays ==
  ASSUME StoreInv, NEW p \in Paths, SaveSeen(p) \/ SaveSeenFails,
         UNCHANGED <<seen, old, published, unanswered, evicted>>, FilingsFresh',
         edgarPc' # "load" => edgarPc # "load",
         wirePc' # "load" => wirePc # "load"
  PROVE  StoreInv'
<1>1. StoreTypeOK' /\ BeliefInv'
  BY SaveKeeps DEF StoreInv
<1>2. RememberedIsNotRepublished' /\ \A q \in Paths : Knows(q) => Knows(q)'
  BY DEF StoreInv, RememberInv, RememberedIsNotRepublished, Knows, Kept
<1> QED
  BY <1>1, <1>2, KnowsStays

LEMMA EdgarKeeps ==
  ASSUME StoreInv, Edgar
  PROVE  StoreInv'
<1> USE KeptApart
<1>0. /\ StoreTypeOK /\ BeliefInv /\ RememberedIsNotRepublished
      /\ UNCHANGED wirePc /\ FilingsFresh'
  BY DEF StoreInv, RememberInv, Edgar, wireVars, EdgarStep, EdgarStart, FetchFeed,
         ProcessEntry, ProcessEntryFails, EdgarSave, FilingsFresh
<1>1. CASE EdgarStart
  <2>1. /\ LoadSeen("seen.json") /\ Unanswer("seen.json")
        /\ belief["seen.json"] = {}
        /\ UNCHANGED <<old, published, evicted>>
    BY <1>1 DEF EdgarStart, StoreInv, FilingsFresh
  <2>2. /\ StoreTypeOK' /\ BeliefInv' /\ Knows("seen.json")'
        /\ Knows("pr_seen.json") => Knows("pr_seen.json")'
    BY <1>0, <2>1, LoadKeeps
  <2>3. RememberedIsNotRepublished'
    BY <1>0, <2>1 DEF RememberedIsNotRepublished
  <2> QED
    BY <1>0, <2>2, <2>3 DEF StoreInv, RememberInv
<1>2. CASE FetchFeed
  BY <1>0, <1>2, StoreStays DEF FetchFeed
<1>3. CASE ProcessEntry
  <2>1. /\ edgarPc = "entry" /\ edgarPc' = "save"
        /\ UNCHANGED <<file, mirror, belief, old, evicted>>
    BY <1>3 DEF ProcessEntry
  <2>2. PICK f \in Oldest(NewFilings) : Publish(f) /\ MarkSeen("seen.json", f)
    BY <1>3 DEF ProcessEntry
  <2>3. f \in Kept("seen.json") \ seen["seen.json"]
    BY <2>2 DEF Oldest, NewFilings, AllowedForm
  <2>4. Knows("seen.json")
    BY <2>1 DEF StoreInv, RememberInv
  <2>5. /\ StoreTypeOK' /\ RememberedIsNotRepublished' /\ BeliefInv'
        /\ \A q \in Paths : Knows(q) => Knows(q)'
    BY <1>0, <2>1, <2>2, <2>3, <2>4, PublishKeeps
  <2> QED
    BY <1>0, <2>1, <2>5, KnowsStays
<1>4. CASE ProcessEntryFails
  <2>1. /\ UNCHANGED <<edgarPc, seen, file, mirror, belief, redated, old,
                       published, unanswered, evicted>>
    BY <1>4 DEF ProcessEntryFails
  <2> QED
    BY <1>0, <2>1 DEF StoreInv, FilingsFresh, StoreTypeOK, RememberInv, BeliefInv, Knows, Kept,
       LoadFile, RememberedIsNotRepublished
<1>5. CASE EdgarSave
  BY <1>0, <1>5, SaveStays DEF EdgarSave
<1> QED
  BY <1>1, <1>2, <1>3, <1>4, <1>5 DEF Edgar, EdgarStep

LEMMA WireKeeps ==
  ASSUME StoreInv, Wire
  PROVE  StoreInv'
<1> USE KeptApart
<1>0. /\ StoreTypeOK /\ BeliefInv /\ RememberedIsNotRepublished
      /\ UNCHANGED edgarPc
  BY DEF StoreInv, RememberInv, Wire, edgarVars
<1>a. FilingsFresh'
  <2>1. UNCHANGED belief \/ \E S : belief' = [belief EXCEPT !["pr_seen.json"] = S]
    BY DEF Wire, WireStep, WireStart, LoadSeen, BeginCycle, PassWire, ReadWire,
           ReadWireUnparsed, ReadWireFails, EndWire, DropRelease, JudgeFails,
           PublishRelease, Judging, WireSave, SaveSeen, SyncRedis, SaveSeenFails,
           SavePrints, storeVars
  <2> QED
    BY <1>0, <2>1 DEF StoreInv, FilingsFresh, StoreTypeOK
<1>1. CASE WireStart
  <2>1. /\ LoadSeen("pr_seen.json") /\ Unanswer("pr_seen.json")
        /\ UNCHANGED <<old, published, evicted>>
    BY <1>1 DEF WireStart
  <2>2. /\ StoreTypeOK' /\ BeliefInv' /\ Knows("pr_seen.json")'
        /\ Knows("seen.json") => Knows("seen.json")'
    BY <1>0, <2>1, LoadKeeps
  <2>3. RememberedIsNotRepublished'
    BY <1>0, <2>1 DEF RememberedIsNotRepublished
  <2> QED
    BY <1>0, <1>a, <2>2, <2>3 DEF StoreInv, RememberInv
<1>2. CASE BeginCycle \/ PassWire \/ ReadWire \/ EndWire
  <2>1. UNCHANGED storeVars /\ wirePc # "load"
    BY <1>2 DEF BeginCycle, PassWire, ReadWire, EndWire
  <2> QED
    BY <1>0, <1>a, <2>1, StoreStays
<1>3. CASE ReadWireUnparsed \/ ReadWireFails \/ SavePrints
  <2>1. /\ wirePc # "load"
        /\ UNCHANGED <<seen, file, mirror, belief, redated, old, published,
                       unanswered, evicted>>
    BY <1>3 DEF ReadWireUnparsed, ReadWireFails, SavePrints
  <2> QED
    BY <1>0, <1>a, <2>1 DEF StoreInv, FilingsFresh, StoreTypeOK, RememberInv, BeliefInv, Knows, Kept,
       LoadFile, RememberedIsNotRepublished
<1>4. ASSUME NEW r \in Releases, DropRelease(r) \/ JudgeFails(r)
      PROVE  StoreInv'
  <2>1. /\ wirePc # "load"
        /\ UNCHANGED <<file, mirror, belief, old, evicted, published, unanswered>>
        /\ MarkSeen("pr_seen.json", r) \/ UNCHANGED <<seen, redated>>
    BY <1>4 DEF DropRelease, JudgeFails, Judging, Settle
  <2>2. RememberedIsNotRepublished' /\ r \in Entries
    BY <1>0, <2>1 DEF RememberedIsNotRepublished
  <2>3. CASE MarkSeen("pr_seen.json", r)
    <3>1. /\ StoreTypeOK' /\ BeliefInv'
          /\ \A q \in Paths : Knows(q) => Knows(q)'
      BY <1>0, <2>1, <2>2, <2>3, DropKeeps
    <3> QED
      BY <1>0, <2>1, <2>2, <3>1, <1>a, KnowsStays
  <2>4. CASE UNCHANGED <<seen, redated>>
    BY <1>0, <1>a, <2>1, <2>4 DEF StoreInv, FilingsFresh, StoreTypeOK, RememberInv, BeliefInv, Knows,
       Kept, LoadFile, RememberedIsNotRepublished
  <2> QED
    BY <2>1, <2>3, <2>4
<1>5. ASSUME NEW r \in Releases, PublishRelease(r)
      PROVE  StoreInv'
  <2>1. /\ wirePc # "load" /\ wirePc' = "save"
        /\ UNCHANGED <<file, mirror, belief, old, evicted>>
        /\ MarkSeen("pr_seen.json", r) /\ Publish(r)
        /\ r \in Kept("pr_seen.json") \ seen["pr_seen.json"]
    BY <1>5 DEF PublishRelease, Judging, Settle, Oldest, NewReleases
  <2>2. Knows("pr_seen.json")
    BY <2>1 DEF StoreInv, RememberInv
  <2>3. /\ StoreTypeOK' /\ RememberedIsNotRepublished' /\ BeliefInv'
        /\ \A q \in Paths : Knows(q) => Knows(q)'
    BY <1>0, <2>1, <2>2, PublishKeeps
  <2> QED
    BY <1>0, <2>1, <2>3, <1>a, KnowsStays
<1>6. CASE WireSave
  <2>1. /\ wirePc # "load"
        /\ SaveSeen("pr_seen.json") \/ SaveSeenFails
        /\ UNCHANGED <<seen, old, published, unanswered, evicted>>
    BY <1>6 DEF WireSave
  <2> QED
    BY <1>0, <1>a, <2>1, SaveStays
<1> QED
  BY <1>1, <1>2, <1>3, <1>4, <1>5, <1>6 DEF Wire, WireStep

LEMMA StoreStep == StoreInv /\ [Next]_vars => StoreInv'
<1> SUFFICES ASSUME StoreInv, [Next]_vars
             PROVE  StoreInv'
  OBVIOUS
<1>1. CASE Edgar \/ Wire
  BY <1>1, EdgarKeeps, WireKeeps
<1>2. CASE \/ UNCHANGED vars \/ BackOffOver \/ Tickers
           \/ \E e \in Entries : List(e) \/ Unlist(e)
           \/ \E w \in Wires : Touch(w)
  <2>1. UNCHANGED <<storeVars, edgarPc, wirePc>>
    BY <1>2 DEF vars, BackOffOver, Unblock, Tickers, LoadTickers, List, Unlist, Touch,
                edgarVars, wireVars
  <2>2. FilingsFresh'
    BY <2>1 DEF StoreInv, FilingsFresh, storeVars
  <2> QED
    BY <2>1, <2>2, StoreStays
<1>3. CASE \/ MinuteOver
           \/ \E p \in Paths : Evict(p) /\ UNCHANGED <<listing, edgarVars, wireVars>>
  <2>1. /\ UNCHANGED <<seen, file, belief, redated, old, published, unanswered,
                       edgarPc, wirePc>>
        /\ \/ UNCHANGED <<mirror, evicted>>
           \/ evicted' /\ \E p \in Paths : mirror' = [mirror EXCEPT ![p] = {}]
    BY <1>3 DEF MinuteOver, StandUp, Evict, edgarVars, wireVars
  <2>2. StoreTypeOK'
    BY <2>1 DEF StoreInv, StoreTypeOK
  <2> QED
    BY <2>1, <2>2 DEF StoreInv, FilingsFresh, RememberInv, BeliefInv, Knows, Kept, LoadFile,
       RememberedIsNotRepublished
<1>4. ASSUME NEW e \in Ageing, AgeOut(e)
      PROVE  StoreInv'
  <2>1. /\ UNCHANGED <<seen, file, mirror, belief, redated, published, unanswered,
                       evicted, edgarPc, wirePc>>
        /\ old \subseteq old'
    BY <1>4 DEF AgeOut, edgarVars, wireVars
  <2> QED
    BY <2>1 DEF StoreInv, FilingsFresh, StoreTypeOK, RememberInv, BeliefInv, Knows, Kept,
       LoadFile, RememberedIsNotRepublished
<1>5. ASSUME NEW wiped \in BOOLEAN, Restart(wiped)
      PROVE  StoreInv'
  <2>1. /\ edgarPc' = "load" /\ wirePc' = "load"
        /\ seen' = [p \in Paths |-> {}] /\ belief' = [p \in Paths |-> {}]
        /\ redated' = [p \in Paths |-> {}]
        /\ file' = (IF wiped THEN [p \in Paths |-> Missing] ELSE file)
        /\ UNCHANGED <<mirror, old, published, unanswered, evicted>>
    BY <1>5 DEF Restart, StoreRestart, WireRestart
  <2>2. StoreTypeOK'
    BY <2>1 DEF StoreInv, StoreTypeOK
  <2>3. BeliefInv'
    BY <2>1 DEF BeliefInv
  <2> QED
    BY <2>1, <2>2, <2>3, KeptApart
       DEF StoreInv, FilingsFresh, RememberInv, RememberedIsNotRepublished
<1> QED
  BY <1>1, <1>2, <1>3, <1>4, <1>5 DEF Next

LEMMA StoreStarts == Init => StoreInv
BY KeptApart
   DEF Init, StoreInit, EdgarInit, WireInit, StoreInv, FilingsFresh, StoreTypeOK,
       RememberInv, BeliefInv, RememberedIsNotRepublished

\* For any feeds, any number of wires, failures, crashes, deploys and evictions,
\* nothing is published again that the loop's memory knows, or that its file or
\* an answering Redis gave back at the last load.
THEOREM NeverRepublished == Spec => []RememberedIsNotRepublished
<1>1. StoreInv => RememberedIsNotRepublished
  BY DEF StoreInv, RememberInv
<1> QED
  BY <1>1, StoreStarts, StoreStep, PTL DEF Spec

\* The safety half of MirrorCatchesUp, for any number of failures: as long as
\* Redis drops no hash, what the mirror lacks is in the next difference.
THEOREM OwedIsAlwaysKnown == Spec => []OwedIsKnown
<1>1. StoreInv => OwedIsKnown
  BY DEF StoreInv, BeliefInv, OwedIsKnown, Pruned, Changed
<1> QED
  BY <1>1, StoreStarts, StoreStep, PTL DEF Spec
=============================================================================
