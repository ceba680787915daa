------------------------------ MODULE SeenStore -----------------------------
(***************************************************************************)
(* What the ingest worker has handled (services/ingest/seen.py): a set in  *)
(* memory per poll loop, its JSON file and a Redis hash that mirrors it,   *)
(* kept by the difference from what was last mirrored.  A Redis error      *)
(* stands the mirror down for both loops.  The files go with every deploy. *)
(***************************************************************************)
EXTENDS Naturals, FiniteSets

CONSTANTS
  Filings,         \* entries of EDGAR's feed, numbered oldest first
  Releases,        \* items of the wires' feeds, likewise
  Missing,         \* no file, or not JSON
  MaxFaults        \* bound: failed calls, crashes, deploys and evictions

Paths == {"seen.json", "pr_seen.json"}
Entries == Filings \cup Releases
Kept(p) == IF p = "seen.json" THEN Filings ELSE Releases

VARIABLES
  seen,            \* per file, the entries handled, in memory
  file, mirror,    \* the JSON files and the Redis hashes
  belief,          \* _mirrored: what the hash is thought to hold
  redated,         \* of these, the entries marked anew, with a later date, since
  down,            \* time.monotonic() < _down_until
  old,             \* entries older than TTL_DAYS
  published,       \* messages sent for an entry while it was remembered
  unanswered,      \* published entries that no store gave back at the last load
  evicted,         \* Redis dropped a hash
  faults

storeVars == <<seen, file, mirror, belief, redated, down, old, published, unanswered,
               evicted, faults>>

Fault == faults < MaxFaults /\ faults' = faults + 1

\* _load_file, and _redis: a client unless it stands down.
LoadFile(p) == IF file[p] = Missing THEN {} ELSE file[p]
Redis == ~down

\* Mutant: only the file is read.
LoadSeenFileMutant(p) ==
  /\ seen' = [seen EXCEPT ![p] = LoadFile(p)]
  /\ UNCHANGED <<file, mirror, belief, redated, down, faults>>

\* Mutant: what the file adds is believed to be mirrored.
LoadSeenBeliefMutant(p) ==
  /\ Redis
  /\ seen' = [seen EXCEPT ![p] = LoadFile(p) \cup mirror[p]]
  /\ belief' = [belief EXCEPT ![p] = LoadFile(p) \cup mirror[p]]
  /\ UNCHANGED <<file, mirror, redated, down, faults>>

\* load_seen: the file and, if Redis answers, what the mirror adds to it.  (The
\* two dating one entry differently is left out: both hold it.)
LoadSeen(p) ==
  /\ \/ /\ Redis
        /\ seen' = [seen EXCEPT ![p] = LoadFile(p) \cup mirror[p]]
        /\ belief' = [belief EXCEPT ![p] = mirror[p]]
        /\ redated' = [redated EXCEPT ![p] = {}]
        /\ UNCHANGED <<down, faults>>
     \/ /\ Redis /\ Fault
        /\ seen' = [seen EXCEPT ![p] = LoadFile(p)]
        /\ down' = TRUE
        /\ UNCHANGED <<belief, redated>>
     \/ /\ ~Redis
        /\ seen' = [seen EXCEPT ![p] = LoadFile(p)]
        /\ UNCHANGED <<belief, redated, down, faults>>
  /\ UNCHANGED <<file, mirror>>

\* History: the published entries that a load misses.  The file does not hold
\* them and Redis does not either, or was not asked, or did not answer: a mirror
\* that stands down is no help, whatever it still holds.
Unanswer(p) ==
  LET held == LoadFile(p) \cup (IF down' THEN {} ELSE mirror[p])
  IN unanswered' = (unanswered \ Kept(p)) \cup {e \in Kept(p) \ held : published[e] > 0}

Pruned(p) == seen[p] \ old

\* The difference with _mirrored, by entry and date.
Changed(p) == Pruned(p) \ (belief[p] \ redated[p])
Removed(p) == belief[p] \ Pruned(p)

\* _sync_redis: one transaction with the difference; an error may come after
\* it was applied, and only a success moves _mirrored.
SyncRedis(p) ==
  LET changed == Changed(p)
      removed == Removed(p)
      written == [mirror EXCEPT ![p] = (@ \cup changed) \ removed]
  IN \/ /\ ~Redis \/ changed \cup removed = {}
        /\ UNCHANGED <<mirror, belief, redated, down, faults>>
     \/ /\ Redis /\ changed \cup removed # {}
        /\ mirror' = written
        /\ belief' = [belief EXCEPT ![p] = Pruned(p)]
        /\ redated' = [redated EXCEPT ![p] = {}]
        /\ UNCHANGED <<down, faults>>
     \/ /\ Redis /\ changed \cup removed # {} /\ Fault
        /\ mirror' \in {mirror, written}
        /\ down' = TRUE
        /\ UNCHANGED <<belief, redated>>

\* save_seen.  Old entries leave the file and the mirror, not the memory.
SaveSeen(p) ==
  /\ file' = [file EXCEPT ![p] = Pruned(p)]
  /\ SyncRedis(p)

\* The file cannot be written: save_seen raises before it mirrors.
SaveSeenFails == Fault /\ UNCHANGED <<file, mirror, belief, redated, down>>

\* publish_filing: a Redis error is swallowed, the caller cannot tell.
Publish(e) ==
  /\ published' = [published EXCEPT ![e] = IF e \in unanswered \/ @ = 2 THEN @ ELSE @ + 1]
  /\ unanswered' = unanswered \ {e}

\* The wires' `seen[key] = now` dates an entry anew that was lost to the memory
\* and is still in _mirrored; a filing has the date its entry carries, the same
\* each time.
MarkSeen(p, e) ==
  /\ seen' = [seen EXCEPT ![p] = @ \cup {e}]
  /\ redated' = [redated EXCEPT ![p] = @ \cup ({e} \cap belief[p] \cap Releases)]

\* The minute after an error is over.
StandUp ==
  /\ down
  /\ down' = FALSE
  /\ UNCHANGED <<seen, file, mirror, belief, redated, old, published, unanswered, evicted, faults>>

\* Redis loses a hash.
Evict(p) ==
  /\ mirror[p] # {}
  /\ Fault
  /\ mirror' = [mirror EXCEPT ![p] = {}]
  /\ evicted' = TRUE
  /\ UNCHANGED <<seen, file, belief, redated, down, old, published, unanswered>>

StoreInit ==
  /\ seen = [p \in Paths |-> {}]
  /\ file = [p \in Paths |-> Missing]
  /\ mirror = [p \in Paths |-> {}]
  /\ belief = [p \in Paths |-> {}]
  /\ redated = [p \in Paths |-> {}]
  /\ down = FALSE
  /\ old = {}
  /\ published = [e \in Entries |-> 0]
  /\ unanswered = {}
  /\ evicted = FALSE
  /\ faults = 0

\* The process dies and comes up again; a deploy wipes its disk.
StoreRestart(wiped) ==
  /\ Fault
  /\ seen' = [p \in Paths |-> {}]
  /\ belief' = [p \in Paths |-> {}]
  /\ redated' = [p \in Paths |-> {}]
  /\ file' = IF wiped THEN [p \in Paths |-> Missing] ELSE file
  /\ down' = FALSE
  /\ UNCHANGED <<mirror, old, published, unanswered, evicted>>
=============================================================================
