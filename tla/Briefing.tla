------------------------------ MODULE Briefing ------------------------------
(***************************************************************************)
(* The language model's part of ingest (services/ingest/briefing.py,       *)
(* press_release/materiality.py): a job asks the models of a chain in turn *)
(* under a shared pool of keys; a filing falls back to the facts, a        *)
(* release is dropped, retried by its loop or becomes an event.            *)
(***************************************************************************)
EXTENDS Naturals, Sequences, FiniteSets, FiniteSetsExt, SequencesExt

CONSTANTS
  Threads,         \* workers that run generate_briefing or process_release
  Filings,         \* [items : Seq of [number, chars], exhibits : Seq of [release, chars]]
  Configured,      \* GROQ_MODELS, best first, or <<>>
  NKeys,
  Faults,          \* how a completion may fail: "rate" and "gone" are Groq's 429 and
                   \* 404, "rejected" a 400, "down" anything else
  Replies,         \* [insufficient, ours, primary, types : Seq of labels or NoLabels]
  NoLabels,        \* "event_types": null
  MinSource,       \* _MIN_SOURCE_CHARS
  MaxJobs          \* bound: jobs taken

ASSUME BriefingAssumption ==
  /\ Configured \in Seq(STRING)
  /\ Faults \subseteq {"rate", "gone", "empty", "garbled", "rejected", "down"}
  /\ \A r \in Replies : r.insufficient \in BOOLEAN /\ r.ours \in BOOLEAN

VARIABLES
  job,             \* what each thread is at
  nextKey,         \* of the round-robin pool
  taken

briefingVars == <<job, nextKey, taken>>

\* A thread's job: its filing or release, what was read of it (chars; body and
\* match), the model being asked, the attempts that failed, the answer, what it
\* came to.
Nothing == [mode |-> "nothing"]
Idle == [pc |-> "idle", kind |-> "none", input |-> Nothing, chars |-> 0,
         body |-> Nothing, match |-> Nothing, pos |-> 1, plain |-> FALSE,
         tried |-> <<>>, reply |-> <<>>, out |-> Nothing]
Free(t) == job[t].pc \in {"idle", "done"} /\ taken < MaxJobs
Ask(j) == [j EXCEPT !.pc = "ask"]
Done(j, out) == [j EXCEPT !.pc = "done", !.out = out]

-----------------------------------------------------------------------------
\* _load_model_chain: GROQ_MODELS, or the default; those sent extra fields.
Chain ==
  IF Configured # <<>> THEN Configured
  ELSE <<"openai/gpt-oss-120b", "openai/gpt-oss-20b", "qwen/qwen3.6-27b">>
Extras == {"openai/gpt-oss-120b", "openai/gpt-oss-20b"}

EventTypes ==
  {"Acquisition", "Material Agreement", "Earnings", "Bankruptcy", "Debt / Financing",
   "Restructuring", "Leadership Change", "Delisting", "Restatement", "Cybersecurity Incident",
   "Regulatory / Clinical", "Other"}

\* _ITEM_EVENT_TYPES: the items that say what they are.
ItemTypes ==
  "1.01" :> "Material Agreement" @@ "1.02" :> "Material Agreement" @@ "1.03" :> "Bankruptcy"
    @@ "1.05" :> "Cybersecurity Incident" @@ "2.01" :> "Acquisition" @@ "2.02" :> "Earnings"
    @@ "2.03" :> "Debt / Financing" @@ "2.05" :> "Restructuring" @@ "3.01" :> "Delisting"
    @@ "4.02" :> "Restatement" @@ "5.02" :> "Leadership Change"

Known(raw) == SelectSeq(raw, LAMBDA l : l \in EventTypes)
FirstThree(s) == SubSeq(s, 1, Min({3, Len(s)}))
ValidTypes(raw) == IF Known(raw) = <<>> THEN <<"Other">> ELSE FirstThree(Known(raw))

\* facts_only_briefing: what the item numbers say.
FactsTypes(f) ==
  LET Add(types, i) ==
        IF i.number \in DOMAIN ItemTypes /\ ~Contains(types, ItemTypes[i.number])
        THEN Append(types, ItemTypes[i.number]) ELSE types
      types == FoldLeft(Add, <<>>, f.items)
  IN IF types = <<>> THEN <<"Other">> ELSE FirstThree(types)

\* The label the release is filed under is one of those it is listed under.
ReleaseTypes(r) ==
  LET primary == IF r.primary \in EventTypes THEN r.primary ELSE "Other"
      types == ValidTypes(r.types)
  IN IF Contains(types, primary) THEN types ELSE FirstThree(<<primary>> \o types)

FactsOnly(f) == [mode |-> "facts_only", types |-> FactsTypes(f)]
ByModel(types) == [mode |-> "llm", types |-> types]
Drop == [mode |-> "drop"]
Raised == [mode |-> "raised"]

\* _process_entry: the first three press-release exhibits, those that load.
Fetchable(f) ==
  LET all == {i \in 1 .. Len(f.exhibits) : f.exhibits[i].release}
  IN {i \in all : Cardinality({k \in all : k < i}) < 3}

Substance(f, read) ==
  MapThenSumSet(LAMBDA i : f.items[i].chars, 1 .. Len(f.items))
    + MapThenSumSet(LAMBDA i : f.exhibits[i].chars, read)

StartFiling(t, f) ==
  /\ Free(t)
  /\ taken' = taken + 1
  /\ \E read \in SUBSET Fetchable(f) :
       LET j == [Idle EXCEPT !.kind = "filing", !.input = f, !.chars = Substance(f, read)]
       IN job' = [job EXCEPT ![t] =
            IF j.chars < MinSource THEN Done(j, FactsOnly(f)) ELSE Ask(j)]
  /\ UNCHANGED nextKey

-----------------------------------------------------------------------------
\* _next_api_key, of the keys the environment gives.
NextKey == (nextKey % NKeys) + 1

\* One completion: its key comes from the pool, the plain retry keeps it.
Completing(t) ==
  /\ job[t].pc = "ask"
  /\ nextKey' = IF job[t].plain THEN nextKey ELSE NextKey
  /\ UNCHANGED taken

Model(j) == Chain[j.pos]
Failing(j, e) == [j EXCEPT !.tried = Append(@, [model |-> Model(j), plain |-> j.plain, why |-> e])]

\* Mutant: an empty completion is not the model's fault.
FallthroughMutant(e) == e \in {"rate", "gone", "garbled"}

\* _fallthrough_reason: the fault is this model's own.
Fallthrough(e) == e \in {"rate", "gone", "empty", "garbled"}

NotTheLast(j) == Model(j) # Last(Chain)
DropsExtras(j, e) == e = "rejected" /\ Model(j) \in Extras /\ ~j.plain

\* The extra fields are refused: the same model again, without them.
RetryPlain(t) ==
  /\ Completing(t)
  /\ DropsExtras(job[t], "rejected")
  /\ job' = [job EXCEPT ![t] = [Failing(@, "rejected") EXCEPT !.plain = TRUE]]

NextModel(t, e) ==
  /\ Completing(t)
  /\ Fallthrough(e) /\ NotTheLast(job[t])
  /\ LET j == Failing(job[t], e)
     IN job' = [job EXCEPT ![t] = [j EXCEPT !.pos = @ + 1, !.plain = FALSE]]

\* The call raises: a filing is briefed from the facts, a release is retried.
Raises(t, e) ==
  /\ Completing(t)
  /\ ~DropsExtras(job[t], e) /\ ~(Fallthrough(e) /\ NotTheLast(job[t]))
  /\ LET j == Failing(job[t], e)
     IN job' = [job EXCEPT ![t] =
          Done(j, IF j.kind = "filing" THEN FactsOnly(j.input) ELSE Raised)]

\* What an answer makes of a filing; labels that are no list raise.
FilingBriefed(f, r) ==
  CASE r.insufficient -> FactsOnly(f)
    [] ~r.insufficient /\ r.types = NoLabels -> Raised
    [] OTHER -> ByModel(ValidTypes(r.types))

ReleaseBriefed(r) ==
  CASE r.insufficient \/ ~r.ours -> Drop
    [] ~r.insufficient /\ r.ours /\ r.types = NoLabels -> Raised
    [] OTHER -> ByModel(ReleaseTypes(r))

Answers(t, r) ==
  /\ Completing(t)
  /\ LET j == [job[t] EXCEPT !.reply = <<r>>]
     IN job' = [job EXCEPT ![t] =
          Done(j, IF j.kind = "filing" THEN FilingBriefed(j.input, r) ELSE ReleaseBriefed(r))]

ModelStep(t) ==
  \/ RetryPlain(t)
  \/ \E e \in Faults : NextModel(t, e) \/ Raises(t, e)
  \/ \E r \in Replies : Answers(t, r)

BriefingInit ==
  /\ job = [t \in Threads |-> Idle]
  /\ nextKey = 1
  /\ taken = 0

-----------------------------------------------------------------------------
(***************************************************************************)
(* The facts alone are the last resort: a filing is published without a    *)
(* narrative only if what could be read of it is too thin, the model said  *)
(* so, every model of the chain failed for a reason of its own, or one     *)
(* failed in a way the next would too - and never because a model refused  *)
(* fields it was not asked again without (briefing.py:484-533, 648-676).   *)
(***************************************************************************)
Untold(j) ==
  \/ j.chars < MinSource
  \/ j.reply # <<>> /\ j.reply[1].insufficient
  \/ \A m \in Range(Chain) :
       \E k \in 1 .. Len(j.tried) : j.tried[k].model = m /\ Fallthrough(j.tried[k].why)
  \/ /\ j.tried # <<>>
     /\ LET last == Last(j.tried)
        IN \/ last.why = "down"
           \/ last.why = "rejected" /\ (last.plain \/ last.model \notin Extras)

FactsOnlyIsLastResort ==
  \A t \in Threads :
    job[t].pc = "done" /\ job[t].kind = "filing" /\ job[t].out.mode = "facts_only"
      => Untold(job[t])
=============================================================================
