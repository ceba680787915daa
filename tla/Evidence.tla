------------------------------ MODULE Evidence ------------------------------
(***************************************************************************)
(* From a model's quotes to proof (services/ingest/evidence.py and         *)
(* text_fragment.py): each quote is located in a document by its shingles, *)
(* snapped to the document's own words, and linked to by a text fragment.  *)
(* A document is a sequence of words, already folded, and the places where *)
(* a block ends; a fragment is one or two runs of words.                   *)
(***************************************************************************)
EXTENDS Naturals, Integers, Sequences, FiniteSets, FiniteSetsExt

CONSTANTS
  Words,           \* of the documents and the quotes, folded
  Docs,            \* Seq of [url, words, breaks]: break p is between words p and p + 1;
                   \* the primary document, then the exhibits, no words if not loaded
  Quotes,          \* what the model may cite; not a string, or a blank one, is <<>>
  Shingle,         \* SHINGLE_SIZE
  MinPercent,      \* MIN_COVERAGE
  MaxEvidence,     \* MAX_EVIDENCE
  MaxExact,        \* MAX_EXACT_CHARS, in words
  MinSnippet, MaxSnippet,
  MaxDirective,    \* MAX_DIRECTIVE_CHARS, in words
  Begins, Ends, Within   \* <<w, v>>: v is another word that begins with, ends with, holds w

ASSUME EvidenceAssumption ==
  /\ \A files \in Docs :
       files \in Seq([url : BOOLEAN, words : Seq(Words), breaks : SUBSET Nat])
  /\ Quotes \subseteq Seq(Seq(Words))
  /\ Shingle \in Nat \ {0} /\ MinPercent \in Nat /\ MaxEvidence \in Nat
  /\ MaxExact \in Nat /\ MinSnippet \in Nat \ {0} /\ MaxSnippet \in Nat

VARIABLES
  docs,            \* the filing's documents
  cited,           \* quotes still to resolve
  evidence         \* Seq of [quote, doc, lo, hi, link]

evidenceVars == <<docs, cited, evidence>>

NoLink == <<>>

-----------------------------------------------------------------------------
\* _cited_quotes: the first entries, without their labels; a blank quote, which
\* the code leaves out here, is one that no document holds.
CitedQuotes(raw) == SubSeq(raw, 1, Min({2 * MaxEvidence, Len(raw)}))

\* _source_docs: the documents that are loaded and can be linked to, by their
\* places, best first.
SourceDocs == {i \in 1 .. Len(docs) : docs[i].url /\ docs[i].words # <<>>}

-----------------------------------------------------------------------------
\* Where in d the quote's i-th shingle is found when word 1 of it is at a + 1.
Hits(d, q, a) ==
  {i \in 1 .. Len(q) - Shingle + 1 :
     /\ a + i \in 1 .. Len(d.words) - Shingle + 1
     /\ \A k \in 0 .. Shingle - 1 : d.words[a + i + k] = q[i + k]}

Alignments(d, q) == {a \in -Len(q) .. Len(d.words) : Hits(d, q, a) # {}}

\* The alignment with the most hits, the earliest of them on a tie.
Alignment(d, q) ==
  CHOOSE a \in Alignments(d, q) :
    \A b \in Alignments(d, q) \ {a} :
      \/ Cardinality(Hits(d, q, a)) > Cardinality(Hits(d, q, b))
      \/ Cardinality(Hits(d, q, a)) = Cardinality(Hits(d, q, b)) /\ a < b

Coverage(d, q) ==
  (100 * Cardinality(Hits(d, q, Alignment(d, q)))) \div (Len(q) - Shingle + 1)

Located(d, q) ==
  /\ Len(q) >= Shingle
  /\ Alignments(d, q) # {}
  /\ Coverage(d, q) >= MinPercent

\* _widen: outwards while the document still reads as the quote does.
Span(d, q) ==
  LET a == Alignment(d, q)
      Same(p) == p \in 1 .. Len(d.words) /\ p - a \in 1 .. Len(q) /\ d.words[p] = q[p - a]
      lo == a + Min(Hits(d, q, a))
      hi == a + Max(Hits(d, q, a)) + Shingle - 1
  IN <<Min({l \in 1 .. lo : \A p \in l .. lo - 1 : Same(p)}),
       Max({h \in hi .. Len(d.words) : \A p \in hi + 1 .. h : Same(p)})>>

-----------------------------------------------------------------------------
\* Words lo to hi of d, with the block ends between them.
Text(d, lo, hi) == <<SubSeq(d.words, lo, hi), {b - lo : b \in d.breaks \cap (lo .. hi - 1)}>>

\* _matches: where the words w are found from a place on, within one block; the first
\* may be the end of a word there, the last the beginning of one.
Found(d, w, from) ==
  LET n == Len(w)
      Is(p, x, parts) == d.words[p] = x \/ <<x, d.words[p]>> \in parts
  IN {p \in from .. Len(d.words) - n + 1 :
        /\ IF n = 1 THEN Is(p, w[1], Within)
           ELSE /\ Is(p, w[1], Ends) /\ Is(p + n - 1, w[n], Begins)
                /\ \A k \in 2 .. n - 1 : d.words[p + k - 1] = w[k]
        /\ d.breaks \cap (p .. p + n - 2) = {}}

\* _simulate: what a browser highlights, <<>> if nothing.
Highlight(d, link) ==
  LET heads == Found(d, link[1], 1)
      tails == Found(d, link[2], Min(heads) + Len(link[1]))
  IN CASE heads = {} -> <<>>
       [] heads # {} /\ Len(link) = 1 -> <<Min(heads), Min(heads) + Len(link[1]) - 1>>
       [] heads # {} /\ Len(link) = 2 ->
            IF tails = {} THEN <<>> ELSE <<Min(heads), Min(tails) + Len(link[2]) - 1>>

\* What is read there: of its first and last words, what the link has of them.
Reads(d, link) ==
  LET h == Highlight(d, link)
      text == Text(d, h[1], h[2])
      last == link[Len(link)]
  IN <<[text[1] EXCEPT ![1] = link[1][1], ![Len(text[1])] = last[Len(last)]], text[2]>>

\* _candidates: the whole quote, or n words from its first block and n from
\* its last, in the order they are tried.
Candidates(d, lo, hi) ==
  LET inside == d.breaks \cap (lo .. hi - 1)
      headEnd == IF inside = {} THEN hi ELSE Min(inside)
      tailStart == IF inside = {} THEN lo ELSE Max(inside) + 1
      Fits(n) == /\ headEnd - lo + 1 >= n /\ hi - tailStart + 1 >= n
                 /\ inside = {} => headEnd - lo + 1 >= 2 * n
      tries == {n \in MinSnippet .. MaxSnippet : \A m \in MinSnippet .. n : Fits(m)}
      ends == [i \in 1 .. Cardinality(tries) |->
                 LET n == MinSnippet + i - 1
                 IN <<SubSeq(d.words, lo, lo + n - 1), SubSeq(d.words, hi - n + 1, hi)>>]
  IN (IF inside = {} /\ hi - lo + 1 <= MaxExact THEN <<<<SubSeq(d.words, lo, hi)>>>> ELSE <<>>)
       \o ends

\* Mutant: the first candidate will do.
LinkMutant(d, lo, hi) ==
  IF Candidates(d, lo, hi) = <<>> THEN NoLink ELSE Candidates(d, lo, hi)[1]

\* How long a fragment is, in words.
Size(link) == FoldSet(LAMBDA k, n : Len(link[k]) + n, 0, 1 .. Len(link))

\* build: the first candidate, not too long, that highlights text reading as the quote.
Link(d, lo, hi) ==
  LET c == Candidates(d, lo, hi)
      lands == {i \in 1 .. Len(c) :
                  /\ Size(c[i]) <= MaxDirective
                  /\ Highlight(d, c[i]) # <<>> /\ Reads(d, c[i]) = Text(d, lo, hi)}
  IN IF lands = {} THEN NoLink ELSE c[Min(lands)]

-----------------------------------------------------------------------------
\* The document that covers the quote best, the first of them.
BestDoc(q) ==
  LET found == {i \in SourceDocs : Located(docs[i], q)}
  IN IF found = {} THEN 0
     ELSE Min({i \in found : \A j \in found : Coverage(docs[j], q) <= Coverage(docs[i], q)})

\* Some entry already shows words of this passage.
Claimed(i, span) ==
  \E k \in 1 .. Len(evidence) :
    /\ evidence[k].doc = i
    /\ span[1] <= evidence[k].hi /\ evidence[k].lo <= span[2]

\* resolve_evidence, one quote: kept with its link, or dropped.
ResolveQuote ==
  /\ cited # <<>>
  /\ cited' = Tail(cited)
  /\ LET q == Head(cited)
         i == BestDoc(q)
         span == Span(docs[i], q)
     IN IF Len(evidence) >= MaxEvidence \/ i = 0 \/ Claimed(i, span)
        THEN UNCHANGED evidence
        ELSE evidence' = Append(evidence,
               [quote |-> q, doc |-> i, lo |-> span[1], hi |-> span[2],
                link |-> Link(docs[i], span[1], span[2])])
  /\ UNCHANGED docs

\* An exception on the way costs the quotes and nothing else.
EvidenceFails == cited # <<>> /\ cited' = <<>> /\ evidence' = <<>> /\ UNCHANGED docs

\* _evidence begins.
EvidenceInit ==
  /\ docs \in Docs
  /\ cited \in {CitedQuotes(raw) : raw \in Quotes}
  /\ evidence = <<>>
NoEvidence == docs = <<>> /\ cited = <<>> /\ evidence = <<>>

-----------------------------------------------------------------------------
Shingles(s) == {SubSeq(s, i, i + Shingle - 1) : i \in 1 .. Len(s) - Shingle + 1}

\* At least MinPercent of the quote's shingles are read in the passage, and
\* the passage is no longer than the quote.
Supported(d, e) ==
  LET passage == SubSeq(d.words, e.lo, e.hi)
      places == 1 .. Len(e.quote) - Shingle + 1
      read == {i \in places : SubSeq(e.quote, i, i + Shingle - 1) \in Shingles(passage)}
  IN /\ 100 * Cardinality(read) >= MinPercent * Cardinality(places)
     /\ Len(passage) <= Len(e.quote)

\* A browser that follows the link shows text that reads as the passage.
LinkLands(d, e) ==
  e.link # NoLink => Highlight(d, e.link) # <<>> /\ Reads(d, e.link) = Text(d, e.lo, e.hi)

Apart(e, f) == e.doc # f.doc \/ e.hi < f.lo \/ f.hi < e.lo

(***************************************************************************)
(* Evidence is proof: every quote shown is a passage of the document that  *)
(* enough of the model's quote supports and that does not run past it, its *)
(* link highlights text that reads so although a browser takes the first   *)
(* match it finds, which may begin or end within a word, and no passage is *)
(* shown twice (evidence.py:165-300, text_fragment.py:6-29, 132-234).      *)
(***************************************************************************)
EvidenceIsProof ==
  /\ Len(evidence) <= MaxEvidence
  /\ \A i \in 1 .. Len(evidence) :
       LET e == evidence[i] IN Supported(docs[e.doc], e) /\ LinkLands(docs[e.doc], e)
  /\ \A i, j \in 1 .. Len(evidence) : i < j => Apart(evidence[i], evidence[j])
=============================================================================
