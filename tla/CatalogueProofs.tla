-------------------------- MODULE CatalogueProofs --------------------------
(***************************************************************************)
(* What TLAPS proves of the feed as readers page and filter it, for any    *)
(* companies, events, page size and number of changes underneath.          *)
(***************************************************************************)
EXTENDS Catalogue, FiniteSetTheorems, SequenceTheorems, TLAPS

\* Whatever the catalogue does, it is a step of the feed or leaves it alone.
LEMMA CatalogueIsFeed ==
  /\ Init => FeedsInit \/ NoFeeds
  /\ [Next]_vars => [FeedsNext]_feedsVars
<1>1. Init => FeedsInit \/ NoFeeds
  BY DEF Init
<1>2. [Next]_vars => [FeedsNext]_feedsVars
  BY DEF Next, vars
<1> QED
  BY <1>1, <1>2

(***************************************************************************)
(* Paging.                                                                 *)
(***************************************************************************)

\* An event is received once.
StoredOK ==
  /\ stored \in Seq(Posts)
  /\ \A i, j \in DOMAIN stored : stored[i] = stored[j] => i = j

\* Nothing chosen that an event may stop to meet.
Steady(f) ==
  f.sector = {} /\ f.industry = {} /\ f.cap = {} /\ f.since = "" /\ f.moved = ""

\* What was there at the start is still in the view, and what stands before the
\* end of the last page that was read was shown.
ScrollOK ==
  /\ scroll.page \in Nat
  /\ scroll = NotScrolling \/ scroll.page > 0
  /\ scroll # NotScrolling /\ Lasting(scroll.filter) =>
       LET f == Parsed(scroll.filter) IN
       /\ scroll.due \subseteq Apply(f, "none")
       /\ \A e \in scroll.due :
            Place(f, e) < scroll.page * PerPage => e \in scroll.shown
       /\ scroll.done => scroll.due \subseteq scroll.shown

ScrollInv == StoredOK /\ ScrollOK

LEMMA LastingIsSteady ==
  ASSUME NEW raw, Lasting(raw), Means("") = ""
  PROVE  Steady(Parsed(raw))
BY DEF Lasting, Steady, Parsed, Meant, Get, Default

LEMMA StoredGrows ==
  ASSUME StoredOK, NEW e \in Posts \ Range(stored), stored' = Append(stored, e)
  PROVE  /\ StoredOK'
         /\ DOMAIN stored \subseteq DOMAIN stored'
         /\ \A i \in DOMAIN stored : stored'[i] = stored[i]
<1>1. /\ stored \in Seq(Posts) /\ stored' \in Seq(Posts)
      /\ Len(stored') = Len(stored) + 1 /\ stored'[Len(stored) + 1] = e
      /\ \A i \in 1 .. Len(stored) : stored'[i] = stored[i]
  BY DEF StoredOK
<1>2. DOMAIN stored = 1 .. Len(stored) /\ DOMAIN stored' = 1 .. Len(stored')
  BY <1>1
<1>3. \A i \in DOMAIN stored : stored[i] # e
  BY DEF Range
<1>4. Len(stored) \in Nat
  BY <1>1
<1> QED
  BY <1>1, <1>2, <1>3, <1>4 DEF StoredOK

\* The stored events only grow, in place.
Grows ==
  /\ DOMAIN stored \subseteq DOMAIN stored'
  /\ \A i \in DOMAIN stored : stored'[i] = stored[i]

LEMMA SequencesAreFinite ==
  ASSUME NEW S, NEW s \in Seq(S)
  PROVE  IsFiniteSet(Range(s)) /\ Range(s) \subseteq S
<1>1. Range(s) \subseteq S /\ DOMAIN s = 1 .. Len(s) /\ Len(s) \in Nat
  BY DEF Range
<1>2. IsFiniteSet(1 .. Len(s))
  BY <1>1, FS_Interval
<1>3. s \in [1 .. Len(s) -> Range(s)]
  BY <1>1 DEF Range
<1>4. s \in Surjection(1 .. Len(s), Range(s))
  BY <1>1, <1>3 DEF Surjection, Range
<1> QED
  BY <1>1, <1>2, <1>4, FS_Surjection

LEMMA ViewsAreFinite ==
  ASSUME StoredOK, NEW f
  PROVE  Apply(f, "none") \subseteq Posts /\ IsFiniteSet(Apply(f, "none"))
<1>1. IsFiniteSet(Range(stored)) /\ Range(stored) \subseteq Posts
  BY SequencesAreFinite DEF StoredOK
<1>2. Apply(f, "none") \subseteq Range(stored)
  BY DEF Apply, Scope
<1> QED
  BY <1>1, <1>2, FS_Subset

LEMMA ViewGrows ==
  ASSUME NEW f, Steady(f), StoredOK, Grows
  PROVE  Apply(f, "none") \subseteq Apply(f, "none")'
<1>1. Range(stored) \subseteq Range(stored') /\ Range(stored) \subseteq Posts
  BY DEF Grows, Range, StoredOK
<1>2. ASSUME NEW e \in Apply(f, "none")
      PROVE  e \in Apply(f, "none")'
  <2>1. e \in Scope(f) /\ e \in Posts
    BY <1>1 DEF Apply, Scope
  <2>2. e \in Scope(f)'
    BY <1>1, <2>1 DEF Scope
  <2>3. Keeps(f, e, "none")
    BY <2>1 DEF Apply
  <2>4. Keeps(f, e, "none")'
    BY <2>3 DEF Keeps, Steady, Important
  <2> QED
    BY <2>2, <2>4 DEF Apply
<1> QED
  BY <1>2

\* An event never moves up in a view that none leaves.
LEMMA PlaceGrows ==
  ASSUME NEW f, Steady(f), StoredOK, StoredOK', Grows, NEW e
  PROVE  /\ Place(f, e) \in Nat /\ Place(f, e)' \in Nat
         /\ Place(f, e) <= Place(f, e)'
<1> DEFINE S == {a \in Apply(f, "none") : Newer(f, a, e)}
           T == {a \in Apply(f, "none")' : Newer(f, a, e)'}
<1>1. IsFiniteSet(Apply(f, "none"))
  BY ViewsAreFinite
<1>2. IsFiniteSet(Apply(f, "none")')
  <2>1. IsFiniteSet(Range(stored'))
    BY SequencesAreFinite DEF StoredOK
  <2>2. Apply(f, "none")' \subseteq Range(stored')
    BY DEF Apply, Scope
  <2> QED
    BY <2>1, <2>2, FS_Subset
<1>3. Apply(f, "none") \subseteq Apply(f, "none")'
  BY ViewGrows
<1>4. \A a : Newer(f, a, e) => Newer(f, a, e)'
  BY DEF Newer, Grows
<1>5. S \subseteq T
  BY <1>3, <1>4
<1>6. IsFiniteSet(S) /\ IsFiniteSet(T)
  BY <1>1, <1>2, FS_Subset
<1>7. Cardinality(S) <= Cardinality(T)
  BY <1>5, <1>6, FS_Subset
<1>8. Cardinality(S) \in Nat /\ Cardinality(T) \in Nat
  BY <1>6, FS_CardinalityType
<1> QED
  BY <1>7, <1>8 DEF Place

\* Every event of a view has fewer events before it than the view holds.
LEMMA PlaceIsInside ==
  ASSUME NEW f, StoredOK, NEW e \in Apply(f, "none")
  PROVE  /\ Place(f, e) \in Nat /\ Cardinality(Apply(f, "none")) \in Nat
         /\ Place(f, e) < Cardinality(Apply(f, "none"))
<1> DEFINE V == Apply(f, "none")
           S == {a \in V : Newer(f, a, e)}
<1>1. IsFiniteSet(V) /\ V \subseteq Posts
  BY ViewsAreFinite
<1>2. ~Newer(f, e, e)
  <2>1. CASE f.scope = "mine"
    BY <2>1, <1>1, FeedsAssumption DEF Newer
  <2>2. CASE f.scope # "mine"
    <3>1. \A i, j \in DOMAIN stored : stored[i] = e /\ stored[j] = e => ~(i > j)
      BY DEF StoredOK
    <3> QED
      BY <2>2, <3>1 DEF Newer
  <2> QED
    BY <2>1, <2>2
<1>3. S \subseteq V /\ S # V
  BY <1>2
<1> HIDE DEF V
<1>4. IsFiniteSet(S) /\ Cardinality(S) <= Cardinality(V) /\ Cardinality(S) # Cardinality(V)
  BY <1>1, <1>3, FS_Subset
<1>5. Cardinality(S) \in Nat /\ Cardinality(V) \in Nat
  BY <1>1, <1>4, FS_CardinalityType
<1> QED
  BY <1>4, <1>5 DEF Place, V

\* The page after `page` holds what stands from there on.
LEMMA NextItems ==
  ASSUME NEW f, NEW page \in Nat, NEW e \in Apply(f, "none"),
         page * PerPage <= Place(f, e), Place(f, e) < (page + 1) * PerPage
  PROVE  e \in Items(f, page + 1)
<1>1. PICK next : next = page + 1
  OBVIOUS
<1>2. next - 1 = page
  BY <1>1
<1>3. Place(f, e) < next * PerPage
  BY <1>1
<1>4. e \in Items(f, next)
  BY <1>2, <1>3, Zenon DEF Items
<1> QED
  BY <1>1, <1>4

\* The step that reads a page: what was due is on it, or was shown before.
LEMMA PageShows ==
  ASSUME ScrollInv, Page
  PROVE  ScrollInv'
<1> PICK raw \in Views, stale \in BOOLEAN :
      /\ scroll = NotScrolling \/ scroll.filter = raw
      /\ LET f == Parsed(raw)
             page == scroll.page + 1
         IN scroll' = [filter |-> raw, page |-> page,
                       due |-> IF page = 1 THEN Apply(f, "none") ELSE scroll.due,
                       shown |-> scroll.shown \cup Items(f, page),
                       done |-> ~HasMore(f, page)]
  BY DEF Page
<1> PICK f : f = Parsed(raw)
  OBVIOUS
<1> DEFINE n == scroll.page * PerPage
           m == (scroll.page + 1) * PerPage
<1>1. UNCHANGED <<stored, reacted, edge, firm>>
  BY DEF Page
<1>2. StoredOK'
  BY <1>1 DEF ScrollInv, StoredOK
<1>4. /\ scroll'.filter = raw /\ scroll'.page = scroll.page + 1
      /\ scroll'.due = (IF scroll.page + 1 = 1 THEN Apply(f, "none") ELSE scroll.due)
      /\ scroll'.shown = scroll.shown \cup Items(f, scroll.page + 1)
      /\ scroll'.done = ~HasMore(f, scroll.page + 1)
  OBVIOUS
<1>5. scroll.page \in Nat /\ PerPage \in Nat \ {0} /\ n \in Nat /\ m \in Nat
  BY FeedsAssumption DEF ScrollInv, ScrollOK
<1>6. ASSUME NEW e \in Apply(f, "none"), n <= Place(f, e), Place(f, e) < m
      PROVE  e \in Items(f, scroll.page + 1)
  BY <1>5, <1>6, NextItems DEF n, m
<1>7. scroll.page = 0 => n = 0
  BY <1>5
<1> HIDE DEF n, m
<1>8. ASSUME Lasting(raw)
      PROVE  /\ scroll'.due \subseteq Apply(f, "none")
             /\ \A e \in scroll'.due : Place(f, e) < m => e \in scroll'.shown
             /\ scroll'.done => scroll'.due \subseteq scroll'.shown
  <2>1. scroll'.due \subseteq Apply(f, "none")
    <3>1. CASE scroll.page = 0
      BY <3>1, <1>4
    <3>2. CASE scroll.page # 0
      <4>1. scroll # NotScrolling
        BY <3>2 DEF NotScrolling
      <4>2. scroll.filter = raw
        BY <4>1
      <4> QED
        BY <1>8, <1>4, <1>5, <3>2, <4>1, <4>2 DEF ScrollInv, ScrollOK, n
    <3> QED
      BY <3>1, <3>2
  <2>2. ASSUME NEW e \in scroll'.due, Place(f, e) < m PROVE e \in scroll'.shown
    <3>1. Place(f, e) \in Nat /\ e \in Apply(f, "none")
      BY <2>1, PlaceIsInside DEF ScrollInv
    <3>2. CASE n <= Place(f, e)
      <4>1. e \in Items(f, scroll.page + 1)
        BY <2>2, <3>1, <3>2, <1>6
      <4> QED
        BY <4>1, <1>4
    <3>3. CASE ~(n <= Place(f, e))
      <4>1. Place(f, e) < n
        BY <3>1, <3>3, <1>5
      <4>2. scroll.page # 0
        BY <3>1, <4>1, <1>7
      <4>3. scroll # NotScrolling
        BY <4>2 DEF NotScrolling
      <4>4. scroll.filter = raw /\ e \in scroll.due
        BY <4>2, <4>3, <1>4, <1>5
      <4>5. e \in scroll.shown
        BY <1>8, <4>1, <4>3, <4>4 DEF ScrollInv, ScrollOK, n
      <4> QED
        BY <4>5, <1>4
    <3> QED
      BY <3>2, <3>3
  <2>3. ASSUME scroll'.done, NEW e \in scroll'.due PROVE e \in scroll'.shown
    <3>1. ~(m < Cardinality(Apply(f, "none")))
      BY <2>3, <1>4 DEF HasMore, m
    <3>2. /\ Place(f, e) \in Nat /\ Cardinality(Apply(f, "none")) \in Nat
          /\ Place(f, e) < Cardinality(Apply(f, "none"))
      BY <2>1, PlaceIsInside DEF ScrollInv
    <3>3. Place(f, e) < m
      BY <3>1, <3>2, <1>5
    <3> QED
      BY <2>2, <3>3
  <2> QED
    BY <2>1, <2>2, <2>3
<1>9. Apply(f, "none")' = Apply(f, "none") /\ \A e : Place(f, e)' = Place(f, e)
  <2>1. Apply(f, "none")' = Apply(f, "none")
    BY <1>1 DEF Apply, Scope, Keeps, Important, Cap, Classified
  <2>2. \A a, e : Newer(f, a, e)' = Newer(f, a, e)
    BY <1>1 DEF Newer
  <2> QED
    BY <2>1, <2>2 DEF Place
<1>10. ScrollOK'
  <2>1. scroll'.page \in Nat /\ scroll'.page > 0
    BY <1>4, <1>5
  <2>2. scroll'.page * PerPage = m
    BY <1>4 DEF m
  <2> QED
    BY <1>4, <1>8, <1>9, <2>1, <2>2 DEF ScrollOK
<1> QED
  BY <1>2, <1>10 DEF ScrollInv

\* A step underneath the reader.
LEMMA ScrollKept ==
  ASSUME ScrollInv, scroll' = scroll, Grows, StoredOK'
  PROVE  ScrollInv'
<1> PICK f : f = Parsed(scroll.filter)
  OBVIOUS
<1>1. StoredOK /\ ScrollOK
  BY DEF ScrollInv
<1>2. ASSUME scroll # NotScrolling, Lasting(scroll.filter)
      PROVE  /\ scroll.due \subseteq Apply(f, "none")'
             /\ \A e \in scroll.due :
                  Place(f, e)' < scroll.page * PerPage => e \in scroll.shown
  <2>1. Steady(f)
    BY <1>2, LastingIsSteady, WordsAssumption
  <2>2. Apply(f, "none") \subseteq Apply(f, "none")'
    BY <1>1, <2>1, ViewGrows
  <2>3. ASSUME NEW e \in scroll.due, Place(f, e)' < scroll.page * PerPage
        PROVE  e \in scroll.shown
    <3>1. /\ Place(f, e) \in Nat /\ Place(f, e)' \in Nat
          /\ Place(f, e) <= Place(f, e)'
      BY <1>1, <2>1, PlaceGrows
    <3>2. scroll.page * PerPage \in Nat
      BY <1>1, FeedsAssumption DEF ScrollOK
    <3>3. Place(f, e) < scroll.page * PerPage
      BY <2>3, <3>1, <3>2
    <3> QED
      BY <1>1, <1>2, <3>3 DEF ScrollOK
  <2> QED
    BY <1>1, <1>2, <2>2, <2>3 DEF ScrollOK
<1> QED
  BY <1>1, <1>2 DEF ScrollInv, ScrollOK

LEMMA ScrollSteps == ScrollInv /\ [FeedsNext]_feedsVars => ScrollInv'
<1> SUFFICES ASSUME ScrollInv, [FeedsNext]_feedsVars PROVE ScrollInv'
  OBVIOUS
<1>1. CASE Page
  BY <1>1, PageShows
<1>2. CASE UNCHANGED <<stored, scroll>>
  <2>1. Grows /\ StoredOK'
    BY <1>2 DEF Grows, ScrollInv, StoredOK
  <2> QED
    BY <1>2, <2>1, ScrollKept
<1>3. CASE Receive
  <2> PICK e \in Posts \ Range(stored) : stored' = Append(stored, e)
    BY <1>3 DEF Receive
  <2>1. StoredOK' /\ Grows
    BY StoredGrows DEF ScrollInv, Grows
  <2>2. scroll' = scroll
    BY <1>3 DEF Receive
  <2> QED
    BY <2>1, <2>2, ScrollKept
<1> QED
  BY <1>1, <1>2, <1>3
  DEF FeedsNext, Count, ExpireFacets, React, ResetReactions, Age, Classify, SyncMarketData, SyncPrices, SyncShares, RecomputeCaps,
      feedsVars

LEMMA ScrollInit == Init => ScrollInv
<1> SUFFICES ASSUME Init PROVE ScrollInv
  OBVIOUS
<1>1. scroll = NotScrolling
  BY CatalogueIsFeed DEF FeedsInit, NoFeeds
<1>2. StoredOK
  <2>1. \/ stored = <<>>
        \/ \E s \in Posts \X Posts : s[1] # s[2] /\ stored = s
    BY CatalogueIsFeed DEF FeedsInit, NoFeeds
  <2>2. CASE stored = <<>>
    BY <2>2 DEF StoredOK
  <2>3. ASSUME NEW a \in Posts, NEW b \in Posts, a # b, stored = <<a, b>>
        PROVE  StoredOK
    BY <2>3 DEF StoredOK
  <2> QED
    BY <2>1, <2>2, <2>3
<1> QED
  BY <1>1, <1>2 DEF ScrollInv, ScrollOK, NotScrolling

\* A reader who pages down a view that no event leaves has seen, at its end, all
\* that it held at the start: offsets are cut from a list that only grows, and a
\* list that grows never moves an event up (routes/events.py:47-61).
THEOREM NoneSkipped == Spec => []NothingSkipped
<1>1. ScrollInv => NothingSkipped
  BY DEF ScrollInv, ScrollOK, NothingSkipped
<1>2. ScrollInv /\ [Next]_vars => ScrollInv'
  BY CatalogueIsFeed, ScrollSteps
<1> QED
  BY <1>1, <1>2, ScrollInit, PTL DEF Spec

(***************************************************************************)
(* The filter panel.                                                       *)
(***************************************************************************)

Profile ==
  [sector : Sectors \cup {Unknown}, industry : Industries \cup {Unknown},
   price : Nat \cup {Unknown}, shares : Nat \cup {Unknown}, cap : Nat \cup {Unknown}]

PanelInv == StoredOK /\ firm \in [Firms -> Profile]

LEMMA PanelInit == Init => PanelInv
<1> SUFFICES ASSUME Init PROVE PanelInv
  OBVIOUS
<1>1. firm = [c \in Firms |-> NewFirm] /\ NewFirm \in Profile
  BY CatalogueIsFeed DEF FeedsInit, NoFeeds, NewFirm, Profile
<1> QED
  BY <1>1, ScrollInit DEF ScrollInv, PanelInv

LEMMA PanelSteps ==
  ASSUME PanelInv, [FeedsNext]_feedsVars
  PROVE  (firm \in [Firms -> Profile])'
<1>1. CASE Classify
  <2> PICK c \in Firms, s \in Sectors \cup {Unknown}, i \in Industries \cup {Unknown},
           cap \in Caps \cup {Unknown} :
         firm' = [firm EXCEPT
           ![c].sector = IF s = Unknown THEN @ ELSE s,
           ![c].industry = IF i = Unknown THEN @ ELSE i,
           ![c].cap = IF @ = Unknown /\ cap # Unknown /\ cap > 0 THEN cap ELSE @]
    BY <1>1 DEF Classify
  <2>1. firm[c] \in Profile /\ cap \in Nat \cup {Unknown}
    BY FeedsAssumption DEF PanelInv
  <2>2. PICK p : p = [firm[c] EXCEPT
           !.sector = IF s = Unknown THEN @ ELSE s,
           !.industry = IF i = Unknown THEN @ ELSE i,
           !.cap = IF @ = Unknown /\ cap # Unknown /\ cap > 0 THEN cap ELSE @]
    OBVIOUS
  <2>3. p \in Profile
    BY <2>1, <2>2 DEF Profile
  <2>4. firm' = [firm EXCEPT ![c] = p]
    BY <2>1, <2>2 DEF PanelInv, Profile
  <2> QED
    BY <2>3, <2>4 DEF PanelInv
<1>2. CASE SyncPrices
  <2> PICK price \in [Firms -> Prices \cup {Unknown}], cap \in [Firms -> Caps \cup {Unknown}] :
         /\ capped' = {c \in Firms : price[c] # Unknown /\ cap[c] # Unknown /\ cap[c] > 0}
         /\ firm' = [c \in Firms |->
              IF price[c] = Unknown THEN firm[c]
              ELSE [firm[c] EXCEPT !.price = price[c],
                                   !.cap = IF c \in capped' THEN cap[c] ELSE @]]
    BY <1>2 DEF SyncPrices
  <2>1. ASSUME NEW c \in Firms PROVE firm'[c] \in Profile
    <3>1. firm[c] \in Profile /\ price[c] \in Nat \cup {Unknown} /\ cap[c] \in Nat \cup {Unknown}
      BY FeedsAssumption DEF PanelInv
    <3> QED
      BY <3>1 DEF Profile
  <2> QED
    BY <2>1
<1>3. CASE SyncShares
  <2> PICK count \in [Firms -> Shares \cup {Unknown}] :
         firm' = [c \in Firms |-> IF count[c] = Unknown THEN firm[c]
                                  ELSE [firm[c] EXCEPT !.shares = count[c]]]
    BY <1>3 DEF SyncShares
  <2>1. ASSUME NEW c \in Firms PROVE firm'[c] \in Profile
    <3>1. firm[c] \in Profile /\ count[c] \in Nat \cup {Unknown}
      BY FeedsAssumption DEF PanelInv
    <3> QED
      BY <3>1 DEF Profile
  <2> QED
    BY <2>1
<1>4. CASE RecomputeCaps
  <2>1. ASSUME NEW c \in Firms PROVE firm'[c] \in Profile
    <3>1. firm[c] \in Profile
      BY <2>1 DEF PanelInv
    <3>2. firm'[c] = IF c \in capped \/ Unknown \in {firm[c].shares, firm[c].price} THEN firm[c]
                     ELSE [firm[c] EXCEPT !.cap = (firm[c].shares * firm[c].price) \div Unit]
      BY <1>4 DEF RecomputeCaps
    <3>3. CASE Unknown \notin {firm[c].shares, firm[c].price}
      <4>1. firm[c].shares \in Nat /\ firm[c].price \in Nat
        BY <3>1, <3>3 DEF Profile
      <4>2. firm[c].shares * firm[c].price \in Nat
        BY <4>1
      <4>3. \A x \in Nat : x \div Unit \in Nat
        BY FeedsAssumption
      <4>4. (firm[c].shares * firm[c].price) \div Unit \in Nat
        BY <4>2, <4>3
      <4> QED
        BY <3>1, <3>2, <4>4 DEF Profile
    <3> QED
      BY <3>1, <3>2, <3>3
  <2> QED
    BY <1>4, <2>1 DEF RecomputeCaps
<1> QED
  BY <1>1, <1>2, <1>3, <1>4
  DEF PanelInv, FeedsNext, Page, Count, ExpireFacets, Receive, React, ResetReactions, Age,
      SyncMarketData, feedsVars

Lists == {"event_type", "sector", "industry", "cap", "sentiment"}
Words == {"source", "moved", "since", "q"}
Fields == Lists \cup Words \cup {"scope", "important", "max_tier"}

\* A value in the words of the options: to store it and read it back changes nothing.
Plain(k, v) ==
  /\ k \in Lists => \A word \in v : Means(word) = word
  /\ k \in Words => Means(v) = v

Settled(f) == f = [k \in Fields |-> f[k]] /\ \A k \in Fields : Plain(k, f[k])

LEMMA MeansTwice == \A word : Means(Means(word)) = Means(word)
BY WordsAssumption DEF Means

LEMMA MeantOnce ==
  ASSUME NEW raw, NEW k, NEW word \in Meant(raw, k)
  PROVE  Means(word) = word
BY MeansTwice DEF Meant

LEMMA QueriesSettle ==
  ASSUME NEW raw \in Queries
  PROVE  Settled(Parsed(raw))
<1> PICK f : f = Parsed(raw)
  OBVIOUS
<1>1. /\ f = [k \in Fields |-> f[k]]
      /\ f.event_type = Meant(raw, "event_type") /\ f.sector = Meant(raw, "sector")
      /\ f.industry = Meant(raw, "industry") /\ f.cap = Meant(raw, "cap")
      /\ f.sentiment = Meant(raw, "sentiment")
      /\ f.source = Means(Get(raw, "source")) /\ f.moved = Means(Get(raw, "moved"))
      /\ f.since = Means(Get(raw, "since")) /\ f.q = Means(Get(raw, "q"))
  BY DEF Parsed, Fields, Lists, Words
<1>3. \A k \in Words : Means(f[k]) = f[k]
  BY <1>1, MeansTwice DEF Words
<1>4. ASSUME NEW k \in Lists, NEW word \in f[k] PROVE Means(word) = word
  <2>1. word \in Meant(raw, k)
    BY <1>1, <1>4 DEF Lists
  <2> QED
    BY <2>1, MeantOnce
<1>5. Settled(f)
  BY <1>1, <1>3, <1>4 DEF Settled, Plain
<1> QED
  BY <1>5

\* What was chosen of a view.
Kept(f) == {"scope"} \cup {k \in Fields \ {"max_tier"} : f[k] # Default[k]}

LEMMA DictOf ==
  ASSUME NEW f, Settled(f)
  PROVE  ToDict(f) = [k \in Kept(f) |-> f[k]]
<1>1. DOMAIN f = Fields
  BY DEF Settled
<1> QED
  BY <1>1 DEF ToDict, Kept

\* A view goes into a query string, or a saved view, and comes back as it was.
LEMMA StoredAndRead ==
  ASSUME NEW f, Settled(f)
  PROVE  Parsed([k \in DOMAIN ToDict(f) \cup {"max_tier"} |->
                   IF k = "max_tier" THEN f.max_tier ELSE ToDict(f)[k]]) = f
<1> PICK d : d = [k \in DOMAIN ToDict(f) \cup {"max_tier"} |->
                    IF k = "max_tier" THEN f.max_tier ELSE ToDict(f)[k]]
  OBVIOUS
<1>1. "max_tier" \notin Kept(f) /\ Kept(f) \subseteq Fields
  BY DEF Kept, Fields
<1>2. d = [k \in Kept(f) \cup {"max_tier"} |-> f[k]]
  <2>1. ToDict(f) = [k \in Kept(f) |-> f[k]]
    BY DictOf
  <2> QED
    BY <1>1, <2>1
<1>3. ASSUME NEW k \in Fields PROVE Get(d, k) = f[k]
  <2>1. CASE k = "max_tier"
    BY <2>1, <1>2 DEF Get
  <2>2. CASE k # "max_tier"
    <3>1. k \notin Kept(f) => f[k] = Default[k]
      BY <2>2 DEF Kept
    <3> QED
      BY <2>2, <3>1, <1>2 DEF Get
  <2> QED
    BY <2>1, <2>2
<1>4. ASSUME NEW k \in Lists PROVE Meant(d, k) = f[k]
  <2>1. Get(d, k) = f[k] /\ k \in Fields
    BY <1>3 DEF Fields
  <2> QED
    BY <2>1 DEF Meant, Settled, Plain
<1>5. ASSUME NEW k \in Words PROVE Means(Get(d, k)) = f[k]
  <2>1. Get(d, k) = f[k] /\ k \in Fields
    BY <1>3 DEF Fields
  <2> QED
    BY <2>1 DEF Settled, Plain
<1>6. Parsed(d) = [scope |-> f.scope, important |-> f.important, event_type |-> f.event_type,
                   sector |-> f.sector, industry |-> f.industry, cap |-> f.cap,
                   sentiment |-> f.sentiment, source |-> f.source, moved |-> f.moved,
                   since |-> f.since, q |-> f.q, max_tier |-> f.max_tier]
  <2>1. /\ Get(d, "scope") = f.scope /\ Get(d, "important") = f.important
        /\ Get(d, "max_tier") = f.max_tier
    BY <1>3 DEF Fields
  <2>2. /\ Means(Get(d, "source")) = f.source /\ Means(Get(d, "moved")) = f.moved
        /\ Means(Get(d, "since")) = f.since /\ Means(Get(d, "q")) = f.q
    BY <1>5 DEF Words
  <2>3. /\ Meant(d, "event_type") = f.event_type /\ Meant(d, "sector") = f.sector
        /\ Meant(d, "industry") = f.industry /\ Meant(d, "cap") = f.cap
        /\ Meant(d, "sentiment") = f.sentiment
    BY <1>4 DEF Lists
  <2> QED
    BY <2>1, <2>2, <2>3 DEF Parsed
<1>7. Parsed(d) = [k \in Fields |-> f[k]]
  BY <1>6 DEF Fields, Lists, Words
<1> QED
  BY <1>7 DEF Settled

\* A company carries a classification of the lists.
LEMMA CarriedIsKnown ==
  ASSUME PanelInv
  PROVE  Carried \subseteq Industries /\ Unknown \notin Carried
BY DEF PanelInv, Profile, Carried

LEMMA ChosenIsGood ==
  ASSUME PanelInv, NEW f, Settled(f), Accepted(f, FALSE),
         NEW facet \in DOMAIN Options, NEW o \in Options[facet]
  PROVE  Settled(Chosen(f, facet, o)) /\ Accepted(Chosen(f, facet, o), FALSE)
<1>1. facet \in {"event_type", "sector", "industry", "cap", "source", "sentiment", "important", "moved"}
  BY DEF Options
<1>2. CASE facet = "event_type"
  <2>1. o \in EventTypes /\ Means(o) = o
    BY <1>2, WordsAssumption DEF Options
  <2>2. PICK g : g = [f EXCEPT !["event_type"] = {o}]
    OBVIOUS
  <2>3. Plain("event_type", {o}) /\ "event_type" \in Fields
    BY <2>1 DEF Plain, Fields, Lists, Words
  <2>4. Settled(g) /\ g.event_type = {o} /\ \A j \in Fields \ {"event_type"} : g[j] = f[j]
    BY <2>2, <2>3 DEF Settled
  <2>5. Accepted(g, FALSE)
    BY <2>1, <2>4 DEF Accepted, Fields, Lists, Words, KnownTo
  <2> QED
    BY <1>2, <2>2, <2>4, <2>5 DEF Chosen
<1>3. CASE facet = "cap"
  <2>1. o \in {b.key : b \in Range(CapBuckets)} /\ Means(o) = o
    BY <1>3, WordsAssumption DEF Options
  <2>2. PICK g : g = [f EXCEPT !["cap"] = {o}]
    OBVIOUS
  <2>3. Plain("cap", {o}) /\ "cap" \in Fields
    BY <2>1 DEF Plain, Fields, Lists, Words
  <2>4. Settled(g) /\ g.cap = {o} /\ \A j \in Fields \ {"cap"} : g[j] = f[j]
    BY <2>2, <2>3 DEF Settled
  <2>5. Accepted(g, FALSE)
    BY <2>1, <2>4 DEF Accepted, Fields, Lists, Words, KnownTo
  <2> QED
    BY <1>3, <2>2, <2>4, <2>5 DEF Chosen
<1>4. CASE facet = "sentiment"
  <2>1. o \in Tones /\ Means(o) = o
    BY <1>4, WordsAssumption DEF Options
  <2>2. PICK g : g = [f EXCEPT !["sentiment"] = {o}]
    OBVIOUS
  <2>3. Plain("sentiment", {o}) /\ "sentiment" \in Fields
    BY <2>1 DEF Plain, Fields, Lists, Words
  <2>4. Settled(g) /\ g.sentiment = {o} /\ \A j \in Fields \ {"sentiment"} : g[j] = f[j]
    BY <2>2, <2>3 DEF Settled
  <2>5. Accepted(g, FALSE)
    BY <2>1, <2>4 DEF Accepted, Fields, Lists, Words, KnownTo
  <2> QED
    BY <1>4, <2>2, <2>4, <2>5 DEF Chosen
<1>5. CASE facet = "source"
  <2>1. o \in {"pr", "sec"} /\ Means(o) = o
    BY <1>5, WordsAssumption DEF Options
  <2>2. PICK g : g = [f EXCEPT !["source"] = o]
    OBVIOUS
  <2>3. Plain("source", o) /\ "source" \in Fields
    BY <2>1 DEF Plain, Fields, Lists, Words
  <2>4. Settled(g) /\ g.source = o /\ \A j \in Fields \ {"source"} : g[j] = f[j]
    BY <2>2, <2>3 DEF Settled
  <2>5. Accepted(g, FALSE)
    BY <2>1, <2>4 DEF Accepted, Fields, Lists, Words, KnownTo
  <2> QED
    BY <1>5, <2>2, <2>4, <2>5 DEF Chosen
<1>6. CASE facet = "moved"
  <2>1. o \in {"any", "up", "down"} /\ Means(o) = o
    BY <1>6, WordsAssumption DEF Options
  <2>2. PICK g : g = [f EXCEPT !["moved"] = o]
    OBVIOUS
  <2>3. Plain("moved", o) /\ "moved" \in Fields
    BY <2>1 DEF Plain, Fields, Lists, Words
  <2>4. Settled(g) /\ g.moved = o /\ \A j \in Fields \ {"moved"} : g[j] = f[j]
    BY <2>2, <2>3 DEF Settled
  <2>5. Accepted(g, FALSE)
    BY <2>1, <2>4 DEF Accepted, Fields, Lists, Words, KnownTo
  <2> QED
    BY <1>6, <2>2, <2>4, <2>5 DEF Chosen
<1>7. CASE facet = "important"
  <2>1. PICK g : g = [f EXCEPT !["important"] = o]
    OBVIOUS
  <2>2. Plain("important", o) /\ "important" \in Fields
    BY DEF Plain, Fields, Lists, Words
  <2>3. Settled(g) /\ \A j \in Fields \ {"important"} : g[j] = f[j]
    BY <2>1, <2>2 DEF Settled
  <2>4. Accepted(g, FALSE)
    BY <2>3 DEF Accepted, Fields, Lists, Words, KnownTo
  <2> QED
    BY <1>7, <2>1, <2>3, <2>4 DEF Chosen
<1>8. CASE facet = "sector"
  <2>1. o \in Sectors /\ Means(o) = o
    BY <1>8, CarriedIsKnown, WordsAssumption DEF Options
  <2>2. PICK h : h = [f EXCEPT !["sector"] = {o}]
    OBVIOUS
  <2>3. PICK g : g = [h EXCEPT !["industry"] = {}]
    OBVIOUS
  <2>4. /\ Plain("sector", {o}) /\ "sector" \in Fields
        /\ Plain("industry", {}) /\ "industry" \in Fields
    BY <2>1 DEF Plain, Fields, Lists, Words
  <2>5. Settled(h) /\ h.sector = {o} /\ \A j \in Fields \ {"sector"} : h[j] = f[j]
    BY <2>2, <2>4 DEF Settled
  <2>6. Settled(g) /\ g.industry = {} /\ \A j \in Fields \ {"industry"} : g[j] = h[j]
    BY <2>3, <2>4, <2>5 DEF Settled
  <2>7. Accepted(g, FALSE)
    BY <2>1, <2>5, <2>6 DEF Accepted, Fields, Lists, Words, KnownTo
  <2>8. g = [f EXCEPT !.sector = {o}, !.industry = {}]
    BY <2>2, <2>3
  <2> QED
    BY <1>8, <2>6, <2>7, <2>8 DEF Chosen
<1>9. CASE facet = "industry"
  <2>1. o \in Carried /\ Means(o) = o
    BY <1>9, CarriedIsKnown, WordsAssumption DEF Options
  <2>2. PICK h : h = [f EXCEPT !["sector"] = {}]
    OBVIOUS
  <2>3. PICK g : g = [h EXCEPT !["industry"] = {o}]
    OBVIOUS
  <2>4. /\ Plain("sector", {}) /\ "sector" \in Fields
        /\ Plain("industry", {o}) /\ "industry" \in Fields
    BY <2>1 DEF Plain, Fields, Lists, Words
  <2>5. Settled(h) /\ h.sector = {} /\ \A j \in Fields \ {"sector"} : h[j] = f[j]
    BY <2>2, <2>4 DEF Settled
  <2>6. Settled(g) /\ g.industry = {o} /\ \A j \in Fields \ {"industry"} : g[j] = h[j]
    BY <2>3, <2>4, <2>5 DEF Settled
  <2>7. Accepted(g, FALSE)
    BY <2>1, <2>5, <2>6 DEF Accepted, Fields, Lists, Words, KnownTo
  <2>8. g = [f EXCEPT !.sector = {}, !.industry = {o}]
    BY <2>2, <2>3
  <2> QED
    BY <1>9, <2>6, <2>7, <2>8 DEF Chosen
<1> QED
  BY <1>1, <1>2, <1>3, <1>4, <1>5, <1>6, <1>7, <1>8, <1>9

\* The buckets a filter reads and those the panel groups by are the same.
LEMMA BucketsAgree ==
  ASSUME PanelInv, NEW e \in Posts, NEW o \in {b.key : b \in Range(CapBuckets)}
  PROVE  Bucket(e) = {o} <=> Cap(e) # Unknown /\ InCaps(Cap(e), {o})
<1> DEFINE c == Cap(e)
           holds(b) == /\ c # Unknown
                       /\ IF b.high = NoLimit THEN c >= b.low
                          ELSE c >= AtLeast(b.low) /\ c < b.high
           first == {i \in DOMAIN CapBuckets :
                       holds(CapBuckets[i]) /\ \A j \in 1..(i - 1) : ~holds(CapBuckets[j])}
<1>1. c \in Nat \cup {Unknown}
  <2>1. Of[e] # NoFirm => Of[e] \in Firms
    BY FeedsAssumption
  <2> QED
    BY <2>1 DEF PanelInv, Profile, Cap
<1>2. /\ DOMAIN CapBuckets = 1 .. Len(CapBuckets) /\ Len(CapBuckets) \in Nat
      /\ \A i \in DOMAIN CapBuckets :
           CapBuckets[i].low \in Nat /\ CapBuckets[i].high \in Nat \cup {NoLimit}
  <2>1. DOMAIN CapBuckets = 1 .. Len(CapBuckets) /\ Len(CapBuckets) \in Nat
    BY BucketsAssumption
  <2>2. \A i \in DOMAIN CapBuckets : CapBuckets[i] \in Range(CapBuckets)
    BY DEF Range
  <2> QED
    BY <2>1, <2>2, BucketsAssumption
<1>3. \A i, j \in DOMAIN CapBuckets :
         holds(CapBuckets[i]) /\ holds(CapBuckets[j]) => i = j
  <2> SUFFICES ASSUME NEW i \in DOMAIN CapBuckets, NEW j \in DOMAIN CapBuckets, i < j,
                      holds(CapBuckets[i]), holds(CapBuckets[j])
               PROVE  FALSE
    BY <1>2
  <2>1. c \in Nat
    BY <1>1
  <2>2. c >= CapBuckets[i].low
    BY <1>2, <2>1 DEF AtLeast
  <2>3. /\ CapBuckets[j].high # NoLimit /\ CapBuckets[j].high <= CapBuckets[i].low
    BY BucketsAssumption
  <2> QED
    BY <1>2, <2>1, <2>2, <2>3
<1>4. Bucket(e) = {CapBuckets[i].key : i \in first}
  BY DEF Bucket
<1>5. first = {i \in DOMAIN CapBuckets : holds(CapBuckets[i])}
  BY <1>2, <1>3
<1>6. \A i \in DOMAIN CapBuckets :
        holds(CapBuckets[i]) <=>
          /\ c # Unknown /\ c >= AtLeast(CapBuckets[i].low)
          /\ (CapBuckets[i].high = NoLimit \/ c < CapBuckets[i].high)
  <2> TAKE i \in DOMAIN CapBuckets
  <2>1. CapBuckets[i].high = NoLimit => AtLeast(CapBuckets[i].low) = CapBuckets[i].low
    BY <1>2, BucketsAssumption DEF AtLeast
  <2> QED
    BY <1>1, <1>2, <2>1
<1>7. c # Unknown /\ InCaps(c, {o}) <=>
        \E i \in DOMAIN CapBuckets : CapBuckets[i].key = o /\ holds(CapBuckets[i])
  <2>1. Range(CapBuckets) = {CapBuckets[i] : i \in DOMAIN CapBuckets}
    BY DEF Range
  <2> HIDE DEF holds, c
  <2> QED
    BY <1>6, <2>1 DEF InCaps
<1>8. Bucket(e) = {o} <=> \E i \in DOMAIN CapBuckets : CapBuckets[i].key = o /\ holds(CapBuckets[i])
  <2> HIDE DEF holds
  <2> QED
    BY <1>3, <1>4, <1>5
<1> QED
  BY <1>7, <1>8

\* What a facet counts beside an option is what the click returns.
LEMMA GroupIsView ==
  ASSUME PanelInv, NEW f, Settled(f),
         NEW facet \in DOMAIN Options \ {"moved"}, NEW o \in Options[facet]
  PROVE  {e \in Apply(f, IF facet = "industry" THEN "sector" ELSE facet) : Has(e, facet, o)}
           = Apply(Chosen(f, facet, o), "none")
<1> PICK g : g = Chosen(f, facet, o)
  OBVIOUS
<1> PICK skip : skip = IF facet = "industry" THEN "sector" ELSE facet
  OBVIOUS
<1>1. facet \in {"event_type", "sector", "industry", "cap", "source", "sentiment", "important"}
  BY DEF Options
<1>2. f = [k \in Fields |-> f[k]]
  BY DEF Settled
<1>3. g.scope = f.scope
  BY <1>1, <1>2 DEF Chosen, Fields
<1>4. ASSUME NEW e \in Scope(f)
      PROVE  Keeps(f, e, skip) /\ Has(e, facet, o) <=> Keeps(g, e, "none")
  <2>1. e \in Posts
    <3>1. Range(stored) \subseteq Posts
      BY SequencesAreFinite DEF PanelInv, StoredOK
    <3> QED
      BY <3>1 DEF Scope
  <2>2. CASE facet = "event_type"
    <3>1. g.event_type = {o} /\ \A k \in Fields \ {"event_type"} : g[k] = f[k]
      BY <1>2, <2>2 DEF Chosen, Fields, Lists
    <3>2. Has(e, facet, o) <=> {o} \cap Types[e] # {}
      BY <2>2 DEF Has
    <3> QED
      BY <2>2, <3>1, <3>2 DEF Keeps, Fields, Lists, Words, Classified
  <2>3. CASE facet = "sector"
    <3>1. /\ g.sector = {o} /\ g.industry = {}
          /\ \A k \in Fields \ {"sector", "industry"} : g[k] = f[k]
      BY <1>2, <2>3 DEF Chosen, Fields, Lists
    <3>2. o # Unknown
      BY <2>3, FeedsAssumption DEF Options
    <3>3. Has(e, facet, o) <=> Classified(e, g)
      BY <2>3, <3>1, <3>2 DEF Has, SectorOf, Classified
    <3> QED
      BY <2>3, <3>1, <3>3 DEF Keeps, Fields, Lists, Words
  <2>4. CASE facet = "industry"
    <3>1. /\ g.sector = {} /\ g.industry = {o}
          /\ \A k \in Fields \ {"sector", "industry"} : g[k] = f[k]
      BY <1>2, <2>4 DEF Chosen, Fields, Lists
    <3>2. o # Unknown
      BY <2>4, CarriedIsKnown DEF Options
    <3>3. Has(e, facet, o) <=> Classified(e, g)
      BY <2>4, <3>1, <3>2 DEF Has, IndustryOf, Classified
    <3> QED
      BY <2>4, <3>1, <3>3 DEF Keeps, Fields, Lists, Words
  <2>5. CASE facet = "cap"
    <3>1. g.cap = {o} /\ \A k \in Fields \ {"cap"} : g[k] = f[k]
      BY <1>2, <2>5 DEF Chosen, Fields, Lists
    <3>2. Has(e, facet, o) <=> Cap(e) # Unknown /\ InCaps(Cap(e), {o})
      BY <2>1, <2>5, BucketsAgree DEF Has, Options
    <3> QED
      BY <2>5, <3>1, <3>2 DEF Keeps, Fields, Lists, Words, Classified
  <2>6. CASE facet = "source"
    <3>1. g.source = o /\ \A k \in Fields \ {"source"} : g[k] = f[k]
      BY <1>2, <2>6 DEF Chosen, Fields, Words
    <3>2. o \in {"pr", "sec"}
      BY <2>6 DEF Options
    <3>3. Has(e, facet, o) <=> (Signal[e] = "PR" <=> o = "pr")
      BY <2>6, <3>2 DEF Has, SourceOf
    <3> QED
      BY <2>6, <3>1, <3>2, <3>3 DEF Keeps, Fields, Lists, Words, Classified
  <2>7. CASE facet = "sentiment"
    <3>1. g.sentiment = {o} /\ \A k \in Fields \ {"sentiment"} : g[k] = f[k]
      BY <1>2, <2>7 DEF Chosen, Fields, Lists
    <3>2. Has(e, facet, o) <=> Tone[e] \in {o}
      BY <2>7 DEF Has
    <3> QED
      BY <2>7, <3>1, <3>2 DEF Keeps, Fields, Lists, Words, Classified
  <2>8. CASE facet = "important"
    <3>1. g.important = TRUE /\ \A k \in Fields \ {"important"} : g[k] = f[k]
      BY <1>2, <2>8 DEF Chosen, Fields, Options
    <3>2. Has(e, facet, o) <=> Important(e)
      BY <2>8 DEF Has
    <3> QED
      BY <2>8, <3>1, <3>2 DEF Keeps, Fields, Lists, Words, Classified
  <2> QED
    BY <1>1, <2>2, <2>3, <2>4, <2>5, <2>6, <2>7, <2>8
<1>5. Scope(g) = Scope(f)
  BY <1>3 DEF Scope
<1>6. {e \in Apply(f, skip) : Has(e, facet, o)} = Apply(g, "none")
  BY <1>4, <1>5 DEF Apply
<1> QED
  BY <1>6

\* Two queries with one key ask for the same.
LEMMA KeyIsView ==
  ASSUME NEW f, NEW g, Settled(f), Settled(g), CacheKey(f) = CacheKey(g)
  PROVE  f = g
<1>1. ToDict(f) = ToDict(g) /\ f.max_tier = g.max_tier
  BY DEF CacheKey
<1>2. ToDict(f) = [k \in Kept(f) |-> f[k]] /\ ToDict(g) = [k \in Kept(g) |-> g[k]]
  BY DictOf
<1>3. Kept(f) = Kept(g) /\ \A k \in Kept(f) : f[k] = g[k]
  BY <1>1, <1>2
<1>4. ASSUME NEW k \in Fields PROVE f[k] = g[k]
  <2>1. CASE k = "max_tier"
    BY <2>1, <1>1
  <2>2. CASE k # "max_tier" /\ k \in Kept(f)
    BY <2>2, <1>3
  <2>3. CASE k # "max_tier" /\ k \notin Kept(f)
    BY <2>3, <1>3 DEF Kept
  <2> QED
    BY <2>1, <2>2, <2>3
<1>5. f = [k \in Fields |-> f[k]] /\ g = [k \in Fields |-> g[k]]
  BY DEF Settled
<1> QED
  BY <1>4, <1>5

\* A click keeps the reader's max_tier.
LEMMA TierStays ==
  ASSUME NEW f, Settled(f), NEW facet \in DOMAIN Options, NEW o
  PROVE  Chosen(f, facet, o).max_tier = f.max_tier
<1>1. facet \in {"event_type", "sector", "industry", "cap", "source", "sentiment", "important", "moved"}
  BY DEF Options
<1>2. f = [k \in Fields |-> f[k]] /\ "max_tier" \in Fields
  BY DEF Settled, Fields
<1> QED
  BY <1>1, <1>2 DEF Chosen

\* A view that a click asks for is understood, and never refused.
LEMMA ClickReturns ==
  ASSUME PanelInv, NEW f, Settled(f), Accepted(f, FALSE),
         NEW facet \in DOMAIN Options, NEW o \in Options[facet]
  PROVE  Returns(f)[facet][o] = Cardinality(Apply(Chosen(f, facet, o), "none"))
<1> PICK g : g = Chosen(f, facet, o)
  OBVIOUS
<1>1. Settled(g) /\ Accepted(g, FALSE)
  BY ChosenIsGood
<1>2. g.max_tier = f.max_tier
  BY TierStays
<1>3. Click(f, facet, o) = [k \in DOMAIN ToDict(g) \cup {"max_tier"} |->
                              IF k = "max_tier" THEN g.max_tier ELSE ToDict(g)[k]]
  BY <1>2 DEF Click
<1>4. Parsed(Click(f, facet, o)) = g
  BY <1>1, <1>3, StoredAndRead
<1>5. Returns(f)[facet][o] =
        IF Accepted(Parsed(Click(f, facet, o)), FALSE)
        THEN Cardinality(Apply(Parsed(Click(f, facet, o)), "none")) ELSE Refused
  BY DEF Returns
<1> QED
  BY <1>1, <1>4, <1>5

\* What is counted beside an option, if anything, is what the click returns.
LEMMA CountIsView ==
  ASSUME PanelInv, NEW f, Settled(f),
         NEW facet \in DOMAIN Options, NEW o \in Options[facet]
  PROVE  Shown(FacetCounts(f)[facet], o) = Cardinality(Apply(Chosen(f, facet, o), "none"))
<1> PICK counted : counted = FacetCounts(f)[facet]
  OBVIOUS
<1>1. CASE facet = "moved"
  <2>1. counted = [x \in Groups(facet) |-> Cardinality(Apply([f EXCEPT !.moved = x], "none"))]
    BY <1>1 DEF FacetCounts
  <2>2. Groups(facet) = Options[facet] /\ Chosen(f, facet, o) = [f EXCEPT !.moved = o]
    BY <1>1 DEF Groups, Chosen
  <2> QED
    BY <2>1, <2>2 DEF Shown
<1>2. CASE facet # "moved"
  <2> PICK held : held = Apply(f, IF facet = "industry" THEN "sector" ELSE facet)
    OBVIOUS
  <2>1. counted = [x \in Groups(facet) |-> Cardinality({e \in held : Has(e, facet, x)})]
    BY <1>2 DEF FacetCounts
  <2>2. {e \in held : Has(e, facet, o)} = Apply(Chosen(f, facet, o), "none")
    BY <1>2, GroupIsView
  <2>3. CASE o \in Groups(facet)
    BY <2>1, <2>2, <2>3 DEF Shown
  <2>4. CASE o \notin Groups(facet)
    <3>1. facet = "event_type" /\ \A e \in Range(stored) : o \notin Types[e]
      BY <2>4 DEF Groups
    <3>2. held \subseteq Range(stored)
      BY DEF Apply, Scope
    <3>3. {e \in held : Has(e, facet, o)} = {}
      BY <3>1, <3>2 DEF Has
    <3>4. Shown(counted, o) = 0
      BY <2>1, <2>4 DEF Shown
    <3> QED
      BY <2>2, <3>3, <3>4, FS_EmptySet
  <2> QED
    BY <2>3, <2>4
<1> QED
  BY <1>1, <1>2

\* An answer is honest when it is counted, to all it may be served to.
LEMMA FreshIsHonest ==
  ASSUME PanelInv, NEW raw \in Queries, Accepted(Parsed(raw), FALSE)
  PROVE  Honest(Fresh(raw))
<1> PICK f : f = Parsed(raw)
  OBVIOUS
<1> PICK a : a = Fresh(raw)
  OBVIOUS
<1>1. /\ a.counts = FacetCounts(f)
      /\ a.told = [r \in {r \in Queries : CacheKey(Parsed(r)) = CacheKey(f)} |-> Returns(Parsed(r))]
  BY DEF Fresh
<1>2. Settled(f)
  BY QueriesSettle
<1>3. ASSUME NEW r \in DOMAIN a.told PROVE a.told[r] = Returns(f)
  <2>1. r \in Queries /\ CacheKey(Parsed(r)) = CacheKey(f)
    BY <1>1, <1>3
  <2>2. Parsed(r) = f
    BY <1>2, <2>1, QueriesSettle, KeyIsView
  <2> QED
    BY <1>1, <2>1, <2>2
<1>4. /\ DOMAIN Returns(f) = DOMAIN Options
      /\ \A facet \in DOMAIN Options : DOMAIN Returns(f)[facet] = Options[facet]
  BY DEF Returns
<1>5. ASSUME NEW facet \in DOMAIN Options, NEW o \in Options[facet]
      PROVE  Shown(a.counts[facet], o) = Returns(f)[facet][o]
  <2>1. Accepted(f, FALSE)
    OBVIOUS
  <2>2. Returns(f)[facet][o] = Cardinality(Apply(Chosen(f, facet, o), "none"))
    BY <1>2, <2>1, ClickReturns
  <2>3. Shown(FacetCounts(f)[facet], o) = Cardinality(Apply(Chosen(f, facet, o), "none"))
    BY <1>2, CountIsView
  <2> QED
    BY <1>1, <2>2, <2>3
<1> QED
  BY <1>3, <1>4, <1>5 DEF Honest

\* What is accepted when the industries are read again is accepted when they are not.
LEMMA AcceptedAnyway ==
  ASSUME NEW f, Accepted(f, TRUE)
  PROVE  Accepted(f, FALSE)
BY DEF Accepted, KnownTo

CacheOK == \A a \in facets : Honest(a)

LEMMA CacheSteps ==
  ASSUME PanelInv, CacheOK, [FeedsNext]_feedsVars
  PROVE  CacheOK'
<1>1. CASE Count
  <2> PICK raw \in Queries, stale \in BOOLEAN :
         facets' \in IF /\ Accepted(Parsed(raw), stale) /\ Parsed(raw).scope = "all"
                        /\ Cached(raw) = {} /\ Cardinality(facets) < MaxCached
                     THEN {facets, facets \cup {Fresh(raw)}} ELSE {facets}
    BY <1>1 DEF Count
  <2>1. CASE Accepted(Parsed(raw), stale) /\ facets' = facets \cup {Fresh(raw)}
    <3>1. Accepted(Parsed(raw), FALSE)
      <4>1. stale = TRUE \/ stale = FALSE
        OBVIOUS
      <4> QED
        BY <2>1, <4>1, AcceptedAnyway
    <3>2. Honest(Fresh(raw))
      BY <3>1, FreshIsHonest
    <3> QED
      BY <2>1, <3>2 DEF CacheOK, Honest, Shown
  <2>2. CASE facets' = facets
    BY <2>2 DEF CacheOK, Honest, Shown
  <2> QED
    BY <2>1, <2>2
<1>2. CASE facets' \subseteq facets
  BY <1>2 DEF CacheOK, Honest, Shown
<1> QED
  BY <1>1, <1>2
  DEF FeedsNext, Page, ExpireFacets, Receive, React, ResetReactions, Age, Classify,
      SyncMarketData, SyncPrices, SyncShares, RecomputeCaps, feedsVars

\* The panel keeps its word: beside each option stands the number of events that a
\* click returned when the answer was counted, and no click was refused; a shared answer is true for whoever it is served to, however they spelled
\* their filters, whatever the companies' sectors and caps have become
\* (feed_filters.py:13-15, 411-492; routes/events.py:95-127).
THEOREM PanelHonest == Spec => []FacetsHonest
<1>1. PanelInv /\ [Next]_vars /\ StoredOK' => PanelInv'
  BY CatalogueIsFeed, PanelSteps DEF PanelInv
<1>2. ScrollInv /\ [Next]_vars => ScrollInv'
  BY CatalogueIsFeed, ScrollSteps
<1>3. ScrollInv => StoredOK
  BY DEF ScrollInv
<1>4. Init => CacheOK
  BY CatalogueIsFeed DEF FeedsInit, NoFeeds, CacheOK
<1>5. PanelInv /\ CacheOK /\ [Next]_vars => CacheOK'
  BY CatalogueIsFeed, CacheSteps
<1>6. PanelInv /\ CacheOK => FacetsHonest
  BY FreshIsHonest DEF FacetsHonest, Served, CacheOK
<1> QED
  BY <1>1, <1>2, <1>3, <1>4, <1>5, <1>6, ScrollInit, PanelInit, PTL DEF Spec
=============================================================================
