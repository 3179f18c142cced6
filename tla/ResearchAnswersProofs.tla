------------------------- MODULE ResearchAnswersProofs ------------------------
(***************************************************************************)
(* Proofs about how a question becomes an answer: what a plan keeps of the *)
(* question, what its words mean, what is found for it, and what a         *)
(* conversation remembers of it; for any vocabulary, areas, venues, texts, *)
(* scores and turns.                                                       *)
(***************************************************************************)
EXTENDS ResearchPlans, ResearchTurns, SemanticSearch, TaxonomyIndex, PlanResolution,
    FiniteSetTheorems, TLAPS

----------------------------------------------------------------------------
(* Least and greatest. Among the natural numbers of a set there is a least,   *)
(* and among finitely many numbers a greatest.                               *)

LEMMA LeastNatural == ASSUME NEW T \in SUBSET Nat, T # {} PROVE \E x \in T : \A y \in T : x <= y
<1> DEFINE R == {ss \in Nat \X Nat : ss[1] < ss[2]}
<1>1. IsWellFoundedOn(R, Nat)
  BY NatLessThanWellFounded DEF OpToRel
<1>2. PICK x \in T : \A y \in T : <<y, x>> \notin R
  <2> HIDE DEF R
  <2>1. QED
    BY <1>1, WFMin
<1>3. \A y \in T : x <= y
  <2> TAKE y \in T
  <2>1. <<y, x>> \notin R /\ x \in Nat /\ y \in Nat
    BY <1>2
  <2>2. ~ (y < x)
    BY <2>1
  <2>3. QED
    BY <2>1, <2>2
<1>4. QED
  BY <1>3

\* The greatest of finitely many numbers: the one with the fewest above it.
LEMMA GreatestNumber ==
    ASSUME NEW S \in SUBSET Int, IsFiniteSet(S), S # {}
    PROVE  \E s \in S : \A t \in S : t <= s
<1> DEFINE Above(s) == {u \in S : u > s}
           T == {Cardinality(Above(s)) : s \in S}
<1>1. \A s \in S : IsFiniteSet(Above(s)) /\ Cardinality(Above(s)) \in Nat
  <2> TAKE s \in S
  <2>1. IsFiniteSet(Above(s))
    BY FS_Subset
  <2>2. QED
    BY <2>1, FS_CardinalityType
<1>2. T \in SUBSET Nat /\ T # {}
  BY <1>1
<1>3. PICK k \in T : \A y \in T : k <= y
  <2> HIDE DEF T
  <2>1. QED
    BY <1>2, LeastNatural
<1>4. PICK s \in S : k = Cardinality(Above(s))
  OBVIOUS
<1>5. SUFFICES ASSUME NEW t \in S, t > s PROVE FALSE
  BY <1>4
<1>6. Above(t) \in SUBSET Above(s) /\ t \in Above(s) /\ t \notin Above(t)
  <2>1. s \in Int /\ t \in Int /\ t > s /\ ~ (t > t)
    BY <1>5
  <2>2. \A u \in S : u > t => u > s
    BY <2>1
  <2>3. QED
    BY <2>1, <2>2
<1>7. Cardinality(Above(t)) <= Cardinality(Above(s))
      /\ Cardinality(Above(t)) # Cardinality(Above(s))
  <2>1. Above(t) # Above(s)
    BY <1>6
  <2> HIDE DEF Above
  <2>2. QED
    BY <1>1, <1>6, <2>1, FS_Subset
<1>8. Cardinality(Above(s)) <= Cardinality(Above(t))
  <2>1. Cardinality(Above(t)) \in T
    OBVIOUS
  <2>2. QED
    BY <1>3, <1>4, <2>1
<1>9. QED
  <2> HIDE DEF Above
  <2>1. QED
    BY <1>1, <1>7, <1>8

----------------------------------------------------------------------------
(* Semantic search. Hits are texts of events that were eligible when the     *)
(* request read the database; an answer is what rehydration finds of them    *)
(* when it reads the database again, which may have moved in between.        *)

SearchTypeOK ==
    /\ search \in {"asked", "too broad", "eligible", "ranked", "answered", "unavailable"}
    /\ DOMAIN occurrence \subseteq Occurrences
    /\ occurrence \in [DOMAIN occurrence -> Written]
    /\ hits \in SUBSET Evidence /\ IsFiniteSet(hits)
\* Hits are of events that were eligible; only an answered request has an answer.
SearchInv ==
    /\ SearchTypeOK
    /\ search = "asked" => hits = {}
    /\ \A h \in hits : h.event \in eligible
    /\ search # "answered" => answer = {}
    /\ search = "answered" => AnswersHold

LEMMA BestIsGreatest ==
    ASSUME NEW S \in SUBSET Int, IsFiniteSet(S), S # {}
    PROVE  Best(S) \in S /\ \A t \in S : t <= Best(S)
BY GreatestNumber DEF Best

DateBefore(o, p) ==
    \/ occurrence[o].day < occurrence[p].day
    \/ occurrence[o].day = occurrence[p].day /\ o <= p
\* An event with a date that matches is shown with one of these.
LEMMA ShownDateMatches ==
    ASSUME SearchTypeOK, NEW e, FilteredDates(e) # {}
    PROVE  ShownDate(e) \in FilteredDates(e)
<1> DEFINE dates == FilteredDates(e)
<1>1. dates \subseteq DOMAIN occurrence /\ dates \in SUBSET Nat
      /\ \A o \in dates : occurrence[o].day \in {1, 2}
  BY SearchAssumption DEF SearchTypeOK, FilteredDates, DatesOf, Written
<1> DEFINE days == {occurrence[o].day : o \in dates}
<1>2. days \in SUBSET Nat /\ days # {}
  BY <1>1
<1>3. PICK d \in days : \A y \in days : d <= y
  <2> HIDE DEF days
  <2>1. QED
    BY <1>2, LeastNatural
<1> DEFINE those == {o \in dates : occurrence[o].day = d}
<1>4. those \in SUBSET Nat /\ those # {}
  BY <1>1, <1>3
<1>5. PICK o \in those : \A p \in those : o <= p
  <2> HIDE DEF those
  <2>1. QED
    BY <1>4, LeastNatural
<1>6. \A p \in dates : DateBefore(o, p)
  <2> TAKE p \in dates
  <2>1. occurrence[p].day \in days
    OBVIOUS
  <2>2. /\ d <= occurrence[p].day /\ occurrence[o].day = d
        /\ occurrence[p].day \in Nat /\ d \in Nat
    BY <1>2, <1>3, <1>5, <2>1
  <2>3. CASE occurrence[p].day = d
    BY <1>5, <2>2, <2>3 DEF DateBefore
  <2>4. CASE occurrence[p].day # d
    BY <2>2, <2>4 DEF DateBefore
  <2>5. QED
    BY <2>3, <2>4
<1>7. o \in dates
  BY <1>5
<1>8. ShownDate(e) = CHOOSE c \in dates : \A p \in dates : DateBefore(c, p)
  BY DEF ShownDate, DateBefore
<1> HIDE DEF dates
<1>9. QED
  BY <1>6, <1>7, <1>8 DEF dates

LEMMA SearchInvInit == SearchInit => SearchInv
<1> SUFFICES ASSUME SearchInit PROVE SearchInv
  OBVIOUS
<1>1. search = "asked" /\ eligible = {} /\ hits = {} /\ answer = {}
  BY DEF SearchInit
<1>2. occurrence \in [Occurrences -> Written]
  BY DEF SearchInit, Settled
<1>3. DOMAIN occurrence = Occurrences
  BY <1>2
<1>4. QED
  BY <1>1, <1>2, <1>3, FS_EmptySet DEF SearchInv, SearchTypeOK

\* The hits of an event that hold for the date it is shown with, and the page they make.
KeptTexts(e) == {h \in hits : h.event = e /\ Holds(h, ShownDate(e))}
ScoresKept(e) == {h.score : h \in KeptTexts(e)}
ShownAs(e) == [event |-> e, date |-> ShownDate(e), score |-> Best(ScoresKept(e))]
HitEvents == {h.event : h \in hits}
ShownEvents == {e \in HitEvents \cap MatchedEvents : KeptTexts(e) # {}}

LEMMA RehydratedShown == Rehydrated = {ShownAs(e) : e \in ShownEvents}
BY DEF Rehydrated, ShownEvents, HitEvents, ShownAs, ScoresKept, KeptTexts

LEMMA ScoresKeptFit ==
    ASSUME SearchTypeOK, NEW e
    PROVE  /\ IsFiniteSet(ScoresKept(e)) /\ ScoresKept(e) \in SUBSET Int
           /\ IsFiniteSet(HitEvents)
<1> DEFINE score == [h \in KeptTexts(e) |-> h.score]
           event == [h \in hits |-> h.event]
<1>1. IsFiniteSet(KeptTexts(e))
  BY FS_Subset DEF SearchTypeOK, KeptTexts
<1>2. score \in Surjection(KeptTexts(e), ScoresKept(e))
  BY DEF Surjection, ScoresKept
<1>3. event \in Surjection(hits, HitEvents)
  BY DEF Surjection, HitEvents
<1>4. \A h \in hits : h.score \in Int
  BY SearchAssumption DEF SearchTypeOK, Evidence
<1>5. ScoresKept(e) \in SUBSET Int
  BY <1>4 DEF ScoresKept, KeptTexts
<1> HIDE DEF score, event
<1>6. IsFiniteSet(ScoresKept(e))
  BY <1>1, <1>2, FS_Surjection
<1>7. IsFiniteSet(HitEvents)
  BY <1>3, FS_Surjection DEF SearchTypeOK
<1>8. QED
  BY <1>5, <1>6, <1>7

LEMMA RehydratedIsFinite == ASSUME SearchTypeOK PROVE IsFiniteSet(Rehydrated)
<1> DEFINE show == [e \in ShownEvents |-> ShownAs(e)]
<1>1. IsFiniteSet(ShownEvents)
  BY ScoresKeptFit, FS_Subset DEF ShownEvents
<1>2. show \in Surjection(ShownEvents, Rehydrated)
  BY RehydratedShown DEF Surjection
<1> HIDE DEF show
<1>3. QED
  BY <1>1, <1>2, FS_Surjection

\* Every item is about an event that matches, with the score of a text that holds.
LEMMA RehydratedItem ==
    ASSUME SearchTypeOK, NEW i \in Rehydrated
    PROVE  /\ i.event \in MatchedEvents /\ i.date = ShownDate(i.event) /\ i.score \in Int
           /\ \E h \in hits : h.event = i.event /\ h.score = i.score /\ Holds(h, i.date)
<1>1. PICK e \in ShownEvents : i = ShownAs(e)
  BY RehydratedShown
<1>2. e \in MatchedEvents /\ KeptTexts(e) # {}
  BY DEF ShownEvents
<1>3. i.event = e /\ i.date = ShownDate(e) /\ i.score = Best(ScoresKept(e))
  BY <1>1 DEF ShownAs
<1>4. ScoresKept(e) # {}
  BY <1>2 DEF ScoresKept
<1>5. i.score \in ScoresKept(e) /\ i.score \in Int
  BY <1>3, <1>4, ScoresKeptFit, BestIsGreatest
<1>6. PICK h \in KeptTexts(e) : h.score = i.score
  BY <1>5 DEF ScoresKept
<1>7. h \in hits /\ h.event = e /\ Holds(h, ShownDate(e))
  BY DEF KeptTexts
<1>8. QED
  BY <1>2, <1>3, <1>5, <1>6, <1>7

\* A text that holds gives its event an item, of its own score or a better one.
LEMMA TextGivesItem ==
    ASSUME SearchTypeOK, NEW h \in hits, h.event \in MatchedEvents, Holds(h, ShownDate(h.event))
    PROVE  \E i \in Rehydrated : i.event = h.event /\ i.score \in Int /\ h.score \in Int
                                 /\ h.score <= i.score
<1> DEFINE e == h.event
<1>1. h \in KeptTexts(e) /\ e \in HitEvents
  BY DEF KeptTexts, HitEvents
<1>2. e \in ShownEvents
  BY <1>1 DEF ShownEvents
<1>3. h.score \in ScoresKept(e)
  BY <1>1 DEF ScoresKept
<1>4. Best(ScoresKept(e)) \in ScoresKept(e) /\ h.score <= Best(ScoresKept(e))
      /\ Best(ScoresKept(e)) \in Int /\ h.score \in Int
  BY <1>3, ScoresKeptFit, BestIsGreatest
<1>5. ShownAs(e) \in Rehydrated
  BY <1>2, RehydratedShown
<1>6. ShownAs(e).event = e /\ ShownAs(e).score = Best(ScoresKept(e))
  BY DEF ShownAs
<1>7. QED
  BY <1>4, <1>5, <1>6

\* What an item says of a date and of a text is what an answer may say.
LEMMA ItemFits ==
    ASSUME SearchInv, NEW i \in Rehydrated
    PROVE  /\ i.event \in eligible \cap fitting
           /\ IF i.date = NoOccurrence
              THEN wanted = AnyVenue /\ \A o \in DOMAIN occurrence : HappensFor[o] # i.event
              ELSE /\ i.date \in DOMAIN occurrence /\ HappensFor[i.date] = i.event
                   /\ occurrence[i.date].public
                   /\ wanted # AnyVenue => occurrence[i.date].venue = wanted
           /\ \E h \in hits :
                 /\ h.event = i.event /\ h.score = i.score
                 /\ \/ h.context = [scope |-> "event"]
                    \/ /\ i.date # NoOccurrence
                       /\ h.context \in {[scope |-> "venue", venue |-> occurrence[i.date].venue],
                                         [scope |-> "occurrence", venue |-> occurrence[i.date].venue,
                                          occurrence |-> i.date]}
<1>0. SearchTypeOK
  BY DEF SearchInv
<1>1. PICK h \in hits : h.event = i.event /\ h.score = i.score /\ Holds(h, i.date)
  BY <1>0, RehydratedItem
<1>2. i.event \in MatchedEvents /\ i.date = ShownDate(i.event)
  BY <1>0, RehydratedItem
<1>3. i.event \in eligible \cap fitting
  BY <1>1, <1>2 DEF SearchInv, MatchedEvents
<1>4. ASSUME FilteredDates(i.event) = {}
      PROVE  /\ i.date = NoOccurrence /\ wanted = AnyVenue
             /\ \A o \in DOMAIN occurrence : HappensFor[o] # i.event
  BY <1>2, <1>4 DEF ShownDate, MatchedEvents, DatesOf
<1>5. ASSUME FilteredDates(i.event) # {}
      PROVE  /\ i.date # NoOccurrence
             /\ i.date \in DOMAIN occurrence /\ HappensFor[i.date] = i.event
             /\ occurrence[i.date].public
             /\ wanted # AnyVenue => occurrence[i.date].venue = wanted
  <2>1. i.date \in FilteredDates(i.event)
    BY <1>0, <1>2, <1>5, ShownDateMatches
  <2>2. i.date \in DOMAIN occurrence
    BY <2>1 DEF FilteredDates, DatesOf
  <2>3. QED
    BY <1>0, <2>1, <2>2, SearchAssumption DEF SearchTypeOK, FilteredDates, DatesOf
<1>6. h.context \in Contexts
  BY <1>0 DEF SearchTypeOK, Evidence
<1>7. \/ h.context = [scope |-> "event"]
      \/ /\ i.date # NoOccurrence
         /\ h.context \in {[scope |-> "venue", venue |-> occurrence[i.date].venue],
                           [scope |-> "occurrence", venue |-> occurrence[i.date].venue,
                            occurrence |-> i.date]}
  <2>1. CASE h.context = [scope |-> "event"]
    BY <2>1
  <2>2. CASE h.context \in [scope : {"venue"}, venue : Venues]
    <3>1. h.context.scope = "venue" /\ h.context.venue \in Venues
          /\ h.context = [scope |-> "venue", venue |-> h.context.venue]
      BY <2>2
    <3>2. h.context.venue = IF i.date = NoOccurrence THEN AnyVenue ELSE occurrence[i.date].venue
      BY <1>1, <3>1 DEF Holds
    <3>3. i.date # NoOccurrence /\ h.context.venue = occurrence[i.date].venue
      BY <3>1, <3>2, SearchAssumption
    <3>4. QED
      BY <3>1, <3>3
  <2>3. CASE h.context \in [scope : {"occurrence"}, venue : Venues, occurrence : Occurrences]
    <3>1. /\ h.context.scope = "occurrence" /\ h.context.occurrence \in Occurrences
          /\ h.context = [scope |-> "occurrence", venue |-> h.context.venue,
                          occurrence |-> h.context.occurrence]
      BY <2>3
    <3>2. /\ h.context.venue = IF i.date = NoOccurrence THEN AnyVenue ELSE occurrence[i.date].venue
          /\ h.context.occurrence = i.date
      BY <1>1, <3>1 DEF Holds
    <3>3. i.date # NoOccurrence /\ h.context.venue = occurrence[i.date].venue
      BY <3>1, <3>2, SearchAssumption
    <3>4. QED
      BY <3>1, <3>2, <3>3
  <2>4. QED
    BY <1>6, <2>1, <2>2, <2>3 DEF Contexts
<1>8. QED
  BY <1>1, <1>3, <1>4, <1>5, <1>7

\* What is left off a page is off a full one, of items that are no worse.
LEMMA LeftOffFullPage ==
    ASSUME NEW items, IsFiniteSet(items), NEW page \in Pages(items), NEW j \in items \ page
    PROVE  /\ Cardinality(page) = PageSize /\ page # {} /\ page \subseteq items
           /\ \A i \in page : i.score >= j.score
<1>1. page \in SUBSET items /\ \A i \in page : i.score >= j.score
  BY DEF Pages
<1>2. Cardinality(page) = IF Cardinality(items) < PageSize THEN Cardinality(items) ELSE PageSize
  BY DEF Pages
<1>3. Cardinality(page) # Cardinality(items) /\ IsFiniteSet(page)
  BY <1>1, FS_Subset
<1>4. Cardinality(page) = PageSize
  BY <1>2, <1>3
<1>5. page # {}
  BY <1>4, FS_EmptySet, SearchBounds
<1>6. QED
  BY <1>1, <1>4, <1>5

\* A page that is not empty has an item that no other item scores above.
LEMMA BestItem ==
    ASSUME SearchTypeOK, Rehydrated # {}
    PROVE  \E j \in Rehydrated : /\ j.score = Best(Reference(Rehydrated))
                                 /\ \A i \in Rehydrated : i.score <= j.score
<1> DEFINE score == [i \in Rehydrated |-> i.score]
<1>1. \A i \in Rehydrated : i.score \in Int
  BY RehydratedItem
<1>2. Reference(Rehydrated) \in SUBSET Int /\ Reference(Rehydrated) # {}
  BY <1>1 DEF Reference
<1>3. score \in Surjection(Rehydrated, Reference(Rehydrated))
  BY DEF Surjection, Reference
<1>4. IsFiniteSet(Reference(Rehydrated))
  <2> HIDE DEF score
  <2>1. QED
    BY <1>3, RehydratedIsFinite, FS_Surjection
<1>5. /\ Best(Reference(Rehydrated)) \in Reference(Rehydrated)
      /\ \A t \in Reference(Rehydrated) : t <= Best(Reference(Rehydrated))
  BY <1>2, <1>4, BestIsGreatest
<1>6. QED
  BY <1>5 DEF Reference

\* What holds and reaches the floor is on the page, or gives way to what is better.
LEMMA PageShowsBest ==
    ASSUME SearchTypeOK, NEW page \in Pages(Relevant(Rehydrated)), NEW h \in hits,
           h.event \in MatchedEvents, Holds(h, ShownDate(h.event)), ~ (h.score < Floor)
    PROVE  \/ \E i \in page : i.event = h.event /\ i.score >= h.score
           \/ \E i \in page : 2 * i.score > 5 * h.score
           \/ Cardinality(page) = PageSize /\ \A i \in page : i.score >= h.score
<1> DEFINE items == Relevant(Rehydrated)
           top == Best(Reference(Rehydrated))
<1>1. PICK i \in Rehydrated : i.event = h.event /\ i.score \in Int /\ h.score \in Int
                              /\ h.score <= i.score
  BY TextGivesItem
<1>2. PICK j \in Rehydrated : j.score = top /\ \A k \in Rehydrated : k.score <= j.score
  BY <1>1, BestItem
<1>3. j.score \in Int /\ i.score <= j.score /\ Floor \in Nat
  BY <1>2, RehydratedItem, SearchAssumption
<1>4. i.score >= Floor /\ j.score >= Floor /\ 10 * j.score >= 4 * j.score
  BY <1>1, <1>3
<1>5. items \subseteq Rehydrated /\ j \in items
  BY <1>2, <1>4 DEF Relevant
<1>6. IsFiniteSet(items) /\ page \subseteq items /\ \A k \in page : k.score \in Int
  <2>1. page \subseteq items
    BY DEF Pages
  <2>2. IsFiniteSet(items)
    BY <1>5, RehydratedIsFinite, FS_Subset
  <2>3. \A k \in page : k.score \in Int
    BY <1>5, <2>1, RehydratedItem
  <2>4. QED
    BY <2>1, <2>2, <2>3
<1> HIDE DEF top
<1>7. CASE 10 * i.score >= 4 * top
  <2>1. i \in items
    BY <1>4, <1>7 DEF Relevant, top
  <2>2. CASE i \in page
    BY <1>1, <2>2
  <2>3. CASE i \notin page
    <3> HIDE DEF items
    <3>1. Cardinality(page) = PageSize /\ \A k \in page : k.score >= i.score
      BY <1>6, <2>1, <2>3, LeftOffFullPage DEF items
    <3>2. \A k \in page : k.score >= h.score
      BY <1>1, <1>6, <3>1
    <3>3. QED
      BY <3>1, <3>2
  <2>4. QED
    BY <2>2, <2>3
<1>8. CASE ~ (10 * i.score >= 4 * top)
  <2>1. 2 * j.score > 5 * h.score
    BY <1>1, <1>2, <1>3, <1>8
  <2>2. CASE j \in page
    BY <2>1, <2>2
  <2>3. CASE j \notin page
    <3> HIDE DEF items
    <3>1. page # {} /\ \A k \in page : k.score >= j.score
      BY <1>5, <1>6, <2>3, LeftOffFullPage DEF items
    <3>2. PICK k \in page : k.score >= j.score
      BY <3>1
    <3>3. 2 * k.score > 5 * h.score
      BY <1>1, <1>3, <1>6, <2>1, <3>2
    <3>4. QED
      BY <3>3
  <2>4. QED
    BY <2>2, <2>3
<1>9. QED
  BY <1>7, <1>8

LEMMA RehydrateInv == ASSUME SearchInv, Rehydrate PROVE SearchInv'
<1>0. SearchTypeOK
  BY DEF SearchInv
<1>1. answer' \in Pages(Relevant(Rehydrated)) /\ search' = "answered"
      /\ UNCHANGED <<fitting, occurrence, moves, wanted, eligible, hits>>
  BY DEF Rehydrate
<1>2. answer' \subseteq Rehydrated
  BY <1>1 DEF Pages, Relevant
<1>3. EvidenceFits'
  <2>1. \A i \in Rehydrated :
           /\ i.event \in eligible \cap fitting
           /\ IF i.date = NoOccurrence
              THEN wanted = AnyVenue /\ \A o \in DOMAIN occurrence : HappensFor[o] # i.event
              ELSE /\ i.date \in DOMAIN occurrence /\ HappensFor[i.date] = i.event
                   /\ occurrence[i.date].public
                   /\ wanted # AnyVenue => occurrence[i.date].venue = wanted
           /\ \E h \in hits :
                 /\ h.event = i.event /\ h.score = i.score
                 /\ \/ h.context = [scope |-> "event"]
                    \/ /\ i.date # NoOccurrence
                       /\ h.context \in {[scope |-> "venue", venue |-> occurrence[i.date].venue],
                                         [scope |-> "occurrence", venue |-> occurrence[i.date].venue,
                                          occurrence |-> i.date]}
    BY ItemFits
  <2>2. QED
    BY <1>1, <1>2, <2>1 DEF EvidenceFits
<1>4. BestShown'
  <2>1. /\ MatchedEvents' = MatchedEvents
        /\ \A e : ShownDate(e)' = ShownDate(e)
        /\ \A h, o : Holds(h, o)' = Holds(h, o)
    BY <1>1 DEF MatchedEvents, ShownDate, FilteredDates, DatesOf, Holds
  <2>2. \A h \in hits :
           \/ h.event \notin MatchedEvents \/ ~ Holds(h, ShownDate(h.event)) \/ h.score < Floor
           \/ \E i \in answer' : i.event = h.event /\ i.score >= h.score
           \/ \E i \in answer' : 2 * i.score > 5 * h.score
           \/ Cardinality(answer') = PageSize /\ \A i \in answer' : i.score >= h.score
    BY <1>0, <1>1, PageShowsBest
  <2>3. QED
    BY <1>1, <2>1, <2>2 DEF BestShown
<1>5. SearchTypeOK'
  BY <1>0, <1>1 DEF SearchTypeOK
<1>6. QED
  BY <1>1, <1>3, <1>4, <1>5 DEF SearchInv, AnswersHold

LEMMA MoveInv == ASSUME SearchInv, Move PROVE SearchInv'
<1>1. UNCHANGED <<wanted, search, eligible, hits, answer>> /\ search \in {"eligible", "ranked"}
  BY DEF Move
<1>2. DOMAIN occurrence' \subseteq Occurrences /\ occurrence' \in [DOMAIN occurrence' -> Written]
  <2>0. DOMAIN occurrence \subseteq Occurrences /\ occurrence \in [DOMAIN occurrence -> Written]
    BY DEF SearchInv, SearchTypeOK
  <2>1. CASE UNCHANGED occurrence
    BY <2>0, <2>1
  <2>2. ASSUME NEW o \in Occurrences, NEW w \in Written,
               occurrence' = [p \in DOMAIN occurrence \cup {o} |->
                                IF p = o THEN w ELSE occurrence[p]]
        PROVE  DOMAIN occurrence' \subseteq Occurrences
               /\ occurrence' \in [DOMAIN occurrence' -> Written]
    BY <2>0, <2>2
  <2>3. ASSUME NEW o \in Occurrences,
               occurrence' = [p \in DOMAIN occurrence \ {o} |-> occurrence[p]]
        PROVE  DOMAIN occurrence' \subseteq Occurrences
               /\ occurrence' \in [DOMAIN occurrence' -> Written]
    BY <2>0, <2>3
  <2>4. QED
    BY <2>1, <2>2, <2>3 DEF Move
<1>3. QED
  BY <1>1, <1>2 DEF SearchInv, SearchTypeOK

LEMMA ReadEligibleInv == ASSUME SearchInv, ReadEligible PROVE SearchInv'
<1>1. /\ search = "asked" /\ search' \in {"too broad", "answered", "eligible"}
      /\ UNCHANGED <<fitting, occurrence, moves, wanted, hits, answer>>
  BY DEF ReadEligible
<1>2. hits' = {} /\ answer' = {}
  BY <1>1 DEF SearchInv
<1>3. AnswersHold'
  BY <1>2 DEF AnswersHold, EvidenceFits, BestShown
<1>4. QED
  BY <1>1, <1>2, <1>3 DEF SearchInv, SearchTypeOK

LEMMA RankInv == ASSUME SearchInv, Rank PROVE SearchInv'
<1>1. /\ search = "eligible" /\ search' = "ranked"
      /\ UNCHANGED <<fitting, occurrence, moves, wanted, eligible, answer>>
  BY DEF Rank
<1>2. PICK found \in Found : hits' = SemanticHits(found)
  BY DEF Rank
<1>3. found \in SUBSET Evidence /\ IsFiniteSet(found)
  <2>1. CASE found = {}
    BY <2>1, FS_EmptySet
  <2>2. ASSUME NEW h \in Evidence, NEW g \in Evidence, found = {h, g}
        PROVE  found \in SUBSET Evidence /\ IsFiniteSet(found)
    <3>1. IsFiniteSet({h}) /\ {h, g} = {h} \cup {g}
      BY FS_Singleton
    <3>2. QED
      BY <2>2, <3>1, FS_AddElement
  <2>3. QED
    BY <2>1, <2>2 DEF Found
<1>4. hits' \in SUBSET found /\ \A h \in hits' : h.event \in eligible
  BY <1>2 DEF SemanticHits
<1>5. IsFiniteSet(hits')
  BY <1>3, <1>4, FS_Subset
<1>6. QED
  BY <1>1, <1>3, <1>4, <1>5 DEF SearchInv, SearchTypeOK

LEMMA SearchInvStep == SearchInv /\ [SearchNext]_searchVars => SearchInv'
<1> SUFFICES ASSUME SearchInv, [SearchNext]_searchVars PROVE SearchInv'
  OBVIOUS
<1>1. CASE Move
  BY <1>1, MoveInv
<1>2. CASE ReadEligible
  BY <1>2, ReadEligibleInv
<1>3. CASE Rank
  BY <1>3, RankInv
<1>4. CASE Rehydrate
  BY <1>4, RehydrateInv
<1>5. CASE Unavailable
  BY <1>5 DEF SearchInv, SearchTypeOK, Unavailable
<1>6. CASE UNCHANGED searchVars
  <2>1. AnswersHold' = AnswersHold
    BY <1>6 DEF searchVars, AnswersHold, EvidenceFits, BestShown, MatchedEvents, ShownDate,
                FilteredDates, DatesOf, Holds
  <2>2. QED
    BY <1>6, <2>1 DEF SearchInv, SearchTypeOK, searchVars
<1>7. QED
  BY <1>1, <1>2, <1>3, <1>4, <1>5, <1>6 DEF SearchNext

\* However the index lags and whatever changes meanwhile, what an answer shows holds
\* as it is shown, and what holds is left out only for results that are better.
THEOREM SearchAnswersHold == SearchSpec => []AnswersHold
<1>1. SearchInv => AnswersHold
  BY DEF SearchInv, AnswersHold, EvidenceFits, BestShown
<1>2. QED
  BY <1>1, SearchInvInit, SearchInvStep, PTL DEF SearchSpec

----------------------------------------------------------------------------
(* Resolution. Each step leaves in the answer under way what fits the        *)
(* question: one of the areas asked for at each place of its list, as they   *)
(* stood in the one snapshot the request read, and for each word what it     *)
(* names within its target.                                                  *)

Areas == [region : Regions, level : AreaLevels]
Snapshots == [Regions -> AreaLevels \cup {Gone}]
Stages == {"place", "areas", "slots"} \cup Concluded

\* The areas found are the first of those asked for, of a level that was asked for, and,
\* unless they come with their boundaries, as they stood in the one snapshot.
FoundAreasFit ==
    /\ resolving.areas \in Seq(Areas) /\ Len(resolving.areas) <= Len(AskedAreas(question))
    /\ \A i \in DOMAIN resolving.areas :
          AskedAreas(question)[i] \in {AnyLevel, resolving.areas[i].level}
    /\ ~ question.boundary => \A i \in DOMAIN resolving.areas :
          resolving.seen[resolving.areas[i].region] = resolving.areas[i].level
MomentsFit ==
    /\ stored \in Snapshots \cap moments
    /\ resolving.seen \in Snapshots \cap moments
StageFits ==
    /\ resolving.at \in Stages
    /\ resolving.at = "place" => resolving.placed = "nowhere"
    /\ resolving.at \in {"areas", "slots", "executed"} =>
          (question.place = "none" <=> resolving.placed = "nowhere")
    /\ resolving.at \in {"slots", "executed"} => Len(resolving.areas) = Len(AskedAreas(question))
    /\ resolving.at = "executed" =>
          SlotsLeft = {} /\ ~ Contradicting /\ Cardinality(Targets) = TargetsAsked
Parts == {"at", "placed", "seen", "areas", "inventory", "fields"}
ResolutionInv ==
    /\ question \in PlanWords
    /\ DOMAIN resolving = Parts /\ resolving = [p \in Parts |-> resolving[p]]
    /\ FoundAreasFit /\ MomentsFit /\ StageFits /\ VenuesFit

LEMMA AskedIsSequence == ASSUME question \in PlanWords PROVE Len(AskedAreas(question)) \in Nat
<1> DEFINE L == AreaLevels \cup {AnyLevel}
<1>1. question.areas \in Seq(L) /\ question.targetAreas \in Seq(L)
  <2>1. question.areas \in UNION {[1..n -> L] : n \in 0..2}
        /\ question.targetAreas \in {<<>>, <<AnyLevel, AnyLevel>>}
    BY DEF PlanWords
  <2>2. PICK n \in 0..2 : question.areas \in [1..n -> L]
    BY <2>1
  <2>3. question.areas \in Seq(L)
    BY <2>2
  <2>4. <<>> \in Seq(L) /\ <<AnyLevel, AnyLevel>> \in Seq(L)
    OBVIOUS
  <2>5. QED
    BY <2>1, <2>3, <2>4
<1> HIDE DEF L
<1>2. AskedAreas(question) \in Seq(L)
  BY <1>1 DEF AskedAreas
<1>3. QED
  BY <1>2

LEMMA ResolutionInvInit == ResolutionInit => ResolutionInv
<1> SUFFICES ASSUME ResolutionInit PROVE ResolutionInv
  OBVIOUS
<1>1. question \in PlanWords /\ stored \in [Regions -> AreaLevels] /\ moments = {stored}
  BY DEF ResolutionInit
<1>2. resolving = [at |-> "place", placed |-> "nowhere", seen |-> stored, areas |-> <<>>,
                   inventory |-> "none", fields |-> {}]
  BY DEF ResolutionInit, Begun
<1>3. DOMAIN resolving = Parts /\ resolving = [p \in Parts |-> resolving[p]]
  BY <1>2 DEF Parts
<1>4. /\ resolving.at = "place" /\ resolving.placed = "nowhere" /\ resolving.seen = stored
      /\ resolving.areas = <<>> /\ resolving.fields = {}
  BY <1>2
<1>5. FoundAreasFit
  <2>1. <<>> \in Seq(Areas) /\ Len(<<>>) = 0 /\ DOMAIN <<>> = {}
    OBVIOUS
  <2>2. QED
    BY <1>1, <1>4, <2>1, AskedIsSequence DEF FoundAreasFit
<1>6. MomentsFit
  BY <1>1, <1>4 DEF MomentsFit, Snapshots
<1>7. StageFits
  BY <1>4 DEF StageFits, Stages
<1>8. VenuesFit
  BY <1>4 DEF VenuesFit, Field
<1>9. QED
  BY <1>1, <1>3, <1>5, <1>6, <1>7, <1>8 DEF ResolutionInv

\* A step that only goes on to a stage.
LEMMA StepKeeps ==
    ASSUME ResolutionInv, NEW at, Step(at)
    PROVE  /\ UNCHANGED <<setup, question, stored, moments>>
           /\ DOMAIN resolving' = Parts /\ resolving' = [p \in Parts |-> resolving'[p]]
           /\ resolving'.at = at
           /\ resolving'.placed = resolving.placed /\ resolving'.seen = resolving.seen
           /\ resolving'.areas = resolving.areas /\ resolving'.fields = resolving.fields
BY DEF Step, ResolutionInv, Parts

\* What a stage is reached with.
StageReached(at) ==
    /\ at \in Stages
    /\ at # "place"
    /\ at \in {"areas", "slots", "executed"} =>
          (question.place = "none" <=> resolving.placed = "nowhere")
    /\ at \in {"slots", "executed"} => Len(resolving.areas) = Len(AskedAreas(question))
    /\ at = "executed" => SlotsLeft = {} /\ ~ Contradicting /\ Cardinality(Targets) = TargetsAsked

LEMMA StepInv ==
    ASSUME ResolutionInv, NEW at, Step(at), StageReached(at)
    PROVE  ResolutionInv'
<1>1. /\ UNCHANGED <<setup, question, stored, moments>>
      /\ DOMAIN resolving' = Parts /\ resolving' = [p \in Parts |-> resolving'[p]]
      /\ resolving'.at = at
      /\ resolving'.placed = resolving.placed /\ resolving'.seen = resolving.seen
      /\ resolving'.areas = resolving.areas /\ resolving'.fields = resolving.fields
  BY StepKeeps
<1>2. FoundAreasFit'
  BY <1>1 DEF ResolutionInv, FoundAreasFit
<1>3. MomentsFit'
  BY <1>1 DEF ResolutionInv, MomentsFit
<1>4. VenuesFit'
  BY <1>1 DEF ResolutionInv, VenuesFit, Field, AreaOfVenues
<1>5. /\ SlotsLeft' = SlotsLeft /\ Contradicting' = Contradicting
      /\ Targets' = Targets /\ TargetsAsked' = TargetsAsked
  BY <1>1 DEF SlotsLeft, Contradicting, Field, TypesSaid, Targets, TargetsAsked
<1>6. StageFits'
  BY <1>1, <1>5 DEF StageReached, StageFits
<1>7. QED
  BY <1>1, <1>2, <1>3, <1>4, <1>6 DEF ResolutionInv

LEMMA EndsInv ==
    ASSUME ResolutionInv, NEW at \in {"clarified", "refused", "failed"}, Step(at)
    PROVE  ResolutionInv'
BY StepInv DEF StageReached, Stages, Concluded

LEMMA ImportInv == ASSUME ResolutionInv, Import PROVE ResolutionInv'
<1>1. /\ UNCHANGED <<setup, question, resolving>>
      /\ stored' \in Snapshots /\ moments' = moments \cup {stored'}
  BY DEF Import, Snapshots
<1>2. FoundAreasFit' /\ VenuesFit'
  BY <1>1 DEF ResolutionInv, FoundAreasFit, VenuesFit, Field, AreaOfVenues
<1>3. MomentsFit'
  BY <1>1 DEF ResolutionInv, MomentsFit
<1>4. StageFits'
  BY <1>1 DEF ResolutionInv, StageFits, SlotsLeft, Contradicting, Field, TypesSaid, Targets, TargetsAsked
<1>5. QED
  BY <1>1, <1>2, <1>3, <1>4 DEF ResolutionInv

LEMMA PlacedInv ==
    ASSUME ResolutionInv, NEW by, by # "nowhere", question.place # "none", PlacedBy(by)
    PROVE  ResolutionInv'
<1>1. /\ UNCHANGED <<setup, question, stored, moments>>
      /\ DOMAIN resolving' = Parts /\ resolving' = [p \in Parts |-> resolving'[p]]
      /\ resolving'.at = "areas"
      /\ resolving'.placed = by /\ resolving'.seen = resolving.seen
      /\ resolving'.areas = resolving.areas /\ resolving'.fields = resolving.fields
  BY DEF PlacedBy, Advance, ResolutionInv, Parts
<1>2. FoundAreasFit' /\ MomentsFit'
  BY <1>1 DEF ResolutionInv, FoundAreasFit, MomentsFit
<1>3. VenuesFit'
  BY <1>1 DEF ResolutionInv, VenuesFit, Field, AreaOfVenues
<1>4. StageFits'
  BY <1>1 DEF StageFits, Stages
<1>5. QED
  BY <1>1, <1>2, <1>3, <1>4 DEF ResolutionInv

LEMMA ResolvePlaceInv == ASSUME ResolutionInv, ResolvePlace PROVE ResolutionInv'
<1>1. CASE Step("clarified") \/ Step("failed")
  BY <1>1, EndsInv
<1>2. CASE question.place = "none" /\ Step("areas")
  <2>1. StageReached("areas")
    BY <1>2 DEF StageReached, Stages, ResolutionInv, StageFits, ResolvePlace
  <2>2. QED
    BY <1>2, <2>1, StepInv
<1>3. ASSUME NEW by, by # "nowhere", question.place # "none", PlacedBy(by)
      PROVE  ResolutionInv'
  BY <1>3, PlacedInv
<1>4. QED
  BY <1>1, <1>2, <1>3 DEF ResolvePlace

\* One more area is found: of a level that was asked for, as it stands in the snapshot.
LEMMA IdentifiedInv ==
    ASSUME ResolutionInv, resolving.at = "areas", AreasLeft,
           NEW r \in Regions, NEW level \in AreaLevels, NEW seen \in Snapshots \cap moments,
           NextAsked \in {AnyLevel, level},
           resolving.areas # <<>> => seen = resolving.seen,
           ~ question.boundary => level = seen[r],
           Identified(r, level, seen)
    PROVE  ResolutionInv'
<1> DEFINE new == [region |-> r, level |-> level]
<1>1. /\ UNCHANGED <<setup, question, stored, moments>>
      /\ DOMAIN resolving' = Parts /\ resolving' = [p \in Parts |-> resolving'[p]]
      /\ resolving'.at = "areas"
      /\ resolving'.placed = resolving.placed /\ resolving'.seen = seen
      /\ resolving'.areas = Append(resolving.areas, new)
      /\ resolving'.fields = resolving.fields
  BY DEF Identified, Advance, ResolutionInv, Parts
<1>2. new \in Areas /\ new.region = r /\ new.level = level
  BY DEF Areas
<1>3. /\ resolving.areas \in Seq(Areas) /\ Len(resolving.areas) \in Nat
      /\ Len(AskedAreas(question)) \in Nat /\ Len(resolving.areas) < Len(AskedAreas(question))
  BY AskedIsSequence DEF ResolutionInv, FoundAreasFit, AreasLeft
<1> HIDE DEF new
<1>4. /\ resolving'.areas \in Seq(Areas) /\ Len(resolving'.areas) = Len(resolving.areas) + 1
      /\ DOMAIN resolving'.areas = 1 .. Len(resolving.areas) + 1
      /\ resolving'.areas[Len(resolving.areas) + 1] = new
      /\ \A i \in 1 .. Len(resolving.areas) : resolving'.areas[i] = resolving.areas[i]
  BY <1>1, <1>2, <1>3
<1>5. FoundAreasFit'
  <2> SUFFICES ASSUME NEW i \in DOMAIN resolving'.areas
               PROVE  /\ AskedAreas(question)[i] \in {AnyLevel, resolving'.areas[i].level}
                      /\ ~ question.boundary => seen[resolving'.areas[i].region] = resolving'.areas[i].level
    BY <1>1, <1>3, <1>4 DEF FoundAreasFit
  <2>1. CASE i = Len(resolving.areas) + 1
    BY <1>2, <1>4, <2>1 DEF NextAsked
  <2>2. CASE i # Len(resolving.areas) + 1
    <3>1. i \in 1 .. Len(resolving.areas) /\ i \in DOMAIN resolving.areas
      BY <1>3, <1>4, <2>2
    <3>2. resolving'.areas[i] = resolving.areas[i] /\ resolving.areas # <<>>
      BY <1>3, <1>4, <3>1
    <3>3. QED
      BY <3>1, <3>2 DEF ResolutionInv, FoundAreasFit
  <2>3. QED
    BY <2>1, <2>2
<1>6. MomentsFit'
  BY <1>1 DEF ResolutionInv, MomentsFit
<1>7. VenuesFit'
  BY <1>1 DEF ResolutionInv, VenuesFit, Field, AreaOfVenues
<1>8. StageFits'
  BY <1>1 DEF ResolutionInv, StageFits, Stages
<1>9. QED
  BY <1>1, <1>5, <1>6, <1>7, <1>8 DEF ResolutionInv

LEMMA StoredAreaInv == ASSUME ResolutionInv, StoredArea PROVE ResolutionInv'
<1>1. resolving.at = "areas" /\ ~ question.boundary /\ AreasLeft
  BY DEF StoredArea
<1>2. CASE Step("clarified")
  BY <1>2, EndsInv
<1>3. ASSUME NEW rank \in [Regions -> Ranks],
             NEW r \in BestRanked(rank, {a \in Regions : Seen[a] # Gone /\ NextAsked \in {AnyLevel, Seen[a]}}),
             Identified(r, Seen[r], Seen)
      PROVE  ResolutionInv'
  <2>1. r \in Regions /\ Seen[r] # Gone /\ NextAsked \in {AnyLevel, Seen[r]}
    BY <1>3 DEF BestRanked
  <2>2. Seen \in Snapshots \cap moments /\ (resolving.areas # <<>> => Seen = resolving.seen)
    BY DEF ResolutionInv, MomentsFit, Seen
  <2>3. Seen[r] \in AreaLevels
    BY <2>1, <2>2 DEF Snapshots
  <2>4. QED
    BY <1>1, <1>3, <2>1, <2>2, <2>3, IdentifiedInv
<1>4. QED
  BY <1>2, <1>3 DEF StoredArea

LEMMA BoundaryAreaInv == ASSUME ResolutionInv, BoundaryArea PROVE ResolutionInv'
<1>1. resolving.at = "areas" /\ question.boundary /\ AreasLeft
  BY DEF BoundaryArea
<1>2. CASE Step("failed") \/ Step("refused")
  BY <1>2, EndsInv
<1>3. ASSUME NEW rank \in [Regions -> Ranks], NEW level \in [Regions -> AreaLevels \cup {AnyLevel}],
             NEW r \in BestRanked(rank, {a \in Regions : level[a] # AnyLevel /\ NextAsked \in {AnyLevel, level[a]}}),
             Identified(r, level[r], resolving.seen)
      PROVE  ResolutionInv'
  <2>1. r \in Regions /\ level[r] # AnyLevel /\ NextAsked \in {AnyLevel, level[r]}
    BY <1>3 DEF BestRanked
  <2>2. resolving.seen \in Snapshots \cap moments /\ level[r] \in AreaLevels
    BY <2>1 DEF ResolutionInv, MomentsFit
  <2>3. QED
    BY <1>1, <1>3, <2>1, <2>2, IdentifiedInv
<1>4. QED
  BY <1>2, <1>3 DEF BoundaryArea

LEMMA FinishAreasInv == ASSUME ResolutionInv, FinishAreas PROVE ResolutionInv'
<1>1. resolving.at = "areas" /\ ~ AreasLeft
  BY DEF FinishAreas
<1>2. Len(resolving.areas) = Len(AskedAreas(question))
  <2>1. Len(resolving.areas) \in Nat /\ Len(AskedAreas(question)) \in Nat
        /\ Len(resolving.areas) <= Len(AskedAreas(question))
    BY AskedIsSequence DEF ResolutionInv, FoundAreasFit
  <2>2. QED
    BY <1>1, <2>1 DEF AreasLeft
<1>3. question.place = "none" <=> resolving.placed = "nowhere"
  BY <1>1 DEF ResolutionInv, StageFits
<1>4. CASE Step("refused")
  BY <1>4, EndsInv
<1>5. CASE Step("slots")
  <2>1. StageReached("slots")
    BY <1>2, <1>3 DEF StageReached, Stages
  <2>2. QED
    BY <1>5, <2>1, StepInv
<1>6. ASSUME NEW how, Advance([resolving EXCEPT !.at = "slots", !.inventory = how])
      PROVE  ResolutionInv'
  <2>1. /\ UNCHANGED <<setup, question, stored, moments>>
        /\ DOMAIN resolving' = Parts /\ resolving' = [p \in Parts |-> resolving'[p]]
        /\ resolving'.at = "slots"
        /\ resolving'.placed = resolving.placed /\ resolving'.seen = resolving.seen
        /\ resolving'.areas = resolving.areas /\ resolving'.fields = resolving.fields
    BY <1>6 DEF Advance, ResolutionInv, Parts
  <2>2. FoundAreasFit' /\ MomentsFit'
    BY <2>1 DEF ResolutionInv, FoundAreasFit, MomentsFit
  <2>3. VenuesFit'
    BY <2>1 DEF ResolutionInv, VenuesFit, Field, AreaOfVenues
  <2>4. StageFits'
    BY <1>2, <1>3, <2>1 DEF StageFits, Stages
  <2>5. QED
    BY <2>1, <2>2, <2>3, <2>4 DEF ResolutionInv
<1>7. QED
  BY <1>4, <1>5, <1>6 DEF FinishAreas

\* A word that means one thing: a venue, when it must be inside an area, is one inside.
LEMMA SelectInv ==
    ASSUME ResolutionInv, resolving.at = "slots", NEW field, NEW choices, NEW fallback,
           field = "venue" /\ AreaOfVenues => choices \subseteq SitesWithin,
           Select(field, choices, fallback)
    PROVE  ResolutionInv'
<1>1. CASE Step("clarified")
  BY <1>1, EndsInv
<1>2. ASSUME NEW c \in choices,
             Advance([resolving EXCEPT !.fields = @ \cup
                {[slot |-> Min(SlotsLeft), field |-> field, target |-> c, fallback |-> fallback]}])
      PROVE  ResolutionInv'
  <2> DEFINE new == [slot |-> Min(SlotsLeft), field |-> field, target |-> c, fallback |-> fallback]
  <2>0. new.field = field /\ new.target = c
    OBVIOUS
  <2>1. /\ UNCHANGED <<setup, question, stored, moments>>
        /\ DOMAIN resolving' = Parts /\ resolving' = [p \in Parts |-> resolving'[p]]
        /\ resolving'.at = resolving.at
        /\ resolving'.placed = resolving.placed /\ resolving'.seen = resolving.seen
        /\ resolving'.areas = resolving.areas /\ resolving'.fields = resolving.fields \cup {new}
    BY <1>2 DEF Advance, ResolutionInv, Parts
  <2>2. FoundAreasFit' /\ MomentsFit'
    BY <2>1 DEF ResolutionInv, FoundAreasFit, MomentsFit
  <2> HIDE DEF new
  <2>3. VenuesFit'
    BY <1>2, <2>0, <2>1 DEF ResolutionInv, VenuesFit, Field, AreaOfVenues
  <2>4. StageFits'
    BY <2>1 DEF ResolutionInv, StageFits
  <2>5. QED
    BY <2>1, <2>2, <2>3, <2>4 DEF ResolutionInv
<1>3. QED
  BY <1>1, <1>2 DEF Select

LEMMA WordsInv == ASSUME ResolutionInv, ResolveVenue \/ ResolveCategory \/ ResolveTaxonomy
                  PROVE  ResolutionInv'
<1>1. CASE ResolveVenue
  <2>1. PICK rank \in [Sites -> Ranks] :
           Select(Slots[Min(SlotsLeft)],
                  BestRanked(rank, IF AreaOfVenues THEN SitesWithin ELSE Sites), FALSE)
    BY <1>1 DEF ResolveVenue
  <2>2. AreaOfVenues => BestRanked(rank, IF AreaOfVenues THEN SitesWithin ELSE Sites) \subseteq SitesWithin
    BY DEF BestRanked
  <2>3. resolving.at = "slots"
    BY <1>1 DEF ResolveVenue, SlotIs
  <2>4. QED
    BY <2>1, <2>2, <2>3, SelectInv
<1>2. CASE ResolveCategory
  <2>1. PICK choices \in SUBSET Sites : Select("category", choices, FALSE)
    BY <1>2 DEF ResolveCategory
  <2>2. resolving.at = "slots"
    BY <1>2 DEF ResolveCategory, SlotIs
  <2>3. QED
    BY <2>1, <2>2, SelectInv
<1>3. CASE ResolveTaxonomy
  <2>1. resolving.at = "slots" /\ Slots[Min(SlotsLeft)] \in {"event_type", "genre"}
    BY <1>3 DEF ResolveTaxonomy, SlotIs
  <2>2. PICK choices, fallback : Select(FieldOf(Slots[Min(SlotsLeft)], choices), choices, fallback)
    BY <1>3 DEF ResolveTaxonomy
  <2>3. FieldOf(Slots[Min(SlotsLeft)], choices) # "venue"
    BY <2>1 DEF FieldOf
  <2>4. QED
    BY <2>1, <2>2, <2>3, SelectInv
<1>4. QED
  BY <1>1, <1>2, <1>3

LEMMA ConcludeInv == ASSUME ResolutionInv, Conclude PROVE ResolutionInv'
<1>1. resolving.at = "slots" /\ SlotsLeft = {}
  BY DEF Conclude
<1>2. CASE Step("clarified")
  BY <1>2, EndsInv
<1>3. CASE ~ Contradicting /\ Cardinality(Targets) = TargetsAsked /\ Step("executed")
  <2>1. StageReached("executed")
    BY <1>1, <1>3 DEF StageReached, Stages, Concluded, ResolutionInv, StageFits
  <2>2. QED
    BY <1>3, <2>1, StepInv
<1>4. QED
  BY <1>2, <1>3 DEF Conclude

LEMMA ResolutionInvStep == ResolutionInv /\ [ResolutionNext]_resolutionVars => ResolutionInv'
<1> SUFFICES ASSUME ResolutionInv, [ResolutionNext]_resolutionVars PROVE ResolutionInv'
  OBVIOUS
<1>1. CASE Import
  BY <1>1, ImportInv
<1>2. CASE ReadFails
  BY <1>2, EndsInv DEF ReadFails
<1>3. CASE ResolvePlace
  BY <1>3, ResolvePlaceInv
<1>4. CASE StoredArea
  BY <1>4, StoredAreaInv
<1>5. CASE BoundaryArea
  BY <1>5, BoundaryAreaInv
<1>6. CASE FinishAreas
  BY <1>6, FinishAreasInv
<1>7. CASE ResolveVenue \/ ResolveCategory \/ ResolveTaxonomy
  BY <1>7, WordsInv
<1>8. CASE Conclude
  BY <1>8, ConcludeInv
<1>9. CASE UNCHANGED resolutionVars
  <2>1. UNCHANGED <<setup, question, stored, moments, resolving>>
    BY <1>9 DEF resolutionVars
  <2>2. FoundAreasFit' /\ MomentsFit' /\ VenuesFit' /\ StageFits'
    BY <2>1 DEF ResolutionInv, FoundAreasFit, MomentsFit, VenuesFit, Field, AreaOfVenues, StageFits,
                SlotsLeft, Contradicting, TypesSaid, Targets, TargetsAsked
  <2>3. QED
    BY <2>1, <2>2 DEF ResolutionInv
<1>10. QED
  BY <1>1, <1>2, <1>3, <1>4, <1>5, <1>6, <1>7, <1>8, <1>9 DEF ResolutionNext

\* Whatever is imported meanwhile and whatever its words were taken for, a plan is
\* executed only with all its words, areas of one moment, and nothing that contradicts.
THEOREM PlansMeanWhatWasSaid == ResolutionSpec => []MeansWhatWasSaid
<1>1. ResolutionInv => MeansWhatWasSaid
  <2> SUFFICES ASSUME ResolutionInv, resolving.at = "executed" PROVE MeansWhatWasSaid
    BY DEF MeansWhatWasSaid
  <2>1. GenresFit /\ SlotsLeft = {} /\ Cardinality(Targets) = TargetsAsked
    BY DEF ResolutionInv, StageFits, Contradicting, GenresFit
  <2>2. ~ question.boundary => AreasOfOneMoment
    <3>1. resolving.seen \in moments
      BY DEF ResolutionInv, MomentsFit
    <3>2. QED
      BY <3>1 DEF ResolutionInv, FoundAreasFit, AreasOfOneMoment, Range
  <2>3. QED
    BY <2>1, <2>2 DEF ResolutionInv, StageFits, MeansWhatWasSaid
<1>2. QED
  BY <1>1, ResolutionInvInit, ResolutionInvStep, PTL DEF ResolutionSpec

----------------------------------------------------------------------------
(* Taxonomy thresholds. The options that calibration weighs are finitely     *)
(* many numbers between the scores it saw, so the threshold it picks is one  *)
(* of them, and a policy measured on a vocabulary decides every reviewed     *)
(* case of that vocabulary.                                                  *)

TaxonomyKinds == {"event_type", "genre"}
Vocabularies == [Entries -> Labels \cup {Unlisted}]

LEMMA FiniteUnion ==
    ASSUME NEW R, IsFiniteSet(R), NEW f, DOMAIN f = R, \A r \in R : IsFiniteSet(f[r])
    PROVE  IsFiniteSet(UNION {f[r] : r \in R})
<1> DEFINE T == {f[r] : r \in R}
<1>1. [r \in R |-> f[r]] \in Surjection(R, T)
  BY DEF Surjection
<1>2. IsFiniteSet(T) /\ \A t \in T : IsFiniteSet(t)
  <2>1. \A t \in T : IsFiniteSet(t)
    OBVIOUS
  <2> HIDE DEF T
  <2>2. QED
    BY <1>1, <2>1, FS_Surjection
<1> HIDE DEF T
<1>3. IsFiniteSet(UNION T)
  BY <1>2, FS_UNION
<1>4. QED
  BY <1>3 DEF T

LEMMA MaxIsGreatest ==
    ASSUME NEW S \in SUBSET Int, IsFiniteSet(S), S # {}
    PROVE  Max(S) \in S /\ \A t \in S : Max(S) >= t
<1>1. PICK s \in S : \A t \in S : t <= s
  BY GreatestNumber
<1>2. s \in Int /\ \A t \in S : t \in Int
  OBVIOUS
<1>3. \A t \in S : s >= t
  BY <1>1, <1>2
<1>4. QED
  BY <1>3 DEF Max

\* Some public points under labels a word can be compared with.
KnownFits(known) ==
    /\ DOMAIN known \subseteq Entries
    /\ \A e \in DOMAIN known : known[e].label \in Labels
LEMMA OfKindFits ==
    ASSUME NEW v \in Vocabularies, NEW kind
    PROVE  KnownFits(OfKind(Points(v), kind))
<1>1. DOMAIN Points(v) = Listed(v) /\ \A e \in Listed(v) : Points(v)[e].label = v[e]
  BY DEF Points
<1>2. \A e \in Listed(v) : e \in Entries /\ v[e] \in Labels
  BY DEF Listed, Vocabularies
<1>3. QED
  BY <1>1, <1>2 DEF KnownFits, OfKind

LEMMA ScoresFit ==
    ASSUME NEW known, KnownFits(known), NEW word \in Words
    PROVE  /\ IsFiniteSet({Score(known, word, e) : e \in DOMAIN known})
           /\ IsFiniteSet({Behind(known, word, e) : e \in DOMAIN known})
           /\ \A e \in DOMAIN known : Score(known, word, e) \in Int
           /\ \A e \in DOMAIN known : Behind(known, word, e) \in Int
<1> DEFINE scores == {Score(known, word, e) : e \in DOMAIN known}
           gaps == {Behind(known, word, e) : e \in DOMAIN known}
           score == [e \in DOMAIN known |-> Score(known, word, e)]
           gap == [e \in DOMAIN known |-> Behind(known, word, e)]
<1>1. \A e \in DOMAIN known : Score(known, word, e) \in Int
  <2> SUFFICES ASSUME NEW e \in DOMAIN known PROVE Score(known, word, e) \in Int
    OBVIOUS
  <2>1. e \in Entries /\ known[e].label \in Labels
    BY DEF KnownFits
  <2>2. Nearness \in [Words -> [Entries -> [Labels -> Int]]]
    BY TaxonomyAssumption
  <2>3. Nearness[word] \in [Entries -> [Labels -> Int]]
    BY <2>2
  <2>4. QED
    BY <2>1, <2>3 DEF Score
<1>2. IsFiniteSet(DOMAIN known)
  BY TaxonomyAssumption, FS_Subset DEF KnownFits
<1>3. score \in Surjection(DOMAIN known, scores) /\ gap \in Surjection(DOMAIN known, gaps)
  BY DEF Surjection
<1>4. IsFiniteSet(scores) /\ IsFiniteSet(gaps)
  <2> HIDE DEF score, gap, scores, gaps
  <2>1. QED
    BY <1>2, <1>3, FS_Surjection
<1>5. \A e \in DOMAIN known : Behind(known, word, e) \in Int
  <2> SUFFICES ASSUME NEW e \in DOMAIN known PROVE Behind(known, word, e) \in Int
    OBVIOUS
  <2>1. scores \in SUBSET Int /\ scores # {}
    BY <1>1
  <2>2. Closest(known, word) \in Int
    <3> HIDE DEF scores
    <3>1. Max(scores) \in Int
      BY <1>4, <2>1, MaxIsGreatest
    <3>2. QED
      BY <3>1 DEF scores, Closest
  <2>3. QED
    BY <1>1, <2>2 DEF Behind
<1>6. QED
  BY <1>1, <1>4, <1>5

RowsFit(rows) ==
    /\ IsFiniteSet(rows)
    /\ \A r \in rows : r.word \in Words /\ KnownFits(r.known)
Thresholds == [score : Int, margin : Int]

LEMMA OneMore ==
    ASSUME NEW S \in SUBSET Int, IsFiniteSet(S)
    PROVE  IsFiniteSet(S \cup {s + 1 : s \in S}) /\ S \cup {s + 1 : s \in S} \in SUBSET Int
<1> DEFINE T == {s + 1 : s \in S}
<1>1. [s \in S |-> s + 1] \in Surjection(S, T) /\ T \in SUBSET Int
  BY DEF Surjection
<1> HIDE DEF T
<1>2. IsFiniteSet(T)
  BY <1>1, FS_Surjection
<1>3. IsFiniteSet(S \cup T)
  BY <1>2, FS_Union
<1>4. QED
  BY <1>1, <1>3 DEF T

LEMMA OptionsFit ==
    ASSUME NEW rows, RowsFit(rows)
    PROVE  IsFiniteSet(Options(rows)) /\ Options(rows) \in SUBSET Thresholds
<1> DEFINE ofRow == [r \in rows |-> {Score(r.known, r.word, e) : e \in NearestOf(r)}]
           behindOf == [r \in rows |-> {Behind(r.known, r.word, e) : e \in NearestOf(r)}]
           scores == UNION {{Score(r.known, r.word, e) : e \in NearestOf(r)} : r \in rows}
           gaps == (UNION {{Behind(r.known, r.word, e) : e \in NearestOf(r)} : r \in rows}) \ {0}
           A == scores \cup {s + 1 : s \in scores}
           B == gaps \cup {g + 1 : g \in gaps}
<1>0. \A r \in rows : NearestOf(r) \subseteq DOMAIN r.known
  BY DEF NearestOf
<1>1. \A r \in rows : IsFiniteSet(ofRow[r]) /\ IsFiniteSet(behindOf[r])
  <2> SUFFICES ASSUME NEW r \in rows PROVE IsFiniteSet(ofRow[r]) /\ IsFiniteSet(behindOf[r])
    OBVIOUS
  <2> DEFINE all == {Score(r.known, r.word, e) : e \in DOMAIN r.known}
             behind == {Behind(r.known, r.word, e) : e \in DOMAIN r.known}
  <2>1. IsFiniteSet(all) /\ IsFiniteSet(behind)
    BY ScoresFit DEF RowsFit
  <2>2. ofRow[r] \in SUBSET all /\ behindOf[r] \in SUBSET behind
    BY <1>0
  <2> HIDE DEF ofRow, behindOf, all, behind
  <2>3. QED
    BY <2>1, <2>2, FS_Subset
<1>2. scores = UNION {ofRow[r] : r \in rows} /\ gaps = (UNION {behindOf[r] : r \in rows}) \ {0}
  OBVIOUS
<1>3. scores \in SUBSET Int /\ gaps \in SUBSET Int
  <2>1. \A r \in rows : \A e \in NearestOf(r) :
           Score(r.known, r.word, e) \in Int /\ Behind(r.known, r.word, e) \in Int
    BY <1>0, ScoresFit DEF RowsFit
  <2>2. QED
    BY <2>1
<1>4. DOMAIN ofRow = rows /\ DOMAIN behindOf = rows
  OBVIOUS
<1> HIDE DEF ofRow, behindOf
<1>5. IsFiniteSet(UNION {ofRow[r] : r \in rows}) /\ IsFiniteSet(UNION {behindOf[r] : r \in rows})
  BY <1>1, <1>4, FiniteUnion DEF RowsFit
<1>6. IsFiniteSet(scores) /\ IsFiniteSet(gaps)
  <2>1. IsFiniteSet((UNION {behindOf[r] : r \in rows}) \ {0})
    BY <1>5, FS_Difference
  <2> HIDE DEF scores, gaps
  <2>2. QED
    BY <1>2, <1>5, <2>1
<1>7. Options(rows) = {Off} \cup [score : A, margin : B]
  BY DEF Options
<1> HIDE DEF scores, gaps
<1>8. IsFiniteSet(A) /\ IsFiniteSet(B) /\ A \in SUBSET Int /\ B \in SUBSET Int
  BY <1>3, <1>6, OneMore
<1> HIDE DEF A, B
<1>9. IsFiniteSet([score : A, margin : B])
  <2> DEFINE f == [p \in A \X B |-> [score |-> p[1], margin |-> p[2]]]
  <2>1. IsFiniteSet(A \X B)
    BY <1>8, FS_Product
  <2>2. f \in Surjection(A \X B, [score : A, margin : B])
    <3>1. \A p \in A \X B : f[p] \in [score : A, margin : B]
      OBVIOUS
    <3>2. ASSUME NEW o \in [score : A, margin : B] PROVE \E p \in A \X B : f[p] = o
      <4>1. o.score \in A /\ o.margin \in B /\ o = [score |-> o.score, margin |-> o.margin]
        OBVIOUS
      <4>2. <<o.score, o.margin>> \in A \X B
        BY <4>1
      <4>3. f[<<o.score, o.margin>>] = o
        BY <4>1, <4>2
      <4>4. QED
        BY <4>2, <4>3
    <3>3. QED
      BY <3>1, <3>2 DEF Surjection
  <2> HIDE DEF f
  <2>3. QED
    BY <2>1, <2>2, FS_Surjection
<1>10. IsFiniteSet({Off}) /\ {Off} \in SUBSET Thresholds
  <2>1. IsFiniteSet({Off})
    BY FS_Singleton
  <2>2. Off \in Thresholds
    BY DEF Off, Thresholds
  <2>3. QED
    BY <2>1, <2>2
<1>11. [score : A, margin : B] \in SUBSET Thresholds
  BY <1>8 DEF Thresholds
<1>12. IsFiniteSet({Off} \cup [score : A, margin : B])
  BY <1>9, <1>10, FS_Union
<1>13. QED
  BY <1>7, <1>10, <1>11, <1>12

LEMMA HighestIsOption ==
    ASSUME NEW options \in SUBSET Thresholds, IsFiniteSet(options), options # {}
    PROVE  Highest(options) \in options
<1> DEFINE scores == {o.score : o \in options}
<1>1. scores \in SUBSET Int /\ scores # {}
  BY DEF Thresholds
<1>2. IsFiniteSet(scores)
  <2>1. [o \in options |-> o.score] \in Surjection(options, scores)
    BY DEF Surjection
  <2> HIDE DEF scores
  <2>2. QED
    BY <2>1, FS_Surjection
<1>3. PICK top \in scores : \A s \in scores : s <= top
  <2> HIDE DEF scores
  <2>1. QED
    BY <1>1, <1>2, GreatestNumber
<1> DEFINE best == {o \in options : o.score = top}
           margins == {o.margin : o \in best}
<1>4. margins \in SUBSET Int /\ margins # {} /\ IsFiniteSet(best)
  <2>1. margins \in SUBSET Int /\ margins # {}
    BY DEF Thresholds
  <2>2. best \in SUBSET options
    OBVIOUS
  <2> HIDE DEF best
  <2>3. QED
    BY <2>1, <2>2, FS_Subset
<1>5. IsFiniteSet(margins)
  <2>1. [o \in best |-> o.margin] \in Surjection(best, margins)
    BY DEF Surjection
  <2> HIDE DEF margins, best
  <2>2. QED
    BY <1>4, <2>1, FS_Surjection
<1>6. PICK wide \in margins : \A m \in margins : m <= wide
  <2> HIDE DEF margins
  <2>1. QED
    BY <1>4, <1>5, GreatestNumber
<1>7. PICK o \in options : o.score = top /\ o.margin = wide
  BY <1>6
<1>8. \A p \in options : p.score < o.score \/ (p.score = o.score /\ p.margin <= o.margin)
  <2> SUFFICES ASSUME NEW p \in options
               PROVE  p.score < o.score \/ (p.score = o.score /\ p.margin <= o.margin)
    OBVIOUS
  <2>1. p.score \in scores /\ p.score \in Int /\ o.score \in Int
    BY DEF Thresholds
  <2>2. p.score <= o.score
    BY <1>3, <1>7, <2>1
  <2>3. CASE p.score = o.score
    <3>1. p.margin \in margins
      BY <1>7, <2>3
    <3>2. QED
      BY <1>6, <1>7, <2>3, <3>1
  <2>4. CASE p.score # o.score
    BY <2>1, <2>2, <2>4
  <2>5. QED
    BY <2>3, <2>4
<1>9. QED
  BY <1>8 DEF Highest


\* The rows the options of a kind are taken from, in a vocabulary.
LEMMA RowsOfCases ==
    ASSUME NEW v \in Vocabularies, NEW cases \in SUBSET Cases,
           NEW known, \A c \in cases : KnownFits(known[c]),
           NEW rows, rows = {[word |-> c.word, known |-> known[c]] : c \in cases}
    PROVE  RowsFit(rows)
<1>1. IsFiniteSet(cases)
  BY TaxonomyAssumption, FS_Subset
<1>2. [c \in cases |-> [word |-> c.word, known |-> known[c]]] \in Surjection(cases, rows)
  BY DEF Surjection
<1>3. IsFiniteSet(rows)
  BY <1>1, <1>2, FS_Surjection
<1>4. \A r \in rows : r.word \in Words /\ KnownFits(r.known)
  BY TaxonomyAssumption
<1>5. QED
  BY <1>3, <1>4 DEF RowsFit

LEMMA OwnOptionsFit ==
    ASSUME NEW v \in Vocabularies, NEW kind, NEW cross
    PROVE  /\ IsFiniteSet(OwnOptions(kind, Points(v), cross))
           /\ OwnOptions(kind, Points(v), cross) \in SUBSET Thresholds
           /\ \A o \in OwnOptions(kind, Points(v), cross) : Safe(kind, Points(v), o, cross)
<1> DEFINE cases == {c \in Cases : c.kind = kind}
           known == [c \in cases |-> OfKind(Points(v), kind)]
           rows == {[word |-> c.word, known |-> known[c]] : c \in cases}
<1>1. \A c \in cases : KnownFits(known[c])
  BY OfKindFits
<1>2. OwnOptions(kind, Points(v), cross) = {o \in Options(rows) : Safe(kind, Points(v), o, cross)}
  <2>1. rows = {[word |-> c.word, known |-> OfKind(Points(v), kind)] : c \in cases}
    OBVIOUS
  <2>2. QED
    BY <2>1 DEF OwnOptions
<1>3. RowsFit(rows)
  <2> HIDE DEF known
  <2>1. QED
    BY <1>1, RowsOfCases
<1> HIDE DEF rows
<1>4. IsFiniteSet(Options(rows)) /\ Options(rows) \in SUBSET Thresholds
  BY <1>3, OptionsFit
<1>5. OwnOptions(kind, Points(v), cross) \in SUBSET Options(rows)
  BY <1>2
<1>6. IsFiniteSet(OwnOptions(kind, Points(v), cross))
  BY <1>4, <1>5, FS_Subset
<1>7. QED
  BY <1>2, <1>4, <1>5, <1>6

LEMMA AcrossOptionsFit ==
    ASSUME NEW v \in Vocabularies
    PROVE  /\ IsFiniteSet(AcrossOptions(Points(v)))
           /\ AcrossOptions(Points(v)) \in SUBSET Thresholds
           /\ \A x \in AcrossOptions(Points(v)) : \A kind \in TaxonomyKinds :
                 OwnOptions(kind, Points(v), x) # {}
<1> DEFINE known == [c \in Cases |-> OfKind(Points(v), Other(c.kind))]
           rows == {[word |-> c.word, known |-> known[c]] : c \in Cases}
<1>1. \A c \in Cases : KnownFits(known[c])
  BY OfKindFits
<1>2. rows = {[word |-> c.word, known |-> OfKind(Points(v), Other(c.kind))] : c \in Cases}
  OBVIOUS
<1>3. RowsFit(rows)
  <2> HIDE DEF known
  <2>1. QED
    BY <1>1, RowsOfCases
<1> HIDE DEF rows
<1>4. IsFiniteSet(Options(rows)) /\ Options(rows) \in SUBSET Thresholds
  BY <1>3, OptionsFit
<1>5. AcrossOptions(Points(v)) \in SUBSET Options(rows)
  BY <1>2 DEF AcrossOptions
<1>6. IsFiniteSet(AcrossOptions(Points(v)))
  BY <1>4, <1>5, FS_Subset
<1>7. QED
  BY <1>4, <1>5, <1>6 DEF AcrossOptions, TaxonomyKinds

\* Thresholds that were calibrated decide every reviewed case as it was reviewed.
DecidesCases(p, v) ==
    /\ p.cross \in Thresholds /\ \A kind \in TaxonomyKinds : p[kind] \in Thresholds
    /\ \A c \in Cases : Passes(c, Decided(Points(v), c.word, c.kind, p[c.kind], p.cross))
LEMMA CalibratedDecides ==
    ASSUME NEW v \in Vocabularies, NEW p \in Calibrated(v)
    PROVE  p.of = {v} /\ DecidesCases(p, v)
<1> DEFINE given == Points(v)
           options == AcrossOptions(given)
           cross == IF Off \in options THEN Off ELSE Highest(options)
           owns == Owns(given, cross)
<1>1. options # {} /\ p = [of |-> {v}, event_type |-> owns["event_type"], genre |-> owns["genre"],
                           cross |-> cross]
  BY DEF Calibrated
<1>2. cross \in options
  <2> HIDE DEF options
  <2>1. CASE Off \in options
    BY <2>1
  <2>2. CASE Off \notin options
    <3>1. Highest(options) \in options
      BY <1>1, AcrossOptionsFit, HighestIsOption DEF options
    <3>2. QED
      BY <2>2, <3>1
  <2>3. QED
    BY <2>1, <2>2
<1> HIDE DEF cross
<1>3. \A kind \in TaxonomyKinds : owns[kind] \in OwnOptions(kind, given, cross)
  <2> SUFFICES ASSUME NEW kind \in TaxonomyKinds PROVE owns[kind] \in OwnOptions(kind, given, cross)
    OBVIOUS
  <2>1. OwnOptions(kind, given, cross) # {}
    BY <1>2, AcrossOptionsFit
  <2>2. Highest(OwnOptions(kind, given, cross)) \in OwnOptions(kind, given, cross)
    BY <2>1, OwnOptionsFit, HighestIsOption
  <2>3. QED
    BY <2>2 DEF Owns, TaxonomyKinds
<1> HIDE DEF owns
<1>4. p.of = {v} /\ p.cross = cross /\ \A kind \in TaxonomyKinds : p[kind] = owns[kind]
  BY <1>1 DEF TaxonomyKinds
<1>5. ASSUME NEW c \in Cases
      PROVE  Passes(c, Decided(given, c.word, c.kind, p[c.kind], p.cross))
  <2>1. c.kind \in TaxonomyKinds
    BY TaxonomyAssumption DEF TaxonomyKinds
  <2>2. Safe(c.kind, given, owns[c.kind], cross)
    BY <1>3, <2>1, OwnOptionsFit
  <2>3. Passes(c, OfCase(c, given, owns[c.kind], cross))
    BY <2>2 DEF Safe
  <2>4. QED
    BY <1>4, <2>1, <2>3 DEF OfCase
<1>6. p.cross \in Thresholds /\ \A kind \in TaxonomyKinds : p[kind] \in Thresholds
  BY <1>2, <1>3, <1>4, AcrossOptionsFit, OwnOptionsFit
<1>7. QED
  BY <1>4, <1>5, <1>6 DEF DecidesCases

----------------------------------------------------------------------------
(* The limit of a query. Of points that are all known, and among which none  *)
(* is missing that was close to the word, the nearest ones tell none, one    *)
(* and several apart as all of them do.                                      *)

\* What counting to one and to two says of a finite set.
LEMMA OneOrTwo ==
    ASSUME NEW S, IsFiniteSet(S)
    PROVE  /\ Cardinality(S) = 1 <=> \E x : S = {x}
           /\ Cardinality(S) > 1 <=> \E x, y \in S : x # y
<1>1. Cardinality(S) = 1 <=> \E x : S = {x}
  BY FS_Singleton
<1>2. Cardinality(S) \in Nat /\ (Cardinality(S) = 0 <=> S = {})
  BY FS_CardinalityType, FS_EmptySet
<1>3. CASE S = {}
  BY <1>1, <1>2, <1>3
<1>4. CASE S # {}
  <2>1. Cardinality(S) > 1 <=> ~ \E x : S = {x}
    BY <1>1, <1>2, <1>4
  <2>2. (\E x, y \in S : x # y) <=> ~ \E x : S = {x}
    BY <1>4
  <2>3. QED
    BY <1>1, <2>1, <2>2
<1>5. QED
  BY <1>3, <1>4

Plausible(known, word, thresholds) ==
    {e \in Close(known, word, thresholds) : Score(known, word, e) >= thresholds.score}
Apart(known, word, thresholds) ==
    \/ \E x : Close(known, word, thresholds) = {x}
    \/ \E x, y \in Plausible(known, word, thresholds) : x # y
LEMMA ConfidentTells ==
    ASSUME NEW known, IsFiniteSet(DOMAIN known), NEW word, NEW thresholds, thresholds # Off
    PROVE  Confident(known, word, thresholds) =
               IF DOMAIN known = {} \/ Closest(known, word) < thresholds.score
                  \/ ~ Apart(known, word, thresholds)
               THEN {} ELSE Plausible(known, word, thresholds)
<1> DEFINE close == Close(known, word, thresholds)
           plausible == {e \in close : Score(known, word, e) >= thresholds.score}
<1>1. close \in SUBSET DOMAIN known /\ plausible \in SUBSET DOMAIN known
  BY DEF Close
<1>2. IsFiniteSet(close) /\ IsFiniteSet(plausible)
  <2> HIDE DEF close, plausible
  <2>1. QED
    BY <1>1, FS_Subset
<1>3. /\ Cardinality(close) = 1 <=> \E x : close = {x}
      /\ Cardinality(plausible) > 1 <=> \E x, y \in plausible : x # y
  <2> HIDE DEF close, plausible
  <2>1. QED
    BY <1>2, OneOrTwo
<1>4. Plausible(known, word, thresholds) = plausible
  BY DEF Plausible
<1>5. Cardinality(close) = 1 \/ Cardinality(plausible) > 1 <=> Apart(known, word, thresholds)
  BY <1>3, <1>4 DEF Apart
<1>6. Confident(known, word, thresholds) =
        IF DOMAIN known = {} \/ Closest(known, word) < thresholds.score THEN {}
        ELSE IF Cardinality(close) = 1 \/ Cardinality(plausible) > 1 THEN plausible ELSE {}
  BY DEF Confident
<1> HIDE DEF close, plausible
<1>7. QED
  BY <1>4, <1>5, <1>6

\* The nearest of some points is one of them, and nothing is behind it.
LEMMA ClosestIsOne ==
    ASSUME NEW known, KnownFits(known), NEW word \in Words, DOMAIN known # {}
    PROVE  /\ Closest(known, word) \in Int
           /\ \E m \in DOMAIN known : Score(known, word, m) = Closest(known, word)
           /\ \A e \in DOMAIN known : Score(known, word, e) <= Closest(known, word)
<1> DEFINE scores == {Score(known, word, e) : e \in DOMAIN known}
<1>1. scores \in SUBSET Int /\ IsFiniteSet(scores) /\ scores # {}
  <2>1. \A e \in DOMAIN known : Score(known, word, e) \in Int
    BY ScoresFit
  <2>2. IsFiniteSet(scores)
    BY ScoresFit
  <2>3. QED
    BY <2>1, <2>2
<1> HIDE DEF scores
<1>2. Max(scores) \in scores /\ \A t \in scores : Max(scores) >= t
  BY <1>1, MaxIsGreatest
<1>3. Closest(known, word) = Max(scores)
  BY DEF Closest, scores
<1>4. Max(scores) \in Int /\ \A t \in scores : t \in Int /\ t <= Max(scores)
  BY <1>1, <1>2
<1>5. QED
  BY <1>2, <1>3, <1>4 DEF scores

\* The points that came from a collection are as many as may, and nearest.
LEMMA HitsAre ==
    ASSUME NEW given, IsFiniteSet(DOMAIN given), NEW word, NEW returned \in Hits(given, word)
    PROVE  /\ DOMAIN returned \subseteq DOMAIN given /\ IsFiniteSet(DOMAIN returned)
           /\ \A e \in DOMAIN returned : returned[e] = given[e] /\ Score(returned, word, e) = Score(given, word, e)
           /\ \A e \in DOMAIN returned, f \in DOMAIN given \ DOMAIN returned :
                 Score(given, word, f) <= Score(given, word, e)
           /\ DOMAIN given # {} => DOMAIN returned # {}
           /\ DOMAIN returned # DOMAIN given => \E x, y \in DOMAIN returned : x # y
<1> DEFINE n == Cardinality(DOMAIN given)
<1>1. PICK T \in SUBSET DOMAIN given :
          /\ returned = Restrict(given, T)
          /\ Cardinality(T) = IF n < Limit THEN n ELSE Limit
          /\ \A e \in T, f \in DOMAIN given \ T : Score(given, word, f) <= Score(given, word, e)
  BY DEF Hits
<1>2. DOMAIN returned = T /\ \A e \in T : returned[e] = given[e]
  BY <1>1 DEF Restrict
<1>3. \A e \in T : Score(returned, word, e) = Score(given, word, e)
  BY <1>2 DEF Score
<1>4. IsFiniteSet(T) /\ (n = Cardinality(T) => DOMAIN given = T)
  BY FS_Subset
<1>5. n \in Nat /\ (n = 0 <=> DOMAIN given = {}) /\ (Cardinality(T) = 0 <=> T = {})
  BY <1>4, FS_CardinalityType, FS_EmptySet
<1>6. Limit \in Nat \ {0, 1}
  BY TaxonomyAssumption
<1> HIDE DEF n
<1>7. DOMAIN given # {} => T # {}
  BY <1>1, <1>5, <1>6
<1>8. ASSUME T # DOMAIN given PROVE \E x, y \in T : x # y
  <2>1. Cardinality(T) > 1
    BY <1>1, <1>4, <1>5, <1>6, <1>8
  <2>2. QED
    BY <1>4, <2>1, OneOrTwo
<1>9. QED
  BY <1>1, <1>2, <1>3, <1>4, <1>7, <1>8

\* How the answer from what was returned tells what all of the points would say.
SaysAs(chosen, whole) ==
    /\ chosen = {} => whole = {}
    /\ Cardinality(chosen) = 1 => whole = chosen

LEMMA NearestDecide ==
    ASSUME NEW known, KnownFits(known), NEW given, IsFiniteSet(DOMAIN given), NEW word \in Words,
           NEW thresholds \in Thresholds, thresholds # Off,
           NEW returned \in Hits(given, word),
           \A e \in DOMAIN returned : e \in DOMAIN known /\ returned[e] = known[e],
           \A e \in Close(known, word, thresholds) : e \in DOMAIN given /\ given[e] = known[e]
    PROVE  SaysAs(Confident(returned, word, thresholds), Confident(known, word, thresholds))
<1> DEFINE close == Close(known, word, thresholds)
           plausible == Plausible(known, word, thresholds)
           H == DOMAIN returned
<1>1. /\ H \subseteq DOMAIN given /\ IsFiniteSet(H)
      /\ \A e \in H : returned[e] = given[e] /\ Score(returned, word, e) = Score(given, word, e)
      /\ \A e \in H, f \in DOMAIN given \ H : Score(given, word, f) <= Score(given, word, e)
      /\ DOMAIN given # {} => H # {}
      /\ H # DOMAIN given => \E x, y \in H : x # y
  BY HitsAre
<1>2. KnownFits(returned) /\ H \subseteq DOMAIN known /\ IsFiniteSet(DOMAIN known)
  BY TaxonomyAssumption, FS_Subset DEF KnownFits
<1>3. \A e \in H : Score(returned, word, e) = Score(known, word, e) /\ Score(given, word, e) = Score(known, word, e)
  BY <1>1 DEF Score
<1>4. \A e \in close : Score(given, word, e) = Score(known, word, e) /\ e \in DOMAIN known /\ e \in DOMAIN given
  BY DEF Score, Close
<1>5. thresholds.score \in Int /\ thresholds.margin \in Int
  BY DEF Thresholds
<1>6. \A e \in DOMAIN known : Score(known, word, e) \in Int /\ Behind(known, word, e) \in Int
  BY ScoresFit
<1>7. CASE DOMAIN known = {}
  <2>1. Confident(returned, word, thresholds) = {} /\ Confident(known, word, thresholds) = {}
    BY <1>2, <1>7 DEF Confident
  <2>2. QED
    BY <2>1, FS_EmptySet DEF SaysAs
<1>8. CASE DOMAIN known # {}
  <2>1. PICK c, m : /\ c = Closest(known, word) /\ c \in Int
                    /\ m \in DOMAIN known /\ Score(known, word, m) = c
                    /\ \A e \in DOMAIN known : Score(known, word, e) <= c
    BY <1>8, ClosestIsOne
  <2>2. \A e \in DOMAIN known : Behind(known, word, e) = c - Score(known, word, e)
    BY <2>1 DEF Behind
  <2>3. \A e \in DOMAIN known : e \in close <=> c - Score(known, word, e) < thresholds.margin
    BY <2>2 DEF Close
  <2>4. \A e \in DOMAIN known : e \in plausible <=> e \in close /\ Score(known, word, e) >= thresholds.score
    BY DEF Plausible
  <2>5. CASE thresholds.margin <= 0
    <3>1. close = {}
      <4> SUFFICES ASSUME NEW e \in close PROVE FALSE
        OBVIOUS
      <4>1. Score(known, word, e) \in Int /\ Score(known, word, e) <= c /\ c - Score(known, word, e) < thresholds.margin
        BY <1>4, <1>6, <2>1, <2>3
      <4>2. QED
        BY <1>5, <2>1, <2>5, <4>1
    <3>2. plausible = {} /\ Confident(known, word, thresholds) = {}
      BY <1>2, <3>1, ConfidentTells DEF Plausible, Apart
    <3>3. Confident(returned, word, thresholds) = {}
      <4>1. CASE H = {}
        BY <4>1 DEF Confident
      <4>2. CASE H # {}
        <5>1. PICK d : d = Closest(returned, word) /\ d \in Int /\ \A e \in H : Score(returned, word, e) <= d
          BY <1>2, <4>2, ClosestIsOne
        <5>2. ASSUME NEW e \in Close(returned, word, thresholds) PROVE FALSE
          <6>1. e \in H /\ d - Score(returned, word, e) < thresholds.margin
            BY <5>1 DEF Close, Behind
          <6>2. Score(returned, word, e) \in Int /\ Score(returned, word, e) <= d
            BY <1>2, <1>3, <1>6, <5>1, <6>1
          <6>3. QED
            BY <1>5, <2>5, <5>1, <6>1, <6>2
        <5>3. QED
          BY <1>1, <5>2, ConfidentTells DEF Plausible, Apart
      <4>3. QED
        BY <4>1, <4>2
    <3>4. QED
      BY <3>2, <3>3, FS_EmptySet DEF SaysAs
  <2>6. CASE thresholds.margin > 0
    <3>1. m \in close /\ m \in DOMAIN given /\ Score(given, word, m) = c
      BY <1>4, <1>5, <2>1, <2>3, <2>6
    <3>2. H # {}
      BY <1>1, <3>1
    <3>3. \E h \in H : Score(known, word, h) = c
      <4>1. CASE m \in H
        BY <2>1, <4>1
      <4>2. CASE m \notin H
        <5>1. PICK h \in H : TRUE
          BY <3>2
        <5>2. c <= Score(known, word, h) /\ Score(known, word, h) <= c /\ Score(known, word, h) \in Int
          BY <1>1, <1>2, <1>3, <1>6, <2>1, <3>1, <4>2, <5>1
        <5>3. QED
          BY <2>1, <5>2
      <4>3. QED
        BY <4>1, <4>2
    <3>4. Closest(returned, word) = c
      <4>1. PICK d, g : /\ d = Closest(returned, word) /\ d \in Int
                        /\ g \in H /\ Score(returned, word, g) = d
                        /\ \A e \in H : Score(returned, word, e) <= d
        BY <1>2, <3>2, ClosestIsOne
      <4>2. PICK h \in H : Score(known, word, h) = c
        BY <3>3
      <4>3. c <= d /\ d <= c
        BY <1>2, <1>3, <2>1, <4>1, <4>2
      <4>4. QED
        BY <2>1, <4>1, <4>3
    <3>5. Close(returned, word, thresholds) = close \cap H
      BY <1>2, <1>3, <2>3, <3>4 DEF Close, Behind
    <3>6. Plausible(returned, word, thresholds) = plausible \cap H
      BY <1>2, <1>3, <3>5 DEF Plausible
    <3>7. m \in close /\ (\E h \in H : h \in close)
      BY <1>2, <1>5, <2>3, <2>1, <3>1, <3>3, <2>6
    \* A close point that did not come has only closer ones before it, and at least two.
    <3>8. ASSUME NEW e \in close, e \notin H
          PROVE  /\ H \subseteq close /\ (e \in plausible => H \subseteq plausible)
                 /\ \E x, y \in H : x # y
      <4>1. e \in DOMAIN given \ H /\ e \in DOMAIN known
        BY <1>4, <3>8
      <4>2. ASSUME NEW h \in H PROVE h \in close /\ (e \in plausible => h \in plausible)
        <5>1. /\ Score(known, word, e) <= Score(known, word, h) /\ h \in DOMAIN known
              /\ Score(known, word, e) \in Int /\ Score(known, word, h) \in Int
          BY <1>1, <1>2, <1>3, <1>4, <1>6, <4>1, <4>2
        <5>2. h \in close
          BY <1>5, <2>1, <2>3, <4>1, <5>1
        <5>3. QED
          BY <1>5, <2>4, <4>1, <5>1, <5>2
      <4>3. QED
        BY <1>1, <4>1, <4>2
    <3> HIDE DEF close, plausible, H
    <3>9. (\E x : close \cap H = {x}) => close \cap H = close
      BY <3>8
    <3>10. (\E x : close = {x}) => close \cap H = close
      BY <3>7
    <3>11. plausible \subseteq close
      BY DEF plausible, Plausible, close
    <3>12. (\E x, y \in plausible : x # y) => \E x, y \in plausible \cap H : x # y
      BY <3>8, <3>11
    <3>13. (\E x, y \in plausible \cap H : x # y) => \E x, y \in plausible : x # y
      OBVIOUS
    <3>14. Apart(known, word, thresholds) <=> (\E x : close = {x}) \/ \E x, y \in plausible : x # y
      BY DEF Apart, close, plausible
    <3>15. Apart(returned, word, thresholds)
             <=> (\E x : close \cap H = {x}) \/ \E x, y \in plausible \cap H : x # y
      BY <3>5, <3>6 DEF Apart
    <3>16. Apart(returned, word, thresholds) <=> Apart(known, word, thresholds)
      BY <3>9, <3>10, <3>12, <3>13, <3>14, <3>15
    <3>17. CASE c < thresholds.score \/ ~ Apart(known, word, thresholds)
      <4>1. Confident(returned, word, thresholds) = {} /\ Confident(known, word, thresholds) = {}
        BY <1>1, <1>2, <2>1, <3>4, <3>16, <3>17, ConfidentTells DEF H
      <4>2. QED
        BY <4>1, FS_EmptySet DEF SaysAs
    <3>18. CASE ~ (c < thresholds.score) /\ Apart(known, word, thresholds)
      <4>1. Confident(returned, word, thresholds) = plausible \cap H
        BY <1>1, <3>2, <3>4, <3>6, <3>16, <3>18, ConfidentTells DEF H
      <4>2. Confident(known, word, thresholds) = plausible
        BY <1>2, <1>8, <2>1, <3>18, ConfidentTells DEF plausible
      <4>3. plausible \cap H # {}
        <5>1. PICK h \in H : Score(known, word, h) = c
          BY <3>3
        <5>2. h \in DOMAIN known
          BY <1>2, <5>1 DEF H
        <5>3. h \in close
          BY <1>5, <2>1, <2>3, <2>6, <5>1, <5>2 DEF close
        <5>4. h \in plausible
          BY <1>5, <2>1, <2>4, <3>18, <5>1, <5>2, <5>3 DEF plausible, close
        <5>5. QED
          BY <5>1, <5>4
      <4>4. (\E x : plausible \cap H = {x}) => plausible \cap H = plausible
        BY <3>8, <3>11
      <4>5. IsFiniteSet(plausible \cap H)
        BY <1>1, FS_Subset DEF H
      <4>6. Cardinality(plausible \cap H) = 1 => plausible = plausible \cap H
        BY <4>4, <4>5, FS_Singleton
      <4>7. QED
        BY <4>1, <4>2, <4>3, <4>6 DEF SaysAs
    <3>19. QED
      BY <3>17, <3>18
  <2>7. QED
    BY <1>5, <2>5, <2>6
<1>9. QED
  BY <1>7, <1>8

----------------------------------------------------------------------------
(* Taxonomy answers. While a request compares a word with the points of the  *)
(* vocabulary it read, each point stays as the request knows it or is        *)
(* replaced by the one job that runs meanwhile, whose points carry another   *)
(* vocabulary; a page that holds such a point is refused.                    *)

\* One job within a request, and stale points that go with one delete request.
OneJob == MaxJobs \in {0, 1} /\ Cardinality(Entries) <= DeleteBatch

JobFields == {"at", "desired", "write", "delete"}
JobShape ==
    job # NoJob =>
        /\ DOMAIN job = JobFields /\ job = [f \in JobFields |-> job[f]]
        /\ \E w \in Vocabularies : job.desired = Points(w)
\* The job has written what it wants save what is left to write, and is to delete
\* whatever it does not want.
JobFits ==
    job # NoJob =>
        /\ job.write \subseteq DOMAIN job.desired
        /\ \A e \in DOMAIN job.desired \ job.write :
              e \in DOMAIN collection /\ collection[e] = job.desired[e]
        /\ job.delete = DOMAIN collection \ DOMAIN job.desired
\* A policy measured on one vocabulary decides the reviewed cases of that vocabulary.
PolicyFits == \A v \in Vocabularies : policy.of = {v} => DecidesCases(policy, v)

Comparing == {"scroll", "own", "across"}
FieldsOf(at) ==
    CASE at = "none" -> {"at"}
      [] at = "read" -> {"at", "word", "kind", "read", "jobs", "hidden"}
      [] at \in Comparing -> {"at", "word", "kind", "read", "jobs", "hidden", "own", "cross", "scroll"}
      [] at = "ended" -> {"at", "word", "kind", "chosen", "hidden"}
ProposalShape ==
    /\ proposal.at \in {"none", "ended"} \cup Deciding
    /\ DOMAIN proposal = FieldsOf(proposal.at)
    /\ proposal = [f \in FieldsOf(proposal.at) |-> proposal[f]]
    /\ proposal.at \in Deciding =>
          /\ proposal.read \in Vocabularies
          /\ proposal.word \in Words /\ proposal.kind \in TaxonomyKinds
          /\ proposal.jobs \in {0, 1} /\ (job # NoJob => proposal.jobs = 1)
    /\ proposal.at = "scroll" =>
          /\ DOMAIN proposal.scroll = {"offset", "points"}
          /\ proposal.scroll = [f \in {"offset", "points"} |-> proposal.scroll[f]]

\* The points as the request knows them; what a job that wants others made of them.
AsRead(e) ==
    IF e \in Listed(proposal.read)
    THEN e \in DOMAIN collection /\ collection[e] = Points(proposal.read)[e]
    ELSE e \notin DOMAIN collection
Foreign(given) == \A f \in DOMAIN given : given[f].of # proposal.read
\* The one job of the request wants points of another vocabulary, or is over; what it has
\* replaced.
JobSpent == proposal.jobs = 1 /\ (job # NoJob => Foreign(job.desired))
Swept == JobSpent /\ Foreign(collection)
Overwritten(e) == JobSpent /\ IF e \in DOMAIN collection THEN collection[e].of # proposal.read
                              ELSE Foreign(collection)
Untouched(set) == \A e \in set : AsRead(e) \/ Overwritten(e)
Before(offset) == {e \in Entries : e < offset}
\* What a page says of these entries is what the request knows.
Told(given, set) ==
    \A e \in set : IF e \in Listed(proposal.read)
                   THEN e \in DOMAIN given /\ given[e] = Points(proposal.read)[e]
                   ELSE e \notin DOMAIN given

\* The thresholds a request compares with decide, on the points it read, every reviewed
\* case of its word.
Vetted ==
    proposal.at \in Comparing =>
        /\ proposal.own \in Thresholds /\ proposal.cross \in Thresholds
        /\ \A c \in Cases : c.word = proposal.word /\ c.kind = proposal.kind =>
              Passes(c, Decided(Points(proposal.read), proposal.word, proposal.kind,
                                proposal.own, proposal.cross))
\* The pages read so far are points before the offset; pages that tell the request what
\* it knows were read from points that are so, or replaced since.
ScrollFits ==
    proposal.at = "scroll" =>
        /\ proposal.scroll.offset \in Nat \ {0}
        /\ DOMAIN proposal.scroll.points \subseteq Before(proposal.scroll.offset)
        /\ Told(proposal.scroll.points, Before(proposal.scroll.offset))
              => Untouched(Before(proposal.scroll.offset))
WholeFits == proposal.at \in {"own", "across"} => Untouched(Entries)
\* A word is compared across kinds when its own kind gave no confident answer, unless a
\* point that matters was hidden.
OwnSilent ==
    proposal.at = "across" =>
        \/ proposal.hidden \/ Swept
        \/ Confident(OfKind(Points(proposal.read), proposal.kind), proposal.word, proposal.own) = {}
WindowFits == Vetted /\ ScrollFits /\ WholeFits /\ OwnSilent

\* The inductive invariant.
TaxonomyInv ==
    /\ vocabulary \in Vocabularies /\ DOMAIN collection \subseteq Entries
    /\ JobShape /\ JobFits /\ PolicyFits /\ ProposalShape
    /\ WindowFits /\ ReviewedAnswers

LEMMA PointsOf ==
    ASSUME NEW v \in Vocabularies
    PROVE  /\ DOMAIN Points(v) = Listed(v) /\ Listed(v) \subseteq Entries
           /\ \A e \in Listed(v) : Points(v)[e].of = v
BY DEF Points, Listed

LEMMA TaxonomyInvInit == TaxonomyInit => TaxonomyInv
<1> SUFFICES ASSUME TaxonomyInit PROVE TaxonomyInv
  OBVIOUS
<1>1. vocabulary \in Vocabularies
  BY DEF TaxonomyInit, Vocabularies
<1>2. DOMAIN collection = {} /\ job = NoJob /\ proposal = [at |-> "none"] /\ policy.of = {}
  BY DEF TaxonomyInit, Uncalibrated, NoProposal
<1>3. proposal.at = "none" /\ DOMAIN proposal = {"at"} /\ proposal = [f \in {"at"} |-> proposal[f]]
  BY <1>2
<1>4. ProposalShape
  <2>1. FieldsOf("none") = {"at"}
    BY DEF FieldsOf, Comparing
  <2>2. QED
    BY <1>3, <2>1 DEF ProposalShape, Deciding
<1>5. WindowFits /\ ReviewedAnswers
  BY <1>3 DEF WindowFits, Vetted, ScrollFits, WholeFits, OwnSilent, Comparing, ReviewedAnswers
<1>6. PolicyFits
  BY <1>2 DEF PolicyFits
<1>7. QED
  BY <1>1, <1>2, <1>4, <1>5, <1>6 DEF TaxonomyInv, JobShape, JobFits

\* A job wants the points the request knows, or none of their vocabulary.
LEMMA JobWants ==
    ASSUME TaxonomyInv, job # NoJob, proposal.at \in Deciding, ~ Foreign(job.desired)
    PROVE  job.desired = Points(proposal.read) /\ ~ JobSpent
<1>1. PICK w \in Vocabularies : job.desired = Points(w)
  BY DEF TaxonomyInv, JobShape
<1>2. PICK f \in DOMAIN job.desired : job.desired[f].of = proposal.read
  BY DEF Foreign
<1>3. w = proposal.read
  BY <1>1, <1>2, PointsOf
<1>4. QED
  BY <1>1, <1>3 DEF JobSpent

\* Every point stays as the request knows it, or is replaced by a job that wants others.
Lasts ==
    /\ \A e \in Entries : AsRead(e) \/ Overwritten(e) => AsRead(e)' \/ Overwritten(e)'
    /\ Swept => Swept'
SameRequest ==
    \/ proposal.at \notin Deciding /\ proposal' = proposal
    \/ /\ proposal.at \in Deciding
       /\ DOMAIN proposal' = DOMAIN proposal
       /\ proposal' = [f \in DOMAIN proposal |-> proposal'[f]]
       /\ \A f \in DOMAIN proposal \ {"jobs"} : proposal'[f] = proposal[f]
       /\ proposal'.jobs \in {0, 1} /\ (job' # NoJob => proposal'.jobs = 1)

LEMMA RequestKept ==
    ASSUME TaxonomyInv, SameRequest
    PROVE  /\ proposal'.at = proposal.at /\ ProposalShape'
           /\ proposal.at \in Deciding =>
                 /\ proposal'.word = proposal.word /\ proposal'.kind = proposal.kind
                 /\ proposal'.read = proposal.read /\ proposal'.hidden = proposal.hidden
           /\ proposal.at \in Comparing =>
                 /\ proposal'.own = proposal.own /\ proposal'.cross = proposal.cross
                 /\ proposal'.scroll = proposal.scroll
<1>0. ProposalShape
  BY DEF TaxonomyInv
<1>1. CASE proposal.at \notin Deciding /\ proposal' = proposal
  <2>1. proposal.at \notin Comparing /\ proposal.at # "scroll"
    BY <1>1 DEF Comparing, Deciding
  <2>2. QED
    BY <1>0, <1>1, <2>1 DEF ProposalShape
<1>2. CASE proposal.at \in Deciding
  <2>1. /\ DOMAIN proposal' = DOMAIN proposal
        /\ proposal' = [f \in DOMAIN proposal |-> proposal'[f]]
        /\ \A f \in DOMAIN proposal \ {"jobs"} : proposal'[f] = proposal[f]
        /\ proposal'.jobs \in {0, 1} /\ (job' # NoJob => proposal'.jobs = 1)
    BY <1>2 DEF SameRequest
  <2>2. {"at", "word", "kind", "read", "hidden"} \subseteq DOMAIN proposal
    BY <1>0, <1>2 DEF ProposalShape, FieldsOf, Deciding, Comparing
  <2>3. /\ proposal'.at = proposal.at
        /\ proposal'.word = proposal.word /\ proposal'.kind = proposal.kind
        /\ proposal'.read = proposal.read /\ proposal'.hidden = proposal.hidden
    BY <2>1, <2>2
  <2>4. proposal.at \in Comparing => {"own", "cross", "scroll"} \subseteq DOMAIN proposal
    BY <1>0 DEF ProposalShape, FieldsOf, Comparing
  <2>5. proposal.at \in Comparing =>
          /\ proposal'.own = proposal.own /\ proposal'.cross = proposal.cross
          /\ proposal'.scroll = proposal.scroll
    BY <2>1, <2>4
  <2>6. ProposalShape'
    BY <1>0, <1>2, <2>1, <2>3, <2>5 DEF ProposalShape, Comparing
  <2>7. QED
    BY <2>3, <2>5, <2>6
<1>3. QED
  BY <1>1, <1>2 DEF SameRequest

LEMMA WindowKept ==
    ASSUME TaxonomyInv, SameRequest, proposal.at \in Comparing => Lasts
    PROVE  ProposalShape' /\ WindowFits' /\ ReviewedAnswers'
<1>1. /\ proposal'.at = proposal.at /\ ProposalShape'
      /\ proposal.at \in Deciding =>
            /\ proposal'.word = proposal.word /\ proposal'.kind = proposal.kind
            /\ proposal'.read = proposal.read /\ proposal'.hidden = proposal.hidden
      /\ proposal.at \in Comparing =>
            /\ proposal'.own = proposal.own /\ proposal'.cross = proposal.cross
            /\ proposal'.scroll = proposal.scroll
  BY RequestKept
<1>2. ReviewedAnswers'
  <2>1. CASE proposal.at = "ended"
    <3>1. proposal' = proposal
      BY <2>1 DEF SameRequest, Deciding
    <3>2. QED
      BY <3>1 DEF TaxonomyInv, ReviewedAnswers
  <2>2. CASE proposal.at # "ended"
    BY <1>1, <2>2 DEF ReviewedAnswers
  <2>3. QED
    BY <2>1, <2>2
<1>3. CASE proposal.at \notin Comparing
  BY <1>1, <1>2, <1>3 DEF WindowFits, Vetted, ScrollFits, WholeFits, OwnSilent, Comparing
<1>4. CASE proposal.at \in Comparing
  <2>0. Lasts /\ proposal.at \in Deciding
    BY <1>4 DEF Comparing, Deciding
  <2>1. Vetted'
    BY <1>1, <1>4, <2>0 DEF TaxonomyInv, WindowFits, Vetted
  <2>2. ScrollFits'
    <3> SUFFICES ASSUME proposal.at = "scroll" PROVE ScrollFits'
      BY <1>1 DEF ScrollFits
    <3> DEFINE o == proposal.scroll.offset
    <3>1. o \in Nat \ {0} /\ DOMAIN proposal.scroll.points \subseteq Before(o)
          /\ (Told(proposal.scroll.points, Before(o)) => Untouched(Before(o)))
      BY DEF TaxonomyInv, WindowFits, ScrollFits
    <3>2. Told(proposal.scroll.points, Before(o))' = Told(proposal.scroll.points, Before(o))
      BY <1>1, <1>4, <2>0 DEF Told, Before
    <3>3. Untouched(Before(o)) => Untouched(Before(o))'
      BY <1>1, <2>0, <1>4 DEF Untouched, Lasts, Before
    <3>4. QED
      BY <1>1, <1>4, <3>1, <3>2, <3>3 DEF ScrollFits, Before
  <2>3. WholeFits'
    BY <1>1, <2>0 DEF TaxonomyInv, WindowFits, WholeFits, Untouched, Lasts
  <2>4. OwnSilent'
    BY <1>1, <1>4, <2>0 DEF TaxonomyInv, WindowFits, OwnSilent, Lasts
  <2>5. QED
    BY <1>1, <1>2, <2>1, <2>2, <2>3, <2>4 DEF WindowFits
<1>5. QED
  BY <1>3, <1>4

----------------------------------------------------------------------------
LEMMA StartJobInv == ASSUME OneJob, TaxonomyInv, NEW rebuild \in BOOLEAN, StartJob(rebuild) PROVE TaxonomyInv'
<1> DEFINE desired == Points(vocabulary)
           write == {e \in DOMAIN desired : rebuild \/ e \notin DOMAIN collection
                                             \/ collection[e] # desired[e]}
           started == [at |-> "writing", desired |-> desired, write |-> write,
                       delete |-> DOMAIN collection \ DOMAIN desired]
<1>1. /\ job = NoJob /\ UNCHANGED <<vocabulary, relabels, collection, measured, policy>>
      /\ job' = started
  BY DEF StartJob
<1>2. /\ DOMAIN job' = JobFields /\ job' = [f \in JobFields |-> job'[f]]
      /\ job'.desired = desired /\ job'.write = write
      /\ job'.delete = DOMAIN collection \ DOMAIN desired
  <2> HIDE DEF desired, write
  <2>1. QED
    BY <1>1 DEF JobFields
<1>3. JobShape' /\ JobFits'
  BY <1>1, <1>2 DEF JobShape, JobFits, TaxonomyInv
<1>4. SameRequest
  <2>1. CASE proposal.at \notin Deciding
    BY <2>1 DEF StartJob, SameRequest
  <2>2. CASE proposal.at \in Deciding
    <3>1. proposal.jobs < MaxJobs /\ proposal' = [proposal EXCEPT !.jobs = @ + 1]
      BY <2>2 DEF StartJob
    <3>2. proposal.jobs \in {0, 1} /\ "jobs" \in DOMAIN proposal
          /\ proposal = [f \in DOMAIN proposal |-> proposal[f]]
      BY <2>2 DEF TaxonomyInv, ProposalShape, FieldsOf, Deciding, Comparing
    <3>3. proposal.jobs = 0
      BY <3>1, <3>2 DEF OneJob
    <3>4. QED
      BY <2>2, <3>1, <3>2, <3>3 DEF SameRequest
  <2>3. QED
    BY <2>1, <2>2
<1>5. proposal.at \in Comparing => Lasts
  <2> SUFFICES ASSUME proposal.at \in Comparing PROVE Lasts
    OBVIOUS
  <2>1. proposal.at \in Deciding
    BY DEF Comparing, Deciding
  <2>2. proposal.jobs < MaxJobs /\ proposal.jobs \in {0, 1}
    BY <2>1 DEF StartJob, TaxonomyInv, ProposalShape
  <2>3. ~ JobSpent
    BY <2>2 DEF OneJob, JobSpent
  <2>4. proposal'.read = proposal.read
    BY <1>4, <2>1, RequestKept
  <2>5. QED
    BY <1>1, <2>3, <2>4 DEF Lasts, AsRead, Overwritten, Swept
<1>6. ProposalShape' /\ WindowFits' /\ ReviewedAnswers'
  BY <1>4, <1>5, WindowKept
<1>7. QED
  BY <1>1, <1>3, <1>6 DEF TaxonomyInv, PolicyFits, DecidesCases

LEMMA WriteInv == ASSUME TaxonomyInv, Write PROVE TaxonomyInv'
<1> DEFINE batch == Smallest(job.write, UpsertBatch)
<1>0. /\ job # NoJob /\ job.write # {} /\ UNCHANGED <<vocabulary, relabels, measured, policy, proposal>>
      /\ collection' = [e \in DOMAIN collection \cup batch |->
                          IF e \in batch THEN job.desired[e] ELSE collection[e]]
      /\ job' = [job EXCEPT !.write = @ \ batch]
  BY DEF Write
<1>1. batch \subseteq job.write
  BY DEF Smallest
<1> HIDE DEF batch
<1>2. DOMAIN job = JobFields /\ job = [f \in JobFields |-> job[f]]
  BY <1>0 DEF TaxonomyInv, JobShape
<1>3. /\ DOMAIN job' = JobFields /\ job' = [f \in JobFields |-> job'[f]]
      /\ job'.desired = job.desired /\ job'.write = job.write \ batch /\ job'.delete = job.delete
  BY <1>0, <1>2 DEF JobFields
<1>4. /\ job.write \subseteq DOMAIN job.desired
      /\ \A e \in DOMAIN job.desired \ job.write :
            e \in DOMAIN collection /\ collection[e] = job.desired[e]
      /\ job.delete = DOMAIN collection \ DOMAIN job.desired
      /\ DOMAIN job.desired \subseteq Entries
  BY <1>0, PointsOf DEF TaxonomyInv, JobFits, JobShape
<1>5. /\ DOMAIN collection' = DOMAIN collection \cup batch
      /\ \A e \in batch : collection'[e] = job.desired[e]
      /\ \A e \in DOMAIN collection \ batch : collection'[e] = collection[e]
  BY <1>0
<1>6. JobShape' /\ JobFits' /\ DOMAIN collection' \subseteq Entries
  <2>1. JobShape'
    BY <1>0, <1>3 DEF TaxonomyInv, JobShape
  <2>2. JobFits'
    BY <1>1, <1>3, <1>4, <1>5 DEF JobFits
  <2>3. QED
    BY <1>1, <1>4, <1>5, <2>1, <2>2 DEF TaxonomyInv
<1>7. SameRequest
  BY <1>0 DEF SameRequest, TaxonomyInv, ProposalShape
<1>8. proposal.at \in Comparing => Lasts
  <2> SUFFICES ASSUME proposal.at \in Comparing PROVE Lasts
    OBVIOUS
  <2>1. proposal.at \in Deciding
    BY DEF Comparing, Deciding
  <2>2. proposal.jobs = 1 /\ job' # NoJob
    <3>1. job' # NoJob
      BY <1>3 DEF NoJob, JobFields
    <3>2. QED
      BY <1>0, <2>1, <3>1 DEF TaxonomyInv, ProposalShape
  <2>3. CASE Foreign(job.desired)
    <3>1. JobSpent'
      BY <1>0, <1>3, <2>2, <2>3 DEF JobSpent, Foreign
    <3>2. \A e \in batch : e \in DOMAIN collection' /\ collection'[e].of # proposal.read
      BY <1>1, <1>4, <1>5, <2>3 DEF Foreign
    <3>3. Foreign(collection) => Foreign(collection)'
      BY <1>0, <1>5, <3>2 DEF Foreign
    <3>4. Swept => Swept'
      BY <3>1, <3>3 DEF Swept
    <3>5. ASSUME NEW e \in Entries, AsRead(e) \/ Overwritten(e)
          PROVE  AsRead(e)' \/ Overwritten(e)'
      <4>1. CASE e \in batch
        BY <1>0, <3>1, <3>2, <4>1 DEF Overwritten
      <4>2. CASE e \notin batch
        <5>1. (e \in DOMAIN collection' <=> e \in DOMAIN collection)
              /\ (e \in DOMAIN collection => collection'[e] = collection[e])
          BY <1>5, <4>2
        <5>2. QED
          BY <1>0, <3>1, <3>3, <3>5, <5>1 DEF AsRead, Overwritten
      <4>3. QED
        BY <4>1, <4>2
    <3>6. QED
      BY <3>4, <3>5 DEF Lasts
  <2>4. CASE ~ Foreign(job.desired)
    <3>1. job.desired = Points(proposal.read) /\ ~ JobSpent
      BY <1>0, <2>1, <2>4, JobWants
    <3>2. proposal.read \in Vocabularies
      BY <2>1 DEF TaxonomyInv, ProposalShape
    <3>3. DOMAIN job.desired = Listed(proposal.read)
      BY <3>1, <3>2, PointsOf
    <3>4. ASSUME NEW e \in Entries, AsRead(e) PROVE AsRead(e)'
      <4>1. CASE e \in batch
        BY <1>0, <1>1, <1>4, <1>5, <3>1, <3>3, <4>1 DEF AsRead
      <4>2. CASE e \notin batch
        BY <1>0, <1>5, <3>4, <4>2 DEF AsRead
      <4>3. QED
        BY <4>1, <4>2
    <3>5. QED
      BY <3>1, <3>4 DEF Lasts, Overwritten, Swept
  <2>5. QED
    BY <2>3, <2>4
<1>9. ProposalShape' /\ WindowFits' /\ ReviewedAnswers'
  BY <1>7, <1>8, WindowKept
<1>10. QED
  BY <1>0, <1>6, <1>9 DEF TaxonomyInv, PolicyFits, DecidesCases

LEMMA AllAtOnce ==
    ASSUME OneJob, NEW S \in SUBSET Entries
    PROVE  Smallest(S, DeleteBatch) = S
<1> SUFFICES ASSUME NEW e \in S PROVE Cardinality({f \in S : f < e}) < DeleteBatch
  BY DEF Smallest
<1> DEFINE T == {f \in S : f < e}
<1>1. T \in SUBSET Entries /\ T # Entries
  <2>1. e \in Nat /\ ~ (e < e) /\ e \in Entries
    BY TaxonomyAssumption
  <2>2. QED
    BY <2>1
<1>2. IsFiniteSet(Entries) /\ DeleteBatch \in Nat
  BY TaxonomyAssumption
<1> HIDE DEF T
<1>3. /\ Cardinality(T) <= Cardinality(Entries) /\ Cardinality(T) # Cardinality(Entries)
      /\ Cardinality(T) \in Nat /\ Cardinality(Entries) \in Nat
  BY <1>1, <1>2, FS_Subset, FS_CardinalityType
<1>4. Cardinality(T) < DeleteBatch
  BY <1>2, <1>3 DEF OneJob
<1>5. QED
  BY <1>4 DEF T

LEMMA DeleteStaleInv == ASSUME OneJob, TaxonomyInv, DeleteStale PROVE TaxonomyInv'
<1>0. /\ job # NoJob /\ job.write = {} /\ UNCHANGED <<vocabulary, relabels, measured, policy, proposal>>
  BY DEF DeleteStale
<1>1. DOMAIN job = JobFields /\ job = [f \in JobFields |-> job[f]]
  BY <1>0 DEF TaxonomyInv, JobShape
<1>2. /\ \A e \in DOMAIN job.desired : e \in DOMAIN collection /\ collection[e] = job.desired[e]
      /\ job.delete = DOMAIN collection \ DOMAIN job.desired /\ job.delete \subseteq Entries
  BY <1>0 DEF TaxonomyInv, JobFits
<1>3. /\ collection' = [e \in DOMAIN collection \ job.delete |-> collection[e]]
      /\ job' = [job EXCEPT !.delete = @ \ job.delete]
  BY <1>2, AllAtOnce DEF DeleteStale
<1>4. /\ DOMAIN job' = JobFields /\ job' = [f \in JobFields |-> job'[f]]
      /\ job'.desired = job.desired /\ job'.write = {} /\ job'.delete = {}
  BY <1>0, <1>1, <1>3 DEF JobFields
<1>5. /\ DOMAIN collection' = DOMAIN job.desired
      /\ \A e \in DOMAIN job.desired : collection'[e] = job.desired[e]
  BY <1>2, <1>3
<1>6. JobShape' /\ JobFits' /\ DOMAIN collection' \subseteq Entries
  BY <1>0, <1>2, <1>4, <1>5 DEF TaxonomyInv, JobShape, JobFits
<1>7. SameRequest
  BY <1>0 DEF SameRequest, TaxonomyInv, ProposalShape
<1>8. proposal.at \in Comparing => Lasts
  <2> SUFFICES ASSUME proposal.at \in Comparing PROVE Lasts
    OBVIOUS
  <2>1. proposal.at \in Deciding
    BY DEF Comparing, Deciding
  <2>2. proposal.jobs = 1
    BY <1>0, <2>1 DEF TaxonomyInv, ProposalShape
  <2>3. CASE Foreign(job.desired)
    <3>1. JobSpent' /\ Foreign(collection)'
      BY <1>0, <1>4, <1>5, <2>2, <2>3 DEF JobSpent, Foreign
    <3>2. Swept'
      BY <3>1 DEF Swept
    <3>3. \A e \in Entries : Overwritten(e)'
      BY <3>1 DEF Overwritten, Foreign
    <3>4. QED
      BY <3>2, <3>3 DEF Lasts
  <2>4. CASE ~ Foreign(job.desired)
    <3>1. job.desired = Points(proposal.read) /\ ~ JobSpent
      BY <1>0, <2>1, <2>4, JobWants
    <3>2. proposal.read \in Vocabularies
      BY <2>1 DEF TaxonomyInv, ProposalShape
    <3>3. DOMAIN job.desired = Listed(proposal.read)
      BY <3>1, <3>2, PointsOf
    <3>4. \A e \in Entries : AsRead(e)'
      BY <1>0, <1>5, <3>1, <3>3 DEF AsRead
    <3>5. QED
      BY <3>1, <3>4 DEF Lasts, Swept
  <2>5. QED
    BY <2>3, <2>4
<1>9. ProposalShape' /\ WindowFits' /\ ReviewedAnswers'
  BY <1>7, <1>8, WindowKept
<1>10. QED
  BY <1>0, <1>6, <1>9 DEF TaxonomyInv, PolicyFits, DecidesCases

LEMMA EndJobInv == ASSUME TaxonomyInv, EndJob PROVE TaxonomyInv'
<1>1. job' = NoJob /\ UNCHANGED <<vocabulary, relabels, collection, measured, policy, proposal>>
  BY DEF EndJob
<1>2. SameRequest
  BY <1>1 DEF SameRequest, TaxonomyInv, ProposalShape
<1>3. Lasts
  BY <1>1 DEF Lasts, AsRead, Overwritten, Swept, JobSpent, Foreign
<1>4. ProposalShape' /\ WindowFits' /\ ReviewedAnswers'
  BY <1>2, <1>3, WindowKept
<1>5. QED
  BY <1>1, <1>4 DEF TaxonomyInv, PolicyFits, DecidesCases, JobShape, JobFits

\* Steps that touch neither the points nor the job nor the request.
LEMMA ElsewhereInv ==
    ASSUME TaxonomyInv, UNCHANGED <<collection, job, proposal>>,
           vocabulary' \in Vocabularies, PolicyFits'
    PROVE  TaxonomyInv'
<1>1. SameRequest
  BY DEF SameRequest, TaxonomyInv, ProposalShape
<1>2. Lasts
  BY DEF Lasts, AsRead, Overwritten, Swept, JobSpent, Foreign
<1>3. ProposalShape' /\ WindowFits' /\ ReviewedAnswers'
  BY <1>1, <1>2, WindowKept
<1>4. QED
  BY <1>3 DEF TaxonomyInv, JobShape, JobFits

LEMMA RelabelInv == ASSUME TaxonomyInv, Relabel PROVE TaxonomyInv'
<1>1. vocabulary' \in Vocabularies
  BY DEF TaxonomyInv, Relabel, Vocabularies
<1>2. UNCHANGED <<collection, job, measured, policy, proposal>>
  BY DEF Relabel
<1>3. PolicyFits'
  BY <1>2 DEF TaxonomyInv, PolicyFits, DecidesCases
<1>4. QED
  BY <1>1, <1>2, <1>3, ElsewhereInv

LEMMA MeasureInv == ASSUME TaxonomyInv, Measure PROVE TaxonomyInv'
<1>1. UNCHANGED <<vocabulary, collection, job, policy, proposal>>
  BY DEF Measure
<1>2. vocabulary' \in Vocabularies /\ PolicyFits'
  BY <1>1 DEF TaxonomyInv, PolicyFits, DecidesCases
<1>3. QED
  BY <1>1, <1>2, ElsewhereInv

LEMMA CalibrateInv == ASSUME TaxonomyInv, Calibrate PROVE TaxonomyInv'
<1>1. UNCHANGED <<vocabulary, collection, job, proposal>>
  BY DEF Calibrate
<1>2. policy' \in Calibrations
  BY DEF Calibrate
<1>3. PICK v \in Measurable : policy' \in Calibrated(v)
  BY <1>2 DEF Calibrations
<1>4. v \in Vocabularies
  BY DEF Measurable, Vocabularies
<1>5. policy'.of = {v} /\ DecidesCases(policy', v)
  BY <1>3, <1>4, CalibratedDecides
<1>6. PolicyFits'
  <2> SUFFICES ASSUME NEW w \in Vocabularies, policy'.of = {w} PROVE DecidesCases(policy', w)
    BY DEF PolicyFits, DecidesCases
  <2>1. w = v
    BY <1>5
  <2>2. QED
    BY <1>5, <2>1
<1>7. vocabulary' \in Vocabularies
  BY <1>1 DEF TaxonomyInv
<1>8. QED
  BY <1>1, <1>6, <1>7, ElsewhereInv

----------------------------------------------------------------------------
\* What the request decides leaves everything else alone.
LEMMA DecideInv ==
    ASSUME TaxonomyInv, UNCHANGED <<vocabulary, relabels, collection, job, measured, policy>>,
           ProposalShape', WindowFits', ReviewedAnswers'
    PROVE  TaxonomyInv'
BY DEF TaxonomyInv, JobShape, JobFits, PolicyFits, DecidesCases

\* What is chosen passes every reviewed case of the word.
FitsReview(chosen) ==
    Cardinality(chosen) = 1 =>
        \A c \in Cases : c.word = proposal.word /\ c.kind = proposal.kind => chosen = c.expects

EndedFields == {"at", "word", "kind", "chosen", "hidden"}
LEMMA EndedInv ==
    ASSUME TaxonomyInv, NEW chosen, NEW h,
           Decide([at |-> "ended", word |-> proposal.word, kind |-> proposal.kind, chosen |-> chosen,
                   hidden |-> h]),
           FitsReview(chosen) \/ h
    PROVE  TaxonomyInv'
<1>1. /\ proposal' = [at |-> "ended", word |-> proposal.word, kind |-> proposal.kind,
                      chosen |-> chosen, hidden |-> h]
      /\ UNCHANGED <<vocabulary, relabels, collection, job, measured, policy>>
  BY DEF Decide
<1>2. /\ proposal'.at = "ended" /\ DOMAIN proposal' = EndedFields
      /\ proposal' = [f \in EndedFields |-> proposal'[f]]
      /\ proposal'.word = proposal.word /\ proposal'.kind = proposal.kind /\ proposal'.chosen = chosen
      /\ proposal'.hidden = h
  BY <1>1 DEF EndedFields
<1>3. FieldsOf("ended") = EndedFields
  BY DEF FieldsOf, Comparing, EndedFields
<1>4. ProposalShape'
  BY <1>2, <1>3 DEF ProposalShape, Deciding
<1>5. WindowFits'
  BY <1>2 DEF WindowFits, Vetted, ScrollFits, WholeFits, OwnSilent, Comparing
<1>6. ReviewedAnswers'
  BY <1>2 DEF ReviewedAnswers, FitsReview
<1>7. QED
  BY <1>1, <1>4, <1>5, <1>6, DecideInv

LEMMA NothingInv == ASSUME TaxonomyInv, Decide(Ended({})) PROVE TaxonomyInv'
<1>1. FitsReview({})
  BY FS_EmptySet DEF FitsReview
<1>2. QED
  BY <1>1, EndedInv DEF Ended

LEMMA ProposeInv ==
    ASSUME TaxonomyInv, NEW word \in Words, NEW kind \in TaxonomyKinds, Propose(word, kind)
    PROVE  TaxonomyInv'
<1> DEFINE n == IF job = NoJob THEN 0 ELSE 1
<1>1. /\ proposal' = [at |-> "read", word |-> word, kind |-> kind, read |-> vocabulary, jobs |-> n,
                     hidden |-> FALSE]
      /\ UNCHANGED <<vocabulary, relabels, collection, job, measured, policy>>
  BY DEF Propose
<1>2. n \in {0, 1} /\ (job # NoJob => n = 1)
  OBVIOUS
<1> HIDE DEF n
<1>3. /\ proposal'.at = "read" /\ DOMAIN proposal' = {"at", "word", "kind", "read", "jobs", "hidden"}
      /\ proposal' = [f \in {"at", "word", "kind", "read", "jobs", "hidden"} |-> proposal'[f]]
      /\ proposal'.word = word /\ proposal'.kind = kind /\ proposal'.read = vocabulary /\ proposal'.jobs = n
  BY <1>1
<1>4. FieldsOf("read") = {"at", "word", "kind", "read", "jobs", "hidden"}
  BY DEF FieldsOf, Comparing
<1>5. ProposalShape'
  BY <1>1, <1>2, <1>3, <1>4 DEF ProposalShape, Deciding, TaxonomyInv
<1>6. WindowFits' /\ ReviewedAnswers'
  BY <1>3 DEF WindowFits, Vetted, ScrollFits, WholeFits, OwnSilent, Comparing, ReviewedAnswers
<1>7. QED
  BY <1>1, <1>5, <1>6, DecideInv

ComparingFields == {"at", "word", "kind", "read", "jobs", "hidden", "own", "cross", "scroll"}
LEMMA ComparingShape ==
    /\ FieldsOf("read") = {"at", "word", "kind", "read", "jobs", "hidden"}
    /\ \A at \in Comparing : FieldsOf(at) = ComparingFields
BY DEF FieldsOf, Comparing, ComparingFields

\* What a step of the comparison changes, and what it keeps.
LEMMA ScrollAnew ==
    ASSUME NEW F, "at" \in F, "scroll" \in F,
           NEW r, DOMAIN r = F, r = [f \in F |-> r[f]], NEW at, NEW x,
           NEW s, s = [r EXCEPT !.at = at, !.scroll = x]
    PROVE  /\ DOMAIN s = F /\ s = [f \in F |-> s[f]]
           /\ s.at = at /\ s.scroll = x
           /\ \A f \in F \ {"at", "scroll"} : s[f] = r[f]
<1>1. s = [f \in F |-> IF f = "scroll" THEN x ELSE IF f = "at" THEN at ELSE r[f]]
  OBVIOUS
<1>2. QED
  BY <1>1

LEMMA MovedTo ==
    ASSUME NEW F, "at" \in F, NEW r, DOMAIN r = F, r = [f \in F |-> r[f]], NEW at,
           NEW s, s = [r EXCEPT !.at = at]
    PROVE  /\ DOMAIN s = F /\ s = [f \in F |-> s[f]] /\ s.at = at
           /\ \A f \in F \ {"at"} : s[f] = r[f]
OBVIOUS

LEMMA Marked ==
    ASSUME NEW F, "hidden" \in F, NEW r, DOMAIN r = F, r = [f \in F |-> r[f]], NEW h,
           NEW s, s = [r EXCEPT !.hidden = h]
    PROVE  /\ DOMAIN s = F /\ s = [f \in F |-> s[f]] /\ s.hidden = h
           /\ \A f \in F \ {"hidden"} : s[f] = r[f]
OBVIOUS

LEMMA ConsultInv == ASSUME TaxonomyInv, Consult PROVE TaxonomyInv'
<1>0. proposal.at = "read" /\ proposal.at \in Deciding /\ proposal.read \in Vocabularies
      /\ proposal.word \in Words /\ proposal.kind \in TaxonomyKinds
      /\ proposal.jobs \in {0, 1} /\ (job # NoJob => proposal.jobs = 1)
  BY DEF Consult, TaxonomyInv, ProposalShape, Deciding
<1>1. CASE Decide(Ended({}))
  BY <1>1, NothingInv
<1>2. CASE Usable /\ Decide([at |-> "scroll", word |-> proposal.word, kind |-> proposal.kind,
                             read |-> proposal.read, jobs |-> proposal.jobs, hidden |-> FALSE,
                             own |-> policy[proposal.kind], cross |-> policy.cross, scroll |-> Unread])
  <2>1. UNCHANGED <<vocabulary, relabels, collection, job, measured, policy>>
    BY <1>2 DEF Decide
  <2>2. /\ proposal'.at = "scroll" /\ DOMAIN proposal' = ComparingFields
        /\ proposal' = [f \in ComparingFields |-> proposal'[f]]
        /\ proposal'.word = proposal.word /\ proposal'.kind = proposal.kind
        /\ proposal'.read = proposal.read /\ proposal'.jobs = proposal.jobs
        /\ proposal'.own = policy[proposal.kind] /\ proposal'.cross = policy.cross
        /\ proposal'.scroll = Unread
    BY <1>2 DEF Decide, ComparingFields
  <2>3. DOMAIN Unread = {"offset", "points"} /\ Unread = [f \in {"offset", "points"} |-> Unread[f]]
        /\ Unread.offset = 1 /\ DOMAIN Unread.points = {}
    BY DEF Unread
  <2>4. ProposalShape'
    BY <1>0, <2>1, <2>2, <2>3, ComparingShape DEF ProposalShape, Deciding, Comparing
  <2>5. Vetted'
    <3>1. DecidesCases(policy, proposal.read)
      BY <1>0, <1>2 DEF TaxonomyInv, PolicyFits, Usable
    <3>2. proposal'.own \in Thresholds /\ proposal'.cross \in Thresholds
      BY <1>0, <2>2, <3>1 DEF DecidesCases
    <3>3. \A c \in Cases : c.word = proposal'.word /\ c.kind = proposal'.kind =>
             Passes(c, Decided(Points(proposal'.read), proposal'.word, proposal'.kind,
                               proposal'.own, proposal'.cross))
      BY <2>2, <3>1 DEF DecidesCases
    <3>4. QED
      BY <3>2, <3>3 DEF Vetted
  <2>6. ScrollFits'
    <3>1. \A e \in Entries : e \in Nat \ {0}
      BY TaxonomyAssumption
    <3>2. \A e \in Entries : ~ (e < 1)
      BY <3>1
    <3>3. Before(1) = {}
      BY <3>2 DEF Before
    <3>4. QED
      BY <2>2, <2>3, <3>3 DEF ScrollFits, Untouched
  <2>7. WholeFits' /\ OwnSilent' /\ ReviewedAnswers'
    BY <2>2 DEF WholeFits, OwnSilent, ReviewedAnswers
  <2>8. QED
    BY <2>1, <2>4, <2>5, <2>6, <2>7, DecideInv DEF WindowFits
<1>3. QED
  BY <1>1, <1>2 DEF Consult

LEMMA LeastEntry ==
    ASSUME NEW S \in SUBSET Entries, S # {}
    PROVE  Min(S) \in S /\ \A e \in S : Min(S) <= e
<1>1. S \in SUBSET Nat
  BY TaxonomyAssumption
<1>2. PICK x \in S : \A y \in S : x <= y
  BY <1>1, LeastNatural
<1>3. QED
  BY <1>2 DEF Min

\* One more page tells of the points up to where it ends.
LEMMA PageTells ==
    ASSUME TaxonomyInv, proposal.at = "scroll",
           NEW next, next = Scrolled(proposal.scroll),
           NEW S, S = IF next.offset = 0 THEN Entries ELSE Before(next.offset),
           Told(next.points, S)
    PROVE  Untouched(S)
<1> DEFINE o == proposal.scroll.offset
           given == proposal.scroll.points
           rest == {e \in DOMAIN collection : e >= o}
           page == PageFrom(o)
           more == rest \ page
<1>1. /\ o \in Nat \ {0} /\ DOMAIN given \subseteq Before(o)
      /\ (Told(given, Before(o)) => Untouched(Before(o)))
      /\ DOMAIN collection \subseteq Entries
  BY DEF TaxonomyInv, WindowFits, ScrollFits
<1>2. DOMAIN proposal.scroll = {"offset", "points"}
  BY DEF TaxonomyInv, ProposalShape
<1>3. /\ next.offset = IF more = {} THEN 0 ELSE Min(more)
      /\ DOMAIN next.points = DOMAIN given \cup page
      /\ \A e \in DOMAIN given \cup page :
            next.points[e] = IF e \in page THEN collection[e] ELSE given[e]
  BY <1>2 DEF Scrolled
<1>4. page \subseteq rest /\ rest \subseteq Entries /\ more \in SUBSET Entries
      /\ \A e \in Entries : e \in Nat
  BY <1>1, TaxonomyAssumption DEF PageFrom
<1> HIDE DEF page, given, o
<1>5. \A e \in S : e \in Entries /\ (e \in rest => e \in page)
  <2>1. CASE more = {}
    BY <1>3, <1>4, <2>1
  <2>2. CASE more # {}
    <3>1. Min(more) \in more /\ \A e \in more : Min(more) <= e
      <4> HIDE DEF more
      <4>1. QED
        BY <1>4, <2>2, LeastEntry
    <3>2. next.offset = Min(more) /\ next.offset # 0 /\ next.offset \in Nat
      BY <1>3, <1>4, <2>2, <3>1, TaxonomyAssumption
    <3>3. S = Before(next.offset)
      BY <3>2
    <3>4. QED
      BY <1>4, <3>1, <3>2, <3>3 DEF Before
  <2>3. QED
    BY <2>1, <2>2
<1>6. Before(o) \subseteq S
  <2>1. CASE more = {}
    BY <1>3, <2>1 DEF Before
  <2>2. CASE more # {}
    <3>1. Min(more) \in more
      <4> HIDE DEF more
      <4>1. QED
        BY <1>4, <2>2, LeastEntry
    <3>2. next.offset = Min(more) /\ next.offset >= o /\ next.offset \in Nat /\ next.offset # 0
      BY <1>1, <1>3, <1>4, <2>2, <3>1, TaxonomyAssumption
    <3>3. QED
      BY <1>1, <1>4, <3>2 DEF Before
  <2>3. QED
    BY <2>1, <2>2
<1>7. \A e \in Before(o) : e \notin page
  BY <1>1, <1>4 DEF Before
<1>8. Told(given, Before(o))
  <2> SUFFICES ASSUME NEW e \in Before(o)
               PROVE  IF e \in Listed(proposal.read)
                      THEN e \in DOMAIN given /\ given[e] = Points(proposal.read)[e]
                      ELSE e \notin DOMAIN given
    BY DEF Told
  <2>1. e \in S /\ e \notin page
    BY <1>6, <1>7
  <2>2. QED
    BY <1>3, <2>1 DEF Told
<1>9. ASSUME NEW e \in S PROVE AsRead(e) \/ Overwritten(e)
  <2>1. CASE e \in Before(o)
    BY <1>1, <1>8, <2>1 DEF Untouched
  <2>2. CASE e \notin Before(o)
    <3>1. e \in Entries /\ e >= o /\ e \notin DOMAIN given
      BY <1>1, <1>4, <1>5, <2>2 DEF Before
    <3>2. e \in DOMAIN collection <=> e \in page
      BY <1>4, <1>5, <3>1
    <3>3. QED
      BY <1>3, <3>1, <3>2 DEF Told, AsRead
  <2>3. QED
    BY <2>1, <2>2
<1>10. QED
  BY <1>9 DEF Untouched

\* A page that does not end the scroll goes on after its last point.
LEMMA PageGoesOn ==
    ASSUME TaxonomyInv, proposal.at = "scroll",
           NEW next, next = Scrolled(proposal.scroll), next.offset # 0
    PROVE  /\ DOMAIN next = {"offset", "points"} /\ next = [f \in {"offset", "points"} |-> next[f]]
           /\ next.offset \in Nat \ {0} /\ DOMAIN next.points \subseteq Before(next.offset)
<1> DEFINE o == proposal.scroll.offset
           rest == {e \in DOMAIN collection : e >= o}
           page == PageFrom(o)
           more == rest \ page
<1>1. o \in Nat \ {0} /\ DOMAIN proposal.scroll.points \subseteq Before(o)
      /\ DOMAIN collection \subseteq Entries
  BY DEF TaxonomyInv, WindowFits, ScrollFits
<1>2. /\ DOMAIN proposal.scroll = {"offset", "points"}
      /\ proposal.scroll = [f \in {"offset", "points"} |-> proposal.scroll[f]]
  BY DEF TaxonomyInv, ProposalShape
<1>3. /\ next.offset = IF more = {} THEN 0 ELSE Min(more)
      /\ DOMAIN next.points = DOMAIN proposal.scroll.points \cup page
      /\ DOMAIN next = {"offset", "points"} /\ next = [f \in {"offset", "points"} |-> next[f]]
  BY <1>2 DEF Scrolled
<1>4. /\ page = {e \in rest : Cardinality({f \in rest : f < e}) < ScrollPage}
      /\ rest \in SUBSET Entries /\ more \in SUBSET Entries /\ more # {}
      /\ \A e \in Entries : e \in Nat \ {0}
  BY <1>1, <1>3, TaxonomyAssumption DEF PageFrom
<1> HIDE DEF page, o
<1>5. Min(more) \in more
  <2> HIDE DEF more
  <2>1. QED
    BY <1>4, LeastEntry
<1> DEFINE m == Min(more)
<1>6. m \in rest /\ m \notin page /\ m \in Nat \ {0} /\ m >= o /\ next.offset = m
  BY <1>3, <1>4, <1>5
<1> HIDE DEF m
<1>7. ASSUME NEW e \in page PROVE e \in Before(m)
  <2>1. e \in rest /\ e \in Nat /\ e # m /\ e \in Entries
    BY <1>4, <1>6
  <2>2. SUFFICES ASSUME m < e PROVE FALSE
    BY <1>6, <2>1 DEF Before
  <2> DEFINE A == {f \in rest : f < m}
             B == {f \in rest : f < e}
  <2>a. \A f \in rest : f \in Nat
    BY <1>4
  <2>b. m \in Nat /\ e \in Nat
    BY <1>6, <2>1
  <2> HIDE DEF rest
  <2>c. \A f \in rest : f < m => f < e
    BY <2>a, <2>b, <2>2
  <2>3. A \in SUBSET B /\ B \in SUBSET Entries
    BY <1>4, <2>c
  <2>4. Cardinality(B) < ScrollPage /\ ~ (Cardinality(A) < ScrollPage)
    BY <1>4, <1>6
  <2> HIDE DEF A, B
  <2>5. IsFiniteSet(B) /\ Cardinality(A) <= Cardinality(B)
        /\ Cardinality(A) \in Nat /\ Cardinality(B) \in Nat
    <3>1. IsFiniteSet(B)
      BY <2>3, TaxonomyAssumption, FS_Subset
    <3>2. QED
      BY <2>3, <3>1, FS_Subset, FS_CardinalityType
  <2>6. ScrollPage \in Nat
    BY TaxonomyAssumption
  <2>7. QED
    BY <2>4, <2>5, <2>6
<1>8. Before(o) \subseteq Before(m)
  BY <1>1, <1>4, <1>6 DEF Before
<1>9. QED
  BY <1>1, <1>3, <1>6, <1>7, <1>8 DEF o

LEMMA ScrollOnInv == ASSUME TaxonomyInv, ScrollOn PROVE TaxonomyInv'
<1>0. /\ proposal.at = "scroll" /\ proposal.at \in Comparing /\ proposal.at \in Deciding
      /\ DOMAIN proposal = ComparingFields /\ proposal = [f \in ComparingFields |-> proposal[f]]
      /\ ProposalShape /\ Vetted
  BY ComparingShape DEF ScrollOn, TaxonomyInv, ProposalShape, WindowFits, Comparing, Deciding
<1>1. PICK next : next = Scrolled(proposal.scroll)
  OBVIOUS
<1>2. CASE next.offset # 0 /\ Decide([proposal EXCEPT !.scroll = next])
  <2>1. /\ UNCHANGED <<vocabulary, relabels, collection, job, measured, policy>>
        /\ DOMAIN proposal' = ComparingFields /\ proposal' = [f \in ComparingFields |-> proposal'[f]]
        /\ proposal'.scroll = next
        /\ \A f \in ComparingFields \ {"scroll"} : proposal'[f] = proposal[f]
    BY <1>0, <1>2 DEF Decide, ComparingFields
  <2>2. /\ proposal'.at = "scroll" /\ proposal'.word = proposal.word /\ proposal'.kind = proposal.kind
        /\ proposal'.read = proposal.read /\ proposal'.jobs = proposal.jobs
        /\ proposal'.own = proposal.own /\ proposal'.cross = proposal.cross
        /\ proposal'.hidden = proposal.hidden
    BY <1>0, <2>1 DEF ComparingFields
  <2>3. /\ DOMAIN next = {"offset", "points"} /\ next = [f \in {"offset", "points"} |-> next[f]]
        /\ next.offset \in Nat \ {0} /\ DOMAIN next.points \subseteq Before(next.offset)
    BY <1>0, <1>1, <1>2, PageGoesOn
  <2>4. ProposalShape'
    BY <1>0, <2>1, <2>2, <2>3, ComparingShape DEF ProposalShape
  <2>5. Vetted'
    BY <1>0, <2>2 DEF Vetted, Comparing
  <2>6. ScrollFits'
    <3> DEFINE S == Before(next.offset)
    <3>1. Told(next.points, S) => Untouched(S)
      BY <1>0, <1>1, <1>2, PageTells
    <3>2. Told(next.points, S)' = Told(next.points, S) /\ Untouched(S)' = Untouched(S)
      BY <2>1, <2>2 DEF Told, Untouched, AsRead, Overwritten, JobSpent, Foreign, Before
    <3>3. QED
      BY <2>1, <2>2, <2>3, <3>1, <3>2 DEF ScrollFits, Before
  <2>7. WholeFits' /\ OwnSilent' /\ ReviewedAnswers'
    BY <2>2 DEF WholeFits, OwnSilent, ReviewedAnswers
  <2>8. QED
    BY <2>1, <2>4, <2>5, <2>6, <2>7, DecideInv DEF WindowFits
<1>3. CASE next.offset = 0 /\ ReadWhole(next.points)
           /\ Decide([proposal EXCEPT !.at = "own", !.scroll = Unread])
  <2>1. /\ UNCHANGED <<vocabulary, relabels, collection, job, measured, policy>>
        /\ DOMAIN proposal' = ComparingFields /\ proposal' = [f \in ComparingFields |-> proposal'[f]]
        /\ proposal'.at = "own"
        /\ \A f \in ComparingFields \ {"at", "scroll"} : proposal'[f] = proposal[f]
    <3>1. "at" \in ComparingFields /\ "scroll" \in ComparingFields
      BY DEF ComparingFields
    <3>2. /\ proposal' = [proposal EXCEPT !.at = "own", !.scroll = Unread]
          /\ UNCHANGED <<vocabulary, relabels, collection, job, measured, policy>>
      BY <1>3 DEF Decide
    <3>3. QED
      BY <1>0, <3>1, <3>2, ScrollAnew
  <2>2. /\ proposal'.word = proposal.word /\ proposal'.kind = proposal.kind
        /\ proposal'.read = proposal.read /\ proposal'.jobs = proposal.jobs
        /\ proposal'.own = proposal.own /\ proposal'.cross = proposal.cross
    BY <1>0, <2>1 DEF ComparingFields
  <2>3. ProposalShape'
    BY <1>0, <2>1, <2>2, ComparingShape DEF ProposalShape, Comparing, Deciding
  <2>4. Vetted'
    BY <1>0, <2>1, <2>2 DEF Vetted, Comparing
  <2>5. Untouched(Entries)
    <3>1. proposal.read \in Vocabularies
      BY <1>0 DEF ProposalShape
    <3>2. Told(next.points, Entries)
      BY <1>3, <3>1, PointsOf DEF ReadWhole, Told
    <3>3. QED
      BY <1>0, <1>1, <1>3, <3>2, PageTells
  <2>6. WholeFits'
    <3>1. Untouched(Entries)' = Untouched(Entries)
      BY <2>1, <2>2 DEF Untouched, AsRead, Overwritten, JobSpent, Foreign
    <3>2. QED
      BY <2>5, <3>1 DEF WholeFits
  <2>7. ScrollFits' /\ OwnSilent' /\ ReviewedAnswers'
    BY <2>1 DEF ScrollFits, OwnSilent, ReviewedAnswers
  <2>8. QED
    BY <2>1, <2>3, <2>4, <2>6, <2>7, DecideInv DEF WindowFits
<1>4. CASE Decide(Ended({}))
  BY <1>4, NothingInv
<1>5. QED
  BY <1>1, <1>2, <1>3, <1>4 DEF ScrollOn

\* What points of a kind that are all known say, if none that matters is hidden: what the
\* points the request read would say, or nothing since all of them are gone.
LEMMA HitsTell ==
    ASSUME TaxonomyInv, proposal.at \in Deciding, Untouched(Entries), NEW kind,
           NEW thresholds \in Thresholds, thresholds # Off,
           NEW returned \in Hits(OfKind(collection, kind), proposal.word), Valid(returned),
           ~ Hidden(kind, thresholds, returned)
    PROVE  \/ Swept /\ DOMAIN returned = {}
           \/ /\ ~ Swept \/ DOMAIN returned = {}
              /\ SaysAs(Confident(returned, proposal.word, thresholds),
                        Confident(OfKind(Points(proposal.read), kind), proposal.word, thresholds))
<1> DEFINE given == OfKind(collection, kind)
           known == OfKind(Points(proposal.read), kind)
<1>0. /\ proposal.read \in Vocabularies /\ proposal.word \in Words
      /\ DOMAIN collection \subseteq Entries
  BY DEF TaxonomyInv, ProposalShape
<1>1. /\ DOMAIN given = {e \in DOMAIN collection : KindOf[e] = kind}
      /\ \A e \in DOMAIN given : given[e] = collection[e]
  BY DEF OfKind
<1>2. /\ DOMAIN known = {e \in Listed(proposal.read) : KindOf[e] = kind}
      /\ \A e \in DOMAIN known : known[e] = Points(proposal.read)[e] /\ known[e].of = proposal.read
      /\ DOMAIN known \subseteq Entries
  BY <1>0, PointsOf DEF OfKind
<1>3. IsFiniteSet(DOMAIN given)
  BY <1>0, <1>1, TaxonomyAssumption, FS_Subset
<1>4. KnownFits(known)
  BY <1>0, OfKindFits
<1> HIDE DEF given, known
<1>5. returned \in Hits(given, proposal.word)
  BY DEF given
<1>6. DOMAIN returned \subseteq DOMAIN given /\ \A e \in DOMAIN returned : returned[e] = given[e]
  BY <1>3, <1>5, HitsAre
<1>7. \A e \in DOMAIN returned : e \in DOMAIN known /\ returned[e] = known[e]
  <2> SUFFICES ASSUME NEW e \in DOMAIN returned PROVE e \in DOMAIN known /\ returned[e] = known[e]
    OBVIOUS
  <2>1. e \in Listed(proposal.read) /\ returned[e] = Points(proposal.read)[e]
    BY DEF Valid, Known
  <2>2. KindOf[e] = kind
    BY <1>1, <1>6
  <2>3. QED
    BY <1>2, <2>1, <2>2
<1>8. CASE Swept
  <2>1. ASSUME NEW e \in DOMAIN returned PROVE FALSE
    <3>1. e \in DOMAIN collection /\ returned[e] = collection[e]
      BY <1>1, <1>6
    <3>2. returned[e].of = proposal.read
      BY <1>2, <1>7
    <3>3. QED
      BY <1>8, <3>1, <3>2 DEF Swept, Foreign
  <2>2. QED
    BY <1>8, <2>1
<1>9. CASE ~ Swept
  <2>1. ASSUME NEW e \in Close(known, proposal.word, thresholds)
        PROVE  e \in DOMAIN given /\ given[e] = known[e]
    <3>1. e \in DOMAIN known /\ e \in Entries /\ e \in Listed(proposal.read) /\ KindOf[e] = kind
      BY <1>2 DEF Close
    <3>2. AsRead(e) \/ Overwritten(e)
      BY <3>1 DEF Untouched
    <3>3. e \in DOMAIN collection
      BY <1>9, <3>1, <3>2 DEF AsRead, Overwritten, Swept
    <3>4. e \in DOMAIN given /\ given[e] = collection[e]
      BY <1>1, <3>1, <3>3
    <3>5. CASE e \in DOMAIN returned
      BY <1>6, <1>7, <3>4, <3>5
    <3>6. CASE e \notin DOMAIN returned
      <4>1. Known(collection, e)
        BY <2>1, <3>3, <3>6 DEF Hidden, known
      <4>2. QED
        BY <1>2, <3>1, <3>4, <4>1 DEF Known
    <3>7. QED
      BY <3>5, <3>6
  <2>2. SaysAs(Confident(returned, proposal.word, thresholds), Confident(known, proposal.word, thresholds))
    BY <1>0, <1>3, <1>4, <1>5, <1>7, <2>1, NearestDecide
  <2>3. QED
    BY <1>9, <2>2 DEF known
<1>10. QED
  BY <1>8, <1>9

LEMMA NoneConfident ==
    ASSUME NEW known, DOMAIN known = {}, NEW word, NEW thresholds
    PROVE  Confident(known, word, thresholds) = {}
BY DEF Confident

\* What is chosen by what decides the reviewed cases passes them.
LEMMA DecidedFits ==
    ASSUME Vetted, proposal.at \in Comparing, NEW chosen,
           Cardinality(chosen) = 1 =>
               Decided(Points(proposal.read), proposal.word, proposal.kind,
                       proposal.own, proposal.cross) = chosen
    PROVE  FitsReview(chosen)
<1> SUFFICES ASSUME Cardinality(chosen) = 1, NEW c \in Cases,
                    c.word = proposal.word, c.kind = proposal.kind
             PROVE  chosen = c.expects
  BY DEF FitsReview
<1>1. Passes(c, chosen)
  BY DEF Vetted
<1>2. QED
  BY <1>1 DEF Passes

LEMMA AskOwnInv == ASSUME TaxonomyInv, AskOwn PROVE TaxonomyInv'
<1> DEFINE whole == OfKind(Points(proposal.read), proposal.kind)
<1>0. /\ proposal.at = "own" /\ proposal.at \in Comparing /\ proposal.at \in Deciding
      /\ DOMAIN proposal = ComparingFields /\ proposal = [f \in ComparingFields |-> proposal[f]]
      /\ ProposalShape /\ Vetted /\ Untouched(Entries)
      /\ proposal.own \in Thresholds
  BY ComparingShape DEF AskOwn, TaxonomyInv, ProposalShape, WindowFits, WholeFits, Vetted, Comparing, Deciding
<1> DEFINE mid == [proposal EXCEPT !.at = "across"]
<1>a. "at" \in ComparingFields /\ "hidden" \in ComparingFields
  BY DEF ComparingFields
<1>b. /\ DOMAIN mid = ComparingFields /\ mid = [f \in ComparingFields |-> mid[f]] /\ mid.at = "across"
      /\ \A f \in ComparingFields \ {"at"} : mid[f] = proposal[f]
  BY <1>0, <1>a, MovedTo
<1>c. Ask(proposal.kind, proposal.own, mid)
  BY DEF AskOwn
<1> HIDE DEF mid
<1>1. ASSUME NEW h, Decide([mid EXCEPT !.hidden = h]),
             h \/ Confident(whole, proposal.word, proposal.own) = {} \/ Swept
      PROVE  TaxonomyInv'
  <2>1. /\ UNCHANGED <<vocabulary, relabels, collection, job, measured, policy>>
        /\ DOMAIN proposal' = ComparingFields /\ proposal' = [f \in ComparingFields |-> proposal'[f]]
        /\ proposal'.at = "across" /\ proposal'.hidden = h
        /\ \A f \in ComparingFields \ {"at", "hidden"} : proposal'[f] = proposal[f]
    <3>1. /\ proposal' = [mid EXCEPT !.hidden = h]
          /\ UNCHANGED <<vocabulary, relabels, collection, job, measured, policy>>
      BY <1>1 DEF Decide
    <3>2. /\ DOMAIN proposal' = ComparingFields /\ proposal' = [f \in ComparingFields |-> proposal'[f]]
          /\ proposal'.hidden = h
          /\ \A f \in ComparingFields \ {"hidden"} : proposal'[f] = mid[f]
      BY <1>a, <1>b, <3>1, Marked
    <3>3. QED
      BY <1>a, <1>b, <3>1, <3>2
  <2>2. /\ proposal'.word = proposal.word /\ proposal'.kind = proposal.kind
        /\ proposal'.read = proposal.read /\ proposal'.jobs = proposal.jobs
        /\ proposal'.own = proposal.own /\ proposal'.cross = proposal.cross
    BY <1>0, <2>1 DEF ComparingFields
  <2>3. ProposalShape'
    BY <1>0, <2>1, <2>2, ComparingShape DEF ProposalShape, Comparing, Deciding
  <2>4. Vetted'
    BY <1>0, <2>1, <2>2 DEF Vetted, Comparing
  <2>5. WholeFits'
    <3>1. Untouched(Entries)' = Untouched(Entries)
      BY <2>1, <2>2 DEF Untouched, AsRead, Overwritten, JobSpent, Foreign
    <3>2. QED
      BY <1>0, <3>1 DEF WholeFits
  <2>6. OwnSilent'
    <3>1. Swept' = Swept
      BY <2>1, <2>2 DEF Swept, JobSpent, Foreign
    <3>2. QED
      BY <1>1, <2>1, <2>2, <3>1 DEF OwnSilent
  <2>7. ScrollFits' /\ ReviewedAnswers'
    BY <2>1 DEF ScrollFits, ReviewedAnswers
  <2>8. QED
    BY <2>1, <2>3, <2>4, <2>5, <2>6, <2>7, DecideInv DEF WindowFits
<1>2. CASE proposal.own = Off
  <2>1. Confident(whole, proposal.word, proposal.own) = {}
    BY <1>2 DEF Confident
  <2>2. Decide(mid)
    BY <1>2, <1>c DEF Ask
  <2>3. mid = [mid EXCEPT !.hidden = mid.hidden]
    BY <1>a, <1>b
  <2>4. Decide([mid EXCEPT !.hidden = mid.hidden])
    BY <2>2, <2>3
  <2>5. QED
    BY <1>1, <2>1, <2>4
<1>3. CASE proposal.own # Off
  <2>1. PICK returned \in Hits(OfKind(collection, proposal.kind), proposal.word) :
            LET chosen == Confident(returned, proposal.word, proposal.own)
                hidden == proposal.hidden \/ Hidden(proposal.kind, proposal.own, returned)
            IN IF ~Valid(returned) THEN Decide(Ended({}))
               ELSE IF chosen # {} THEN Decide([Ended(chosen) EXCEPT !.hidden = hidden])
               ELSE Decide([mid EXCEPT !.hidden = hidden])
    BY <1>3, <1>c DEF Ask
  <2> DEFINE chosen == Confident(returned, proposal.word, proposal.own)
             hidden == proposal.hidden \/ Hidden(proposal.kind, proposal.own, returned)
  <2>2. CASE ~ Valid(returned)
    BY <2>1, <2>2, NothingInv
  <2>3. CASE Valid(returned)
    <3>1. \/ hidden
          \/ Swept /\ DOMAIN returned = {}
          \/ (~ Swept \/ DOMAIN returned = {}) /\ SaysAs(chosen, Confident(whole, proposal.word, proposal.own))
      BY <1>0, <1>3, <2>3, HitsTell
    <3>2. CASE chosen = {}
      <4>1. Decide([mid EXCEPT !.hidden = hidden])
        BY <2>1, <2>3, <3>2
      <4>2. hidden \/ Confident(whole, proposal.word, proposal.own) = {} \/ Swept
        BY <3>1, <3>2 DEF SaysAs
      <4> HIDE DEF hidden, whole
      <4>3. QED
        BY <1>1, <4>1, <4>2
    <3>3. CASE chosen # {}
      <4>1. Decide([Ended(chosen) EXCEPT !.hidden = hidden])
        BY <2>1, <2>3, <3>3
      <4>2. DOMAIN returned # {}
        BY <3>3, NoneConfident
      <4> HIDE DEF chosen, hidden, whole
      <4>3. hidden \/ SaysAs(chosen, Confident(whole, proposal.word, proposal.own))
        BY <3>1, <4>2
      <4>4. hidden \/ FitsReview(chosen)
        <5>1. SUFFICES ASSUME SaysAs(chosen, Confident(whole, proposal.word, proposal.own))
                       PROVE  FitsReview(chosen)
          BY <4>3
        <5>2. Cardinality(chosen) = 1 => Confident(whole, proposal.word, proposal.own) = chosen
          BY <5>1 DEF SaysAs
        <5>3. Cardinality(chosen) = 1 =>
                Decided(Points(proposal.read), proposal.word, proposal.kind,
                        proposal.own, proposal.cross) = chosen
          BY <3>3, <5>2 DEF Decided, whole
        <5>4. QED
          BY <1>0, <5>3, DecidedFits
      <4>5. Decide([at |-> "ended", word |-> proposal.word, kind |-> proposal.kind, chosen |-> chosen,
                    hidden |-> hidden])
        BY <4>1 DEF Ended
      <4>6. QED
        BY <4>4, <4>5, EndedInv
    <3>4. QED
      BY <3>2, <3>3
  <2>4. QED
    BY <2>2, <2>3
<1>4. QED
  BY <1>2, <1>3

LEMMA AskAcrossInv == ASSUME TaxonomyInv, AskAcross PROVE TaxonomyInv'
<1> DEFINE other == Other(proposal.kind)
           whole == OfKind(Points(proposal.read), other)
           own == OfKind(Points(proposal.read), proposal.kind)
<1>0. /\ proposal.at = "across" /\ proposal.at \in Comparing /\ proposal.at \in Deciding
      /\ Vetted /\ Untouched(Entries) /\ proposal.cross \in Thresholds
      /\ proposal.hidden \/ Confident(own, proposal.word, proposal.own) = {} \/ Swept
  BY DEF AskAcross, TaxonomyInv, WindowFits, WholeFits, OwnSilent, Vetted, Comparing, Deciding
<1>1. CASE proposal.cross = Off
  <2>1. Decide(Ended({}))
    BY <1>1 DEF AskAcross, Ask
  <2>2. QED
    BY <2>1, NothingInv
<1>2. CASE proposal.cross # Off
  <2>1. PICK returned \in Hits(OfKind(collection, other), proposal.word) :
            LET chosen == Confident(returned, proposal.word, proposal.cross)
                hidden == proposal.hidden \/ Hidden(other, proposal.cross, returned)
            IN IF ~Valid(returned) THEN Decide(Ended({}))
               ELSE IF chosen # {} THEN Decide([Ended(chosen) EXCEPT !.hidden = hidden])
               ELSE Decide([Ended({}) EXCEPT !.hidden = hidden])
    BY <1>2 DEF AskAcross, Ask
  <2> DEFINE chosen == Confident(returned, proposal.word, proposal.cross)
             hidden == proposal.hidden \/ Hidden(other, proposal.cross, returned)
  <2>2. CASE ~ Valid(returned)
    BY <2>1, <2>2, NothingInv
  <2>3. CASE Valid(returned)
    <3>1. Decide([Ended(chosen) EXCEPT !.hidden = hidden])
      BY <2>1, <2>3
    <3>2. \/ hidden
          \/ Swept /\ DOMAIN returned = {}
          \/ (~ Swept \/ DOMAIN returned = {}) /\ SaysAs(chosen, Confident(whole, proposal.word, proposal.cross))
      BY <1>0, <1>2, <2>3, HitsTell
    <3>3. DOMAIN returned = {} => chosen = {}
      BY NoneConfident
    <3>4. proposal.hidden => hidden
      OBVIOUS
    <3> HIDE DEF chosen, hidden, whole, own
    <3>5. hidden \/ FitsReview(chosen)
      <4>1. CASE chosen = {}
        BY <4>1, FS_EmptySet DEF FitsReview
      <4>2. CASE ~ hidden /\ chosen # {}
        <5>1. /\ SaysAs(chosen, Confident(whole, proposal.word, proposal.cross))
              /\ Confident(own, proposal.word, proposal.own) = {}
          BY <1>0, <3>2, <3>3, <3>4, <4>2
        <5>2. Cardinality(chosen) = 1 => Confident(whole, proposal.word, proposal.cross) = chosen
          BY <5>1 DEF SaysAs
        <5>3. Cardinality(chosen) = 1 =>
                Decided(Points(proposal.read), proposal.word, proposal.kind,
                        proposal.own, proposal.cross) = chosen
          BY <5>1, <5>2 DEF Decided, whole, own
        <5>4. QED
          BY <1>0, <5>3, DecidedFits
      <4>3. QED
        BY <4>1, <4>2
    <3>6. Decide([at |-> "ended", word |-> proposal.word, kind |-> proposal.kind, chosen |-> chosen,
                  hidden |-> hidden])
      BY <3>1 DEF Ended
    <3>7. QED
      BY <3>5, <3>6, EndedInv
  <2>4. QED
    BY <2>2, <2>3
<1>3. QED
  BY <1>1, <1>2

LEMMA TaxonomyInvStep == ASSUME OneJob PROVE TaxonomyInv /\ [TaxonomyNext]_taxonomyVars => TaxonomyInv'
<1> SUFFICES ASSUME TaxonomyInv, [TaxonomyNext]_taxonomyVars PROVE TaxonomyInv'
  OBVIOUS
<1>1. CASE \E rebuild \in BOOLEAN : StartJob(rebuild)
  BY <1>1, StartJobInv
<1>2. CASE Write
  BY <1>2, WriteInv
<1>3. CASE DeleteStale
  BY <1>3, DeleteStaleInv
<1>4. CASE EndJob
  BY <1>4, EndJobInv
<1>5. CASE Relabel
  BY <1>5, RelabelInv
<1>6. CASE Measure
  BY <1>6, MeasureInv
<1>7. CASE Calibrate
  BY <1>7, CalibrateInv
<1>8. CASE \E word \in Words, kind \in {"event_type", "genre"} : Propose(word, kind)
  BY <1>8, ProposeInv DEF TaxonomyKinds
<1>9. CASE Consult
  BY <1>9, ConsultInv
<1>10. CASE ScrollOn
  BY <1>10, ScrollOnInv
<1>11. CASE AskOwn
  BY <1>11, AskOwnInv
<1>12. CASE AskAcross
  BY <1>12, AskAcrossInv
<1>13. CASE Unresolved
  BY <1>13, NothingInv DEF Unresolved
<1>14. CASE UNCHANGED taxonomyVars
  <2>1. UNCHANGED <<vocabulary, collection, job, policy, proposal>>
    BY <1>14 DEF taxonomyVars
  <2>2. vocabulary' \in Vocabularies /\ PolicyFits'
    BY <2>1 DEF TaxonomyInv, PolicyFits, DecidesCases
  <2>3. QED
    BY <2>1, <2>2, ElsewhereInv
<1>15. QED
  BY <1>1, <1>2, <1>3, <1>4, <1>5, <1>6, <1>7, <1>8, <1>9, <1>10, <1>11, <1>12, <1>13, <1>14
     DEF TaxonomyNext

\* Whatever one index job and the source do between the reads of a request, a word it
\* was reviewed for is taken for one entry only if that is what the review expects.
THEOREM AnswersAsReviewed == ASSUME OneJob PROVE TaxonomySpec => []ReviewedAnswers
<1>1. TaxonomyInv => ReviewedAnswers
  BY DEF TaxonomyInv
<1>2. TaxonomyInv /\ [TaxonomyNext]_taxonomyVars => TaxonomyInv'
  BY TaxonomyInvStep
<1>3. QED
  BY <1>1, <1>2, TaxonomyInvInit, PTL DEF TaxonomySpec

\* A query of a kind with no more entries than the limit returns every point of it.
WithinLimit == \A kind \in TaxonomyKinds : Cardinality({e \in Entries : KindOf[e] = kind}) <= Limit
NothingHidden == proposal.at \in Deciding \cup {"ended"} => ~ proposal.hidden

LEMMA AllReturned ==
    ASSUME WithinLimit, DOMAIN collection \subseteq Entries, proposal.at \in Deciding, ProposalShape,
           NEW kind \in TaxonomyKinds, NEW thresholds,
           NEW returned \in Hits(OfKind(collection, kind), proposal.word)
    PROVE  ~ Hidden(kind, thresholds, returned)
<1> DEFINE given == OfKind(collection, kind)
<1>1. /\ DOMAIN given = {e \in DOMAIN collection : KindOf[e] = kind}
      /\ DOMAIN given \subseteq {e \in Entries : KindOf[e] = kind}
  BY DEF OfKind
<1> HIDE DEF given
<1>2. PICK T \in SUBSET DOMAIN given :
          /\ returned = Restrict(given, T)
          /\ Cardinality(T) = IF Cardinality(DOMAIN given) < Limit THEN Cardinality(DOMAIN given) ELSE Limit
  BY DEF Hits, given
<1>3. DOMAIN returned = T
  BY <1>2 DEF Restrict
<1>4. /\ IsFiniteSet(DOMAIN given) /\ Cardinality(DOMAIN given) <= Limit
      /\ Cardinality(DOMAIN given) \in Nat
  <2>1. IsFiniteSet({e \in Entries : KindOf[e] = kind})
    BY TaxonomyAssumption, FS_Subset
  <2>2. /\ IsFiniteSet(DOMAIN given)
        /\ Cardinality(DOMAIN given) <= Cardinality({e \in Entries : KindOf[e] = kind})
    BY <1>1, <2>1, FS_Subset
  <2>3. /\ Cardinality(DOMAIN given) \in Nat /\ Cardinality({e \in Entries : KindOf[e] = kind}) \in Nat
        /\ Limit \in Nat
    BY <2>1, <2>2, TaxonomyAssumption, FS_CardinalityType
  <2>4. QED
    BY <2>2, <2>3 DEF WithinLimit
<1>5. Cardinality(T) = Cardinality(DOMAIN given)
  BY <1>2, <1>4, TaxonomyAssumption
<1>6. T = DOMAIN given
  BY <1>4, <1>5, FS_Subset
<1>7. ASSUME NEW e \in Close(OfKind(Points(proposal.read), kind), proposal.word, thresholds)
      PROVE  e \in DOMAIN collection => e \in DOMAIN returned
  BY <1>1, <1>3, <1>6, <1>7 DEF Close, OfKind
<1>8. QED
  BY <1>7 DEF Hidden

LEMMA AskShows ==
    ASSUME NEW kind, NEW thresholds, NEW otherwise, Ask(kind, thresholds, otherwise),
           NEW F, DOMAIN otherwise = F, "hidden" \in F, ~ otherwise.hidden, ~ proposal.hidden,
           \A returned \in Hits(OfKind(collection, kind), proposal.word) :
               ~ Hidden(kind, thresholds, returned)
    PROVE  ~ proposal'.hidden
<1>1. CASE Decide(otherwise)
  BY <1>1 DEF Decide
<1>2. ASSUME NEW chosen, Decide([Ended(chosen) EXCEPT !.hidden = FALSE]) PROVE ~ proposal'.hidden
  BY <1>2 DEF Decide, Ended
<1>3. CASE Decide([otherwise EXCEPT !.hidden = FALSE])
  BY <1>3 DEF Decide
<1>4. CASE Decide(Ended({}))
  BY <1>4 DEF Decide, Ended
<1>5. CASE thresholds # Off
  <2>1. PICK returned \in Hits(OfKind(collection, kind), proposal.word) :
            LET chosen == Confident(returned, proposal.word, thresholds)
                hidden == proposal.hidden \/ Hidden(kind, thresholds, returned)
            IN IF ~Valid(returned) THEN Decide(Ended({}))
               ELSE IF chosen # {} THEN Decide([Ended(chosen) EXCEPT !.hidden = hidden])
               ELSE Decide([otherwise EXCEPT !.hidden = hidden])
    BY <1>5 DEF Ask
  <2> DEFINE hidden == proposal.hidden \/ Hidden(kind, thresholds, returned)
  <2>2. hidden = FALSE
    OBVIOUS
  <2> HIDE DEF hidden
  <2>3. \/ Decide(Ended({}))
        \/ Decide([Ended(Confident(returned, proposal.word, thresholds)) EXCEPT !.hidden = hidden])
        \/ Decide([otherwise EXCEPT !.hidden = hidden])
    BY <2>1 DEF hidden
  <2>4. QED
    BY <1>2, <1>3, <1>4, <2>2, <2>3
<1>6. QED
  BY <1>1, <1>5 DEF Ask

LEMMA NothingHiddenStep ==
    ASSUME WithinLimit, TaxonomyInv, NothingHidden, [TaxonomyNext]_taxonomyVars
    PROVE  NothingHidden'
<1> USE DEF NothingHidden
<1>0. proposal.at \in Deciding =>
          /\ DOMAIN proposal = FieldsOf(proposal.at) /\ "hidden" \in FieldsOf(proposal.at)
          /\ "at" \in FieldsOf(proposal.at) /\ ~ proposal.hidden
          /\ DOMAIN collection \subseteq Entries /\ ProposalShape
          /\ proposal.kind \in TaxonomyKinds /\ Other(proposal.kind) \in TaxonomyKinds
  BY DEF TaxonomyInv, ProposalShape, FieldsOf, Deciding, Comparing, TaxonomyKinds, Other
<1>1. CASE \E rebuild \in BOOLEAN : StartJob(rebuild)
  <2>1. proposal' = IF proposal.at \in Deciding THEN [proposal EXCEPT !.jobs = @ + 1] ELSE proposal
    BY <1>1 DEF StartJob
  <2>2. QED
    BY <1>0, <2>1
<1>2. CASE UNCHANGED proposal
  BY <1>2
<1>3. CASE \E word \in Words, kind \in {"event_type", "genre"} : Propose(word, kind)
  BY <1>3 DEF Propose
<1>4. CASE proposal.at \in Deciding /\ Decide(Ended({}))
  BY <1>0, <1>4 DEF Decide, Ended
<1>5. CASE Consult
  <2>1. \/ proposal.at \in Deciding /\ Decide(Ended({}))
        \/ Decide([at |-> "scroll", word |-> proposal.word, kind |-> proposal.kind,
                   read |-> proposal.read, jobs |-> proposal.jobs, hidden |-> FALSE,
                   own |-> policy[proposal.kind], cross |-> policy.cross, scroll |-> Unread])
    BY <1>5 DEF Consult, Deciding
  <2>2. QED
    BY <1>4, <2>1 DEF Decide
<1>6. CASE ScrollOn
  <2>1. PICK next : next = Scrolled(proposal.scroll)
    OBVIOUS
  <2>2. proposal.at \in Deciding /\ proposal.at = "scroll"
    BY <1>6 DEF ScrollOn, Deciding
  <2>3. \/ Decide([proposal EXCEPT !.scroll = next])
        \/ Decide([proposal EXCEPT !.at = "own", !.scroll = Unread])
        \/ Decide(Ended({}))
    BY <1>6, <2>1 DEF ScrollOn
  <2>4. CASE Decide([proposal EXCEPT !.scroll = next])
    BY <1>0, <2>2, <2>4 DEF Decide
  <2>5. CASE Decide([proposal EXCEPT !.at = "own", !.scroll = Unread])
    BY <1>0, <2>2, <2>5 DEF Decide
  <2>6. QED
    BY <1>4, <2>2, <2>3, <2>4, <2>5
<1>7. CASE AskOwn
  <2> DEFINE mid == [proposal EXCEPT !.at = "across"]
  <2>1. proposal.at \in Deciding /\ Ask(proposal.kind, proposal.own, mid)
    BY <1>7 DEF AskOwn, Deciding
  <2>2. DOMAIN mid = FieldsOf(proposal.at) /\ ~ mid.hidden
    BY <1>0, <2>1
  <2> HIDE DEF mid
  <2>3. \A returned \in Hits(OfKind(collection, proposal.kind), proposal.word) :
            ~ Hidden(proposal.kind, proposal.own, returned)
    BY <1>0, <2>1, AllReturned
  <2>4. QED
    BY <1>0, <2>1, <2>2, <2>3, AskShows
<1>8. CASE AskAcross
  <2> DEFINE none == Ended({})
  <2>1. proposal.at \in Deciding /\ Ask(Other(proposal.kind), proposal.cross, none)
    BY <1>8 DEF AskAcross, Deciding
  <2>2. DOMAIN none = {"at", "word", "kind", "chosen", "hidden"} /\ ~ none.hidden
    BY <1>0, <2>1 DEF Ended
  <2> HIDE DEF none
  <2>3. \A returned \in Hits(OfKind(collection, Other(proposal.kind)), proposal.word) :
            ~ Hidden(Other(proposal.kind), proposal.cross, returned)
    BY <1>0, <2>1, AllReturned
  <2>4. "hidden" \in {"at", "word", "kind", "chosen", "hidden"}
    OBVIOUS
  <2>5. QED
    BY <1>0, <2>1, <2>2, <2>3, <2>4, AskShows
<1>9. CASE Unresolved
  BY <1>4, <1>9 DEF Unresolved
<1>10. QED
  BY <1>1, <1>2, <1>3, <1>5, <1>6, <1>7, <1>8, <1>9
     DEF TaxonomyNext, Write, DeleteStale, EndJob, Relabel, Measure, Calibrate, taxonomyVars

\* While no kind has more entries than a query returns, the reviewed words are answered as
\* the review expects without any proviso on what the queries leave out.
THEOREM AnswersWithinLimit ==
    ASSUME OneJob, WithinLimit
    PROVE  TaxonomySpec => [](ReviewedAnswers /\ NothingHidden)
<1>1. TaxonomyInit => NothingHidden
  BY DEF TaxonomyInit, NothingHidden, NoProposal, Deciding
<1>2. TaxonomyInv => ReviewedAnswers
  BY DEF TaxonomyInv
<1>3. TaxonomyInv /\ [TaxonomyNext]_taxonomyVars => TaxonomyInv'
  BY TaxonomyInvStep
<1>4. TaxonomyInv /\ NothingHidden /\ [TaxonomyNext]_taxonomyVars => NothingHidden'
  BY NothingHiddenStep
<1>5. QED
  BY <1>1, <1>2, <1>3, <1>4, TaxonomyInvInit, PTL DEF TaxonomySpec

----------------------------------------------------------------------------
(* Turns. What is remembered names the questions that were answered last,    *)
(* and only v13 leaves anything besides.                                     *)

\* What may be kept of a plan.
KeptItems == {item \in [turn : Nat, private : BOOLEAN, level : BOOLEAN] : ~ item.private}
MemoryOf(past, pending, facts) == [past |-> past, pending |-> pending, facts |-> facts]

MemoryFits ==
    /\ memory = MemoryOf(memory.past, memory.pending, memory.facts)
    /\ memory.past \in Seq(KeptItems)
    /\ memory.pending \in KeptItems \cup {NoItem} /\ memory.facts \in KeptItems \cup {NoItem}
    /\ learnt \subseteq KeptItems
\* Questions are answered in the order they are asked.
AnsweredFit ==
    /\ requests \in Nat /\ answered \in Seq(Nat)
    /\ \A i \in 1 .. Len(answered) : answered[i] <= requests /\ (request # Idle => answered[i] < requests)
\* Summaries are of the last of these questions.
SuffixOf(past, asked) ==
    /\ Len(past) <= Len(asked)
    /\ \A i \in 1 .. Len(past) : past[i].turn = asked[Len(asked) - Len(past) + i]
Newer(m, asked) ==
    asked # <<>> =>
        /\ m.pending # NoItem => m.pending.turn > asked[Len(asked)]
        /\ m.facts # NoItem => m.facts.turn >= asked[Len(asked)]
RestFits == protocol # "v13" => memory.pending = NoItem /\ memory.facts = NoItem
TurnsInv ==
    /\ MemoryFits /\ AnsweredFit /\ RestFits
    /\ SuffixOf(memory.past, answered) /\ Newer(memory, answered)

LEMMA MemoryFields ==
    ASSUME NEW pa, NEW pe, NEW fa
    PROVE  MemoryOf(pa, pe, fa).past = pa /\ MemoryOf(pa, pe, fa).pending = pe /\ MemoryOf(pa, pe, fa).facts = fa
BY DEF MemoryOf

LEMMA MemoryWith ==
    ASSUME NEW pa, NEW pe, NEW fa, NEW pending, NEW facts
    PROVE  [MemoryOf(pa, pending, facts) EXCEPT !.pending = pe, !.facts = fa] = MemoryOf(pa, pe, fa)
<1>1. [MemoryOf(pa, pending, facts) EXCEPT !.pending = pe] = MemoryOf(pa, pe, facts)
  BY DEF MemoryOf
<1>2. [MemoryOf(pa, pe, facts) EXCEPT !.facts = fa] = MemoryOf(pa, pe, fa)
  BY DEF MemoryOf
<1>3. QED
  BY <1>1, <1>2

\* A sequence whose elements are the last of another one's is a suffix of it.
LEMMA SuffixByPlace ==
    ASSUME NEW s \in Seq(Nat), NEW t \in Seq(Nat), Len(s) <= Len(t),
           \A i \in 1 .. Len(s) : s[i] = t[Len(t) - Len(s) + i]
    PROVE  IsSuffix(s, t)
<1> DEFINE rs == Reverse(s)
           rt == Reverse(t)
<1>1. /\ rs \in Seq(Nat) /\ Len(rs) = Len(s)
      /\ \A i \in 1 .. Len(s) : rs[i] = s[Len(s) - i + 1]
  BY DEF Reverse
<1>2. /\ rt \in Seq(Nat) /\ Len(rt) = Len(t)
      /\ \A i \in 1 .. Len(t) : rt[i] = t[Len(t) - i + 1]
  BY DEF Reverse
<1> HIDE DEF rs, rt
<1>3. ASSUME NEW i \in 1 .. Len(s) PROVE rs[i] = rt[i]
  <2> DEFINE j == Len(s) - i + 1
  <2>1. j \in 1 .. Len(s) /\ i \in 1 .. Len(t) /\ Len(t) - Len(s) + j = Len(t) - i + 1
    OBVIOUS
  <2>2. rs[i] = s[j] /\ rt[i] = t[Len(t) - i + 1]
    BY <1>1, <1>2, <2>1
  <2> HIDE DEF j
  <2>3. s[j] = t[Len(t) - i + 1]
    BY <2>1
  <2>4. QED
    BY <2>2, <2>3
<1>4. SubSeq(rs, 1, Len(rs)) = SubSeq(rt, 1, Len(rs))
  BY <1>1, <1>2, <1>3
<1>5. QED
  BY <1>1, <1>2, <1>4 DEF IsSuffix, IsPrefix, rs, rt

LEMMA TurnsInvInit == TurnsInit => TurnsInv
<1> SUFFICES ASSUME TurnsInit PROVE TurnsInv
  OBVIOUS
<1>1. /\ requests = 0 /\ answered = <<>> /\ learnt = {}
      /\ memory = MemoryOf(<<>>, NoItem, NoItem)
  BY DEF TurnsInit, Blank, MemoryOf
<1>2. memory.past = <<>> /\ memory.pending = NoItem /\ memory.facts = NoItem
  BY <1>1, MemoryFields
<1>3. <<>> \in Seq(KeptItems) /\ <<>> \in Seq(Nat) /\ Len(<<>>) = 0
  OBVIOUS
<1>4. MemoryFits /\ RestFits
  BY <1>1, <1>2, <1>3 DEF MemoryFits, RestFits
<1>5. AnsweredFit
  BY <1>1, <1>3 DEF AnsweredFit
<1>6. SuffixOf(memory.past, answered) /\ Newer(memory, answered)
  BY <1>1, <1>2, <1>3 DEF SuffixOf, Newer
<1>7. QED
  BY <1>4, <1>5, <1>6 DEF TurnsInv

\* What is made of a plan is of this request, and private only where a place was named.
LEMMA ItemKept ==
    ASSUME requests \in Nat, NEW p, ~ Item(p).private
    PROVE  Item(p) \in KeptItems /\ Item(p).turn = requests
BY DEF Item, KeptItems

LEMMA SummaryKept ==
    ASSUME requests \in Nat, NEW p
    PROVE  /\ Summary(p) \in KeptItems \cup {NoItem}
           /\ Summary(p) # NoItem => Summary(p).turn = requests
<1>1. CASE Summary(p) = NoItem
  BY <1>1
<1>2. CASE Summary(p) # NoItem
  <2>1. Summary(p) = Item(p) /\ p.place \in {"none", "area", "level"}
    BY <1>2 DEF Summary
  <2>2. ~ Item(p).private
    BY <2>1 DEF Item
  <2>3. QED
    BY <2>1, <2>2, ItemKept
<1>3. QED
  BY <1>1, <1>2

\* A step that leaves what was remembered, answered and learnt.
LEMMA StayInv ==
    ASSUME TurnsInv, UNCHANGED <<protocol, memory, answered, learnt>>,
           \/ requests' = requests + 1
           \/ requests' = requests /\ (request # Idle \/ request' = Idle)
    PROVE  TurnsInv'
<1>1. protocol' = protocol /\ memory' = memory /\ answered' = answered /\ learnt' = learnt
  OBVIOUS
<1>2. MemoryFits' /\ RestFits' /\ SuffixOf(memory.past, answered)' /\ Newer(memory, answered)'
  BY <1>1 DEF TurnsInv, MemoryFits, RestFits, SuffixOf, Newer, MemoryOf
<1>3. /\ requests \in Nat /\ answered \in Seq(Nat) /\ requests' \in {requests, requests + 1}
      /\ \A i \in 1 .. Len(answered) : answered[i] \in Nat /\ answered[i] <= requests
      /\ request # Idle => \A i \in 1 .. Len(answered) : answered[i] < requests
  BY DEF TurnsInv, AnsweredFit
<1>4. \A i \in 1 .. Len(answered) : answered[i] <= requests' /\ (request' # Idle => answered[i] < requests')
  <2>1. CASE requests' = requests + 1
    BY <1>3, <2>1
  <2>2. CASE requests' = requests /\ (request # Idle \/ request' = Idle)
    BY <1>3, <2>2
  <2>3. QED
    BY <2>1, <2>2
<1>5. AnsweredFit'
  BY <1>1, <1>3, <1>4 DEF AnsweredFit
<1>6. QED
  BY <1>2, <1>5 DEF TurnsInv

\* A request that ends without results leaves the summaries or none, and besides them
\* what there was, nothing, or an item of its own.
OfThisRequest(item) == item \in KeptItems /\ item.turn = requests
LEMMA EndsPlainlyInv ==
    ASSUME TurnsInv, request # Idle, request' = Idle,
           UNCHANGED <<protocol, requests, answered>>,
           learnt' \subseteq KeptItems,
           NEW pa, NEW pe, NEW fa, memory' = MemoryOf(pa, pe, fa),
           pa = memory.past \/ pa = <<>>,
           pe = memory.pending \/ pe = NoItem \/ (protocol = "v13" /\ OfThisRequest(pe)),
           fa = memory.facts \/ fa = NoItem \/ (protocol = "v13" /\ OfThisRequest(fa))
    PROVE  TurnsInv'
<1>1. memory'.past = pa /\ memory'.pending = pe /\ memory'.facts = fa
  BY MemoryFields
<1>2. /\ requests \in Nat /\ answered \in Seq(Nat) /\ answered' = answered /\ requests' = requests
      /\ protocol' = protocol
      /\ \A i \in 1 .. Len(answered) : answered[i] \in Nat /\ answered[i] < requests
  BY DEF TurnsInv, AnsweredFit
<1>3. MemoryFits' /\ RestFits'
  <2>0. /\ memory.past \in Seq(KeptItems) /\ <<>> \in Seq(KeptItems)
        /\ memory.pending \in KeptItems \cup {NoItem} /\ memory.facts \in KeptItems \cup {NoItem}
    BY DEF TurnsInv, MemoryFits
  <2>a. pa \in Seq(KeptItems)
    BY <2>0
  <2>1. pe \in KeptItems \cup {NoItem} /\ fa \in KeptItems \cup {NoItem}
    BY <2>0 DEF OfThisRequest
  <2>2. protocol # "v13" => pe = NoItem /\ fa = NoItem
    BY DEF TurnsInv, RestFits
  <2>3. QED
    BY <1>1, <1>2, <2>a, <2>1, <2>2 DEF MemoryFits, RestFits
<1>4. AnsweredFit'
  BY <1>2 DEF AnsweredFit
<1>5. SuffixOf(memory.past, answered)'
  <2>1. SuffixOf(memory.past, answered)
    BY DEF TurnsInv
  <2>2. CASE pa = memory.past
    BY <1>1, <1>2, <2>1, <2>2
  <2>3. CASE pa = <<>>
    <3>1. Len(pa) = 0 /\ Len(answered) \in Nat
      BY <1>2, <2>3
    <3>2. QED
      BY <1>1, <1>2, <3>1 DEF SuffixOf
  <2>4. QED
    BY <2>2, <2>3
<1>6. Newer(memory, answered)'
  <2>1. Newer(memory, answered)
    BY DEF TurnsInv
  <2>2. SUFFICES ASSUME answered # <<>>
                 PROVE  /\ pe # NoItem => pe.turn > answered[Len(answered)]
                        /\ fa # NoItem => fa.turn >= answered[Len(answered)]
    BY <1>1, <1>2 DEF Newer
  <2>3. answered[Len(answered)] \in Nat /\ answered[Len(answered)] < requests
    <3>1. Len(answered) \in 1 .. Len(answered)
      BY <1>2, <2>2
    <3>2. QED
      BY <1>2, <3>1
  <2> DEFINE last == answered[Len(answered)]
  <2>4. /\ memory.pending # NoItem => memory.pending.turn > last
        /\ memory.facts # NoItem => memory.facts.turn >= last
    BY <2>1, <2>2 DEF Newer
  <2> HIDE DEF last
  <2>5. requests > last /\ requests >= last
    BY <1>2, <2>3 DEF last
  <2>6. /\ pe # NoItem => pe.turn > last
        /\ fa # NoItem => fa.turn >= last
    BY <2>4, <2>5 DEF OfThisRequest
  <2>7. QED
    BY <2>6 DEF last
<1>7. QED
  BY <1>3, <1>4, <1>5, <1>6 DEF TurnsInv

\* Results are remembered behind what was remembered, as far as there is room.
LEMMA RememberFits ==
    ASSUME TurnsInv, NEW item \in KeptItems \cup {NoItem},
           item # NoItem => item.turn = requests,
           NEW q, q = Remember(memory, item).past
    PROVE  /\ Remember(memory, item) = MemoryOf(q, memory.pending, memory.facts)
           /\ q \in Seq(KeptItems) /\ SuffixOf(q, Append(answered, requests))
<1>0. /\ memory = MemoryOf(memory.past, memory.pending, memory.facts)
      /\ memory.past \in Seq(KeptItems) /\ SuffixOf(memory.past, answered)
      /\ requests \in Nat /\ answered \in Seq(Nat)
  BY DEF TurnsInv, MemoryFits, AnsweredFit
<1> DEFINE all == Append(memory.past, item)
           asked == Append(answered, requests)
           first == IF Len(all) > Remembers THEN Len(all) - Remembers + 1 ELSE 1
           kept == IF item = NoItem THEN <<>> ELSE SubSeq(all, first, Len(all))
<1>1. Remember(memory, item) = [memory EXCEPT !.past = kept]
  BY DEF Remember
<1> HIDE DEF kept
<1>2. Remember(memory, item) = MemoryOf(kept, memory.pending, memory.facts)
  BY <1>0, <1>1 DEF MemoryOf
<1>3. q = kept
  BY <1>2, MemoryFields
<1>4. Len(asked) = Len(answered) + 1 /\ asked \in Seq(Nat) /\ Len(answered) \in Nat
  BY <1>0
<1>5. CASE item = NoItem
  <2>1. kept = <<>> /\ Len(kept) = 0
    BY <1>5 DEF kept
  <2>2. <<>> \in Seq(KeptItems)
    OBVIOUS
  <2> HIDE DEF asked
  <2>3. SuffixOf(kept, asked)
    BY <1>4, <2>1 DEF SuffixOf
  <2>4. QED
    BY <1>2, <1>3, <2>1, <2>2, <2>3 DEF asked
<1>6. CASE item # NoItem
  <2>1. /\ all \in Seq(KeptItems) /\ Len(all) = Len(memory.past) + 1 /\ Len(memory.past) \in Nat
        /\ \A i \in 1 .. Len(memory.past) : all[i] = memory.past[i]
        /\ all[Len(memory.past) + 1] = item
    BY <1>0, <1>6
  <2>2. \A i \in 1 .. Len(answered) : asked[i] = answered[i]
    BY <1>0
  <2>3. asked[Len(answered) + 1] = requests /\ item.turn = requests
    BY <1>0, <1>6
  <2> HIDE DEF all, asked
  <2>4. /\ Len(all) <= Len(asked)
        /\ \A i \in 1 .. Len(all) : all[i].turn = asked[Len(asked) - Len(all) + i]
    <3>1. Len(memory.past) <= Len(answered)
      BY <1>0 DEF SuffixOf
    <3>2. ASSUME NEW i \in 1 .. Len(all) PROVE all[i].turn = asked[Len(asked) - Len(all) + i]
      <4>1. CASE i = Len(all)
        <5>1. all[i] = item
          BY <2>1, <4>1
        <5>a. Len(all) \in Nat /\ Len(asked) \in Nat /\ Len(asked) = Len(answered) + 1
          BY <1>4, <2>1
        <5>2. Len(asked) - Len(all) + i = Len(answered) + 1
          BY <4>1, <5>a
        <5>3. QED
          BY <2>3, <5>1, <5>2
      <4>2. CASE i # Len(all)
        <5>1. /\ i \in 1 .. Len(memory.past)
              /\ Len(asked) - Len(all) + i = Len(answered) - Len(memory.past) + i
              /\ Len(answered) - Len(memory.past) + i \in 1 .. Len(answered)
          BY <1>4, <2>1, <3>1, <4>2
        <5>2. memory.past[i].turn = answered[Len(answered) - Len(memory.past) + i]
          BY <1>0, <5>1 DEF SuffixOf
        <5>3. QED
          BY <2>1, <2>2, <5>1, <5>2
      <4>3. QED
        BY <4>1, <4>2
    <3>3. Len(all) <= Len(asked)
      BY <1>4, <2>1, <3>1
    <3>4. QED
      BY <3>2, <3>3
  <2>5. first \in 1 .. Len(all)
    BY <2>1, RequestBounds
  <2> HIDE DEF first
  <2>6. /\ kept \in Seq(KeptItems) /\ Len(kept) = Len(all) - first + 1
        /\ \A i \in 1 .. Len(kept) : kept[i] = all[first + i - 1]
    BY <1>6, <2>1, <2>5 DEF kept
  <2>7. SuffixOf(kept, asked)
    <3>1. Len(kept) <= Len(asked)
      BY <2>1, <2>4, <2>5, <2>6, <1>4
    <3>2. ASSUME NEW i \in 1 .. Len(kept) PROVE kept[i].turn = asked[Len(asked) - Len(kept) + i]
      <4>1. first + i - 1 \in 1 .. Len(all)
            /\ Len(asked) - Len(all) + (first + i - 1) = Len(asked) - Len(kept) + i
        BY <1>4, <2>1, <2>5, <2>6
      <4>2. QED
        BY <2>4, <2>6, <4>1
    <3>3. QED
      BY <3>1, <3>2 DEF SuffixOf
  <2>8. QED
    BY <1>2, <1>3, <2>6, <2>7 DEF asked
<1>7. QED
  BY <1>5, <1>6

LEMMA ResultsInv ==
    ASSUME TurnsInv, request # Idle, request' = Idle,
           UNCHANGED <<protocol, requests>>, answered' = Append(answered, requests),
           learnt' \subseteq KeptItems,
           NEW item \in KeptItems \cup {NoItem}, item # NoItem => item.turn = requests,
           NEW pa, pa = Remember(memory, item).past,
           NEW fa, memory' = MemoryOf(pa, NoItem, fa),
           fa = NoItem \/ (protocol = "v13" /\ OfThisRequest(fa))
    PROVE  TurnsInv'
<1>1. memory'.past = pa /\ memory'.pending = NoItem /\ memory'.facts = fa
  BY MemoryFields
<1>2. pa \in Seq(KeptItems) /\ SuffixOf(pa, Append(answered, requests))
  BY RememberFits
<1>3. /\ requests \in Nat /\ answered \in Seq(Nat) /\ requests' = requests /\ protocol' = protocol
      /\ \A i \in 1 .. Len(answered) : answered[i] \in Nat /\ answered[i] <= requests
  BY DEF TurnsInv, AnsweredFit
<1> DEFINE asked == Append(answered, requests)
<1>4. /\ asked \in Seq(Nat) /\ Len(asked) = Len(answered) + 1 /\ Len(answered) \in Nat
      /\ \A i \in 1 .. Len(answered) : asked[i] = answered[i]
      /\ asked[Len(answered) + 1] = requests
  BY <1>3
<1>5. answered' = asked
  OBVIOUS
<1> HIDE DEF asked
<1>6. \A i \in 1 .. Len(asked) : asked[i] <= requests
  <2> TAKE i \in 1 .. Len(asked)
  <2>1. CASE i \in 1 .. Len(answered)
    <3>1. asked[i] = answered[i] /\ answered[i] <= requests
      BY <1>3, <1>4, <2>1
    <3>2. QED
      BY <3>1
  <2>2. CASE i \notin 1 .. Len(answered)
    <3>1. i = Len(answered) + 1
      BY <1>4, <2>2
    <3>2. QED
      BY <1>3, <1>4, <3>1
  <2>3. QED
    BY <2>1, <2>2
<1>7. AnsweredFit'
  BY <1>3, <1>4, <1>5, <1>6 DEF AnsweredFit
<1>8. MemoryFits' /\ RestFits'
  <2>1. fa \in KeptItems \cup {NoItem} /\ (protocol # "v13" => fa = NoItem)
    BY DEF OfThisRequest
  <2>2. QED
    BY <1>1, <1>2, <1>3, <2>1 DEF MemoryFits, RestFits
<1>9. SuffixOf(memory.past, answered)'
  BY <1>1, <1>2, <1>5 DEF asked
<1>10. Newer(memory, answered)'
  <2>1. asked[Len(asked)] = requests /\ requests >= requests
    BY <1>3, <1>4
  <2>2. fa # NoItem => fa.turn >= asked[Len(asked)]
    BY <2>1 DEF OfThisRequest
  <2>3. QED
    BY <1>1, <1>5, <2>2 DEF Newer
<1>11. QED
  BY <1>7, <1>8, <1>9, <1>10 DEF TurnsInv


\* Before v13 the request is of a question, and so is one that is executed.
LEMMA QueryInv ==
    ASSUME TurnsInv, NEW id, NEW given, NEW here, Query(id, given, here)
    PROVE  TurnsInv'
<1> DEFINE r == [at |-> "planning", route |-> "query", id |-> id, given |-> given, here |-> here]
           m == IF Own(r) /\ id # "kept" THEN Blank ELSE memory
<1>1. /\ request = Idle /\ requests' = requests + 1 /\ protocol' = protocol /\ learnt' = learnt
      /\ \/ memory' = memory /\ answered' = answered
         \/ memory' = m /\ answered' = IF m = memory THEN answered ELSE <<>>
  <2> HIDE DEF m, r
  <2>1. QED
    BY DEF Query, m, r
<1>2. CASE memory' = memory /\ answered' = answered
  BY <1>1, <1>2, StayInv
<1>3. CASE memory' = Blank /\ answered' = <<>>
  <2>1. memory' = MemoryOf(<<>>, NoItem, NoItem)
    BY <1>3 DEF Blank, MemoryOf
  <2>2. memory'.past = <<>> /\ memory'.pending = NoItem /\ memory'.facts = NoItem
    BY <2>1, MemoryFields
  <2>3. <<>> \in Seq(KeptItems) /\ <<>> \in Seq(Nat) /\ Len(<<>>) = 0
    OBVIOUS
  <2>4. requests \in Nat /\ learnt \subseteq KeptItems
    BY DEF TurnsInv, MemoryFits, AnsweredFit
  <2>5. MemoryFits' /\ RestFits'
    BY <1>1, <2>1, <2>2, <2>3, <2>4 DEF MemoryFits, RestFits
  <2>6. AnsweredFit'
    BY <1>1, <1>3, <2>3, <2>4 DEF AnsweredFit
  <2>7. SuffixOf(memory.past, answered)' /\ Newer(memory, answered)'
    BY <1>3, <2>2, <2>3 DEF SuffixOf, Newer
  <2>8. QED
    BY <2>5, <2>6, <2>7 DEF TurnsInv
<1>4. QED
  BY <1>1, <1>2, <1>3

\* A request that only fails.
LEMMA FailsInv ==
    ASSUME TurnsInv, NEW how, Fails(how), request.at # "idle"
    PROVE  TurnsInv'
<1>1. request # Idle
  BY DEF Idle
<1>2. QED
  BY <1>1, StayInv DEF Fails, Ends, Forgets

LEMMA ExecutingInv ==
    ASSUME TurnsInv, NEW p, Executing(p), request.at = "planning"
    PROVE  TurnsInv'
<1>1. request # Idle
  BY DEF Idle
<1>2. QED
  BY <1>1, StayInv DEF Executing, Forgets

LEMMA Plan12Inv == ASSUME TurnsInv, NEW p, Plan12(p) PROVE TurnsInv'
<1>1. request.at = "planning" /\ (Fails("422") \/ Executing(p))
  BY DEF Plan12
<1>2. QED
  BY <1>1, FailsInv, ExecutingInv

\* Small talk, lost threads, and questions to the user.
LEMMA RepliesInv ==
    ASSUME TurnsInv, protocol = "v13", request.at = "planning",
           NEW how, NEW m, Replies(how, m),
           \/ m \in {memory, Blank, [memory EXCEPT !.facts = NoItem]}
           \/ \E s : m = [memory EXCEPT !.pending = s] /\ (s = NoItem \/ OfThisRequest(s))
    PROVE  TurnsInv'
<1>1. /\ request # Idle /\ request' = Idle /\ UNCHANGED <<protocol, requests, answered>>
      /\ memory' = m /\ learnt' \subseteq KeptItems
  BY DEF Replies, Ends, Idle, TurnsInv, MemoryFits
<1>2. memory = MemoryOf(memory.past, memory.pending, memory.facts)
  BY DEF TurnsInv, MemoryFits
<1>3. CASE m = memory
  BY <1>1, <1>2, <1>3, EndsPlainlyInv
<1>4. CASE m = Blank
  <2>1. m = MemoryOf(<<>>, NoItem, NoItem)
    BY <1>4 DEF Blank, MemoryOf
  <2>2. QED
    BY <1>1, <2>1, EndsPlainlyInv
<1>5. CASE m = [memory EXCEPT !.facts = NoItem]
  <2>1. m = MemoryOf(memory.past, memory.pending, NoItem)
    BY <1>2, <1>5 DEF MemoryOf
  <2>2. QED
    BY <1>1, <2>1, EndsPlainlyInv
<1>6. ASSUME NEW s, m = [memory EXCEPT !.pending = s], s = NoItem \/ OfThisRequest(s)
      PROVE  TurnsInv'
  <2>1. m = MemoryOf(memory.past, s, memory.facts)
    BY <1>2, <1>6 DEF MemoryOf
  <2>2. QED
    BY <1>1, <1>6, <2>1, EndsPlainlyInv
<1>7. QED
  BY <1>3, <1>4, <1>5, <1>6

LEMMA TalkInv ==
    ASSUME TurnsInv, LostThread \/ (\E act \in Acts : Converse(act))
                     \/ (\E p \in TurnPlans : AskedBack(p) \/ Unsupported(p))
    PROVE  TurnsInv'
<1>1. CASE LostThread
  BY <1>1, RepliesInv DEF LostThread
<1>2. ASSUME NEW act \in Acts, Converse(act) PROVE TurnsInv'
  <2> DEFINE m == CASE act \in {"thanks", "repeat"} -> memory
                    [] act = "unsupported" -> Blank
                    [] OTHER -> [memory EXCEPT !.facts = NoItem]
  <2>1. m \in {memory, Blank, [memory EXCEPT !.facts = NoItem]}
    BY DEF Acts
  <2>2. request.at = "planning" /\ protocol = "v13" /\ Replies("talked", m)
    BY <1>2 DEF Converse, Talking
  <2> HIDE DEF m
  <2>3. QED
    BY <2>1, <2>2, RepliesInv
<1>3. ASSUME NEW p \in TurnPlans, AskedBack(p) PROVE TurnsInv'
  <2>1. request.at = "planning" /\ protocol = "v13"
    BY <1>3 DEF AskedBack, Talking
  <2>2. CASE Replies("no_context", memory)
    BY <2>1, <2>2, RepliesInv
  <2> DEFINE s == IF p.fits THEN Summary(p) ELSE NoItem
  <2>3. s = NoItem \/ OfThisRequest(s)
    BY SummaryKept DEF TurnsInv, AnsweredFit, OfThisRequest
  <2>4. Replies("no_context", memory) \/ Replies("asked_back", [memory EXCEPT !.pending = s])
    BY <1>3 DEF AskedBack
  <2> HIDE DEF s
  <2>5. CASE Replies("asked_back", [memory EXCEPT !.pending = s])
    BY <2>1, <2>3, <2>5, RepliesInv
  <2>6. QED
    BY <2>2, <2>4, <2>5
<1>4. ASSUME NEW p \in TurnPlans, Unsupported(p) PROVE TurnsInv'
  BY <1>4, RepliesInv DEF Unsupported, Talking
<1>5. QED
  BY <1>1, <1>2, <1>3, <1>4

\* v13 answers: what is private is not kept, and what is kept is of this request.
LEMMA Answer13Inv ==
    ASSUME TurnsInv, NEW outcome, Answer13(outcome)
    PROVE  TurnsInv'
<1> DEFINE p == request.plan
           summary == IF Sensitive(p) THEN NoItem
                      ELSE IF outcome = "clarification" THEN NoItem ELSE Summary(p)
           fact == IF Sensitive(p) THEN NoItem ELSE Item(p)
<1>1. /\ request # Idle /\ request' = Idle /\ UNCHANGED <<protocol, requests, learnt>>
      /\ protocol = "v13" /\ memory' = Finished(request.plan, outcome)
      /\ answered' = IF outcome = "results" THEN Append(answered, requests) ELSE answered
  BY DEF Answer13, Ends, Idle
<1>2. requests \in Nat /\ learnt' \subseteq KeptItems
      /\ memory = MemoryOf(memory.past, memory.pending, memory.facts)
  BY <1>1 DEF TurnsInv, AnsweredFit, MemoryFits
<1>3. summary = NoItem \/ OfThisRequest(summary)
  BY <1>2, SummaryKept DEF OfThisRequest
<1>4. fact = NoItem \/ OfThisRequest(fact)
  BY <1>2, ItemKept DEF OfThisRequest, Sensitive
<1>5. memory' = IF outcome = "results"
                THEN [Remember(memory, summary) EXCEPT !.pending = NoItem, !.facts = fact]
                ELSE [memory EXCEPT !.pending = summary, !.facts = fact]
  BY <1>1 DEF Finished
<1> HIDE DEF summary, fact
<1>6. CASE outcome = "results"
  <2> DEFINE q == Remember(memory, summary).past
  <2>0. summary \in KeptItems \cup {NoItem} /\ (summary # NoItem => summary.turn = requests)
    BY <1>3 DEF OfThisRequest
  <2>1. Remember(memory, summary) = MemoryOf(q, memory.pending, memory.facts)
    BY <2>0, RememberFits
  <2> HIDE DEF q
  <2>a. memory' = [Remember(memory, summary) EXCEPT !.pending = NoItem, !.facts = fact]
    BY <1>5, <1>6
  <2>b. [MemoryOf(q, memory.pending, memory.facts) EXCEPT !.pending = NoItem, !.facts = fact]
            = MemoryOf(q, NoItem, fact)
    BY MemoryWith
  <2>2. memory' = MemoryOf(q, NoItem, fact)
    BY <2>1, <2>a, <2>b
  <2>3. answered' = Append(answered, requests)
    BY <1>1, <1>6
  <2>4. QED
    BY <1>1, <1>2, <1>4, <2>0, <2>2, <2>3, ResultsInv DEF q
<1>7. CASE outcome # "results"
  <2>1. memory' = MemoryOf(memory.past, summary, fact)
    BY <1>2, <1>5, <1>7 DEF MemoryOf
  <2>2. answered' = answered
    BY <1>1, <1>7
  <2>3. QED
    BY <1>1, <1>2, <1>3, <1>4, <2>1, <2>2, EndsPlainlyInv
<1>8. QED
  BY <1>6, <1>7

\* Older contracts keep results only, and learn only what is not private.
LEMMA Answer12Inv ==
    ASSUME TurnsInv, NEW outcome, Answer12(outcome)
    PROVE  TurnsInv'
<1> DEFINE p == request.plan
           summary == IF Sensitive(p) \/ outcome # "results" THEN NoItem ELSE Summary(p)
<1>1. /\ request # Idle /\ request' = Idle /\ UNCHANGED <<protocol, requests>>
      /\ protocol # "v13"
  BY DEF Answer12, Ends, Idle
<1>2. /\ requests \in Nat /\ learnt \subseteq KeptItems
      /\ memory = MemoryOf(memory.past, NoItem, NoItem)
      /\ memory.pending = NoItem /\ memory.facts = NoItem
  BY <1>1 DEF TurnsInv, AnsweredFit, MemoryFits, RestFits
<1>3. learnt' \subseteq KeptItems
  <2>1. Recorded(p, outcome) => Item(p) \in KeptItems
    BY <1>2, ItemKept DEF Recorded, Sensitive
  <2>2. learnt' = IF Recorded(p, outcome) THEN learnt \cup {Item(p)} ELSE learnt
    BY DEF Answer12
  <2>3. QED
    BY <1>2, <2>1, <2>2
<1>4. summary \in KeptItems \cup {NoItem} /\ (summary # NoItem => summary.turn = requests)
  BY <1>2, SummaryKept
<1>5. \/ UNCHANGED <<memory, answered>>
      \/ /\ memory' = Remember(memory, summary)
         /\ answered' = IF outcome = "results" THEN Append(answered, requests) ELSE answered
  BY DEF Answer12
<1>6. outcome # "results" => summary = NoItem
  OBVIOUS
<1> HIDE DEF summary
<1>7. CASE UNCHANGED <<memory, answered>>
  BY <1>1, <1>2, <1>3, <1>7, EndsPlainlyInv
<1> DEFINE q == Remember(memory, summary).past
<1>8. Remember(memory, summary) = MemoryOf(q, NoItem, NoItem)
  <2>1. Remember(memory, summary) = MemoryOf(q, memory.pending, memory.facts)
    BY <1>4, RememberFits
  <2>2. QED
    BY <1>2, <2>1
<1>9. CASE memory' = Remember(memory, summary) /\ outcome = "results" /\ answered' = Append(answered, requests)
  <2> HIDE DEF q
  <2>1. memory' = MemoryOf(q, NoItem, NoItem)
    BY <1>8, <1>9
  <2>2. QED
    BY <1>1, <1>3, <1>4, <1>9, <2>1, ResultsInv DEF q
<1>10. CASE memory' = Remember(memory, summary) /\ outcome # "results" /\ answered' = answered
  <2>1. Remember(memory, summary) = [memory EXCEPT !.past = <<>>]
    BY <1>6, <1>10 DEF Remember
  <2>2. memory' = MemoryOf(<<>>, NoItem, NoItem)
    BY <1>2, <1>10, <2>1 DEF MemoryOf
  <2>3. QED
    BY <1>1, <1>3, <1>10, <2>2, EndsPlainlyInv
<1>11. QED
  BY <1>5, <1>7, <1>9, <1>10

LEMMA TurnsInvStep == TurnsInv /\ [TurnsNext]_turnVars => TurnsInv'
<1> SUFFICES ASSUME TurnsInv, [TurnsNext]_turnVars PROVE TurnsInv'
  OBVIOUS
<1>1. ASSUME NEW id, NEW given, NEW here, Query(id, given, here) PROVE TurnsInv'
  BY <1>1, QueryInv
<1>2. ASSUME NEW name, Route(name) PROVE TurnsInv'
  <2>1. UNCHANGED <<protocol, memory, answered, learnt>> /\ requests' = requests + 1
    BY <1>2 DEF Route
  <2>2. QED
    BY <2>1, StayInv
<1>3. CASE Lose
  <2>1. UNCHANGED <<protocol, memory, answered, learnt, requests, request>>
    BY <1>3 DEF Lose
  <2>2. QED
    BY <2>1, StayInv
<1>4. CASE PlannerFails \/ PlanOnly \/ Administrative8 \/ KnowledgeAnswers \/ AnswerData \/ ExecutionFails
  <2>1. \E how : Fails(how) /\ request.at # "idle"
    BY <1>4 DEF PlannerFails, PlanOnly, Administrative8, KnowledgeAnswers, AnswerData, ExecutionFails
  <2>2. QED
    BY <2>1, FailsInv
<1>5. CASE AskKnowledge
  <2>1. UNCHANGED <<protocol, memory, answered, learnt, requests>> /\ request # Idle
    BY <1>5 DEF AskKnowledge, Forgets, Idle
  <2>2. QED
    BY <2>1, StayInv
<1>6. ASSUME NEW p \in TurnPlans, Plan12(p) \/ AskedBack(p) \/ Unsupported(p) \/ Research13(p)
      PROVE  TurnsInv'
  <2>1. CASE Research13(p)
    BY <2>1, ExecutingInv DEF Research13, Talking
  <2>2. QED
    BY <1>6, <2>1, Plan12Inv, TalkInv
<1>7. CASE UNCHANGED turnVars
  <2>1. UNCHANGED <<protocol, memory, answered, learnt, requests, request>>
    BY <1>7 DEF turnVars
  <2>2. QED
    BY <2>1, StayInv
<1>8. QED
  BY <1>1, <1>2, <1>3, <1>4, <1>5, <1>6, <1>7, TalkInv, Answer13Inv, Answer12Inv DEF TurnsNext

\* Whatever is asked, refused, repeated, asked back, lost or answered, under each of the
\* contracts: the context of the next question is of the latest questions answered, what
\* is pending is newer, and nothing that is kept or learnt is private.
THEOREM ContextStays == TurnsSpec => []ContextFollows
<1>1. TurnsInv => ContextFollows
  <2> SUFFICES ASSUME TurnsInv PROVE ContextFollows
    OBVIOUS
  <2> DEFINE past == memory.past
             turns == [i \in DOMAIN past |-> past[i].turn]
  <2>1. /\ past \in Seq(KeptItems) /\ answered \in Seq(Nat) /\ SuffixOf(past, answered)
        /\ memory.pending \in KeptItems \cup {NoItem} /\ memory.facts \in KeptItems \cup {NoItem}
        /\ learnt \subseteq KeptItems /\ Newer(memory, answered)
    BY DEF TurnsInv, MemoryFits, AnsweredFit
  <2>2. IsSuffix(turns, answered)
    <3>1. /\ DOMAIN past = 1 .. Len(past) /\ Len(past) \in Nat /\ Len(answered) \in Nat
          /\ \A i \in 1 .. Len(past) : past[i] \in KeptItems
      BY <2>1
    <3>2. turns \in Seq(Nat) /\ Len(turns) = Len(past) /\ DOMAIN turns = 1 .. Len(past)
          /\ \A i \in 1 .. Len(past) : turns[i] = past[i].turn
      <4>1. \A i \in 1 .. Len(past) : past[i].turn \in Nat
        BY <3>1 DEF KeptItems
      <4>2. turns \in [1 .. Len(past) -> Nat]
        BY <3>1, <4>1
      <4>3. QED
        BY <3>1, <4>2
    <3>3. /\ Len(turns) <= Len(answered)
          /\ \A i \in 1 .. Len(turns) : turns[i] = answered[Len(answered) - Len(turns) + i]
      BY <2>1, <3>2 DEF SuffixOf
    <3> HIDE DEF turns
    <3>4. QED
      BY <2>1, <3>2, <3>3, SuffixByPlace
  <2>3. answered # <<>> =>
            /\ memory.pending # NoItem => memory.pending.turn > Last(answered)
            /\ memory.facts # NoItem => memory.facts.turn >= Last(answered)
    BY <2>1 DEF Newer, Last
  <2>4. Range(past) \subseteq KeptItems
    BY <2>1 DEF Range
  <2>5. \A item \in ((Range(past) \cup {memory.pending, memory.facts}) \cup learnt) \ {NoItem} : ~ item.private
    BY <2>1, <2>4 DEF KeptItems
  <2>6. QED
    BY <2>2, <2>3, <2>5 DEF ContextFollows
<1>2. QED
  BY <1>1, TurnsInvInit, TurnsInvStep, PTL DEF TurnsSpec

----------------------------------------------------------------------------
(* Plans. The backend's plan for an answer of the planner says all that the  *)
(* answer says, and the family that is tried first for a plan that passes    *)
(* the gate shows what was asked for: proved of each translation, which in   *)
(* turn uses what the language of its contract forbids.                      *)

\* Subject and SortedBy, of any answer of the planner.
SubjectOf(w) ==
    IF w.intent = "taxonomy" THEN "taxonomy"
    ELSE IF w.metric = "none" \/ w.metric \in Fields THEN w.entity
    ELSE Operation(w)
SortOf(w) ==
    IF w.metric \in Fields THEN w.metric
    ELSE IF w.intent = "taxonomy" THEN "name"
    ELSE IF w.intent = "list" THEN "start_date" ELSE "value"
\* The form in which a family shows its result is the form asked for.
Meets(w, of, by, sort, order) ==
    /\ of = SubjectOf(w)
    /\ w.metric \notin Fields => by = w.groups
    /\ w.ordering # "none" => sort = SortOf(w) /\ order = w.ordering

PlanFields == {"intent", "entity", "metric", "groupings", "level", "ordering", "limit", "asks",
               "coverage", "zeroOnly", "field", "semantic", "taxonomy", "targets", "clarification"}

\* The steps of Adapted, one for each kind of question.
BaseOf(w) ==
    [Empty EXCEPT !.intent = w.intent, !.ordering = w.ordering, !.limit = w.limit,
                  !.asks = Lasting(w.asks), !.clarification = w.clarification]

LEMMA EmptyFields ==
    /\ DOMAIN Empty = PlanFields
    /\ Empty.intent = "list" /\ Empty.entity = "event" /\ Empty.metric = "none" /\ Empty.groupings = {}
    /\ Empty.level = "none" /\ Empty.ordering = "none" /\ Empty.limit = NoLimit /\ Empty.asks = {}
    /\ Empty.coverage = FALSE /\ Empty.zeroOnly = FALSE /\ Empty.field = "none"
    /\ Empty.semantic = FALSE /\ Empty.taxonomy = FALSE /\ Empty.targets = {}
    /\ Empty.clarification = "none"
BY DEF Empty, PlanFields

LEMMA BaseFields ==
    ASSUME NEW w, NEW b, b = BaseOf(w)
    PROVE  /\ DOMAIN b = PlanFields
           /\ b.intent = w.intent /\ b.entity = "event" /\ b.metric = "none" /\ b.groupings = {}
           /\ b.level = "none" /\ b.ordering = w.ordering /\ b.limit = w.limit /\ b.asks = Lasting(w.asks)
           /\ b.coverage = FALSE /\ b.zeroOnly = FALSE /\ b.field = "none"
           /\ b.semantic = FALSE /\ b.taxonomy = FALSE /\ b.targets = {}
           /\ b.clarification = w.clarification
BY EmptyFields DEF BaseOf, PlanFields

AsInventory(w, b) ==
    [b EXCEPT !.metric = "event_count", !.groupings = w.groups,
              !.level = OnlyOf(Grouping(w)), !.coverage = TRUE,
              !.zeroOnly = w.threshold # "none",
              !.ordering = IF w.ordering = "none" THEN "desc" ELSE w.ordering,
              !.limit = IF w.limit = NoLimit THEN 20 ELSE w.limit]

InventoryFrom(w, b, a) ==
    /\ DOMAIN a = PlanFields
    /\ a.metric = "event_count" /\ a.groupings = w.groups /\ a.level = OnlyOf(Grouping(w))
    /\ a.coverage = TRUE /\ (a.zeroOnly <=> w.threshold # "none")
    /\ a.ordering = IF w.ordering = "none" THEN "desc" ELSE w.ordering
    /\ a.limit = IF w.limit = NoLimit THEN 20 ELSE w.limit
    /\ a.intent = b.intent /\ a.entity = b.entity /\ a.asks = b.asks /\ a.field = b.field
    /\ a.semantic = b.semantic /\ a.taxonomy = b.taxonomy /\ a.targets = b.targets
    /\ a.clarification = b.clarification

LEMMA InventoryFields ==
    ASSUME NEW w, NEW b, DOMAIN b = PlanFields, NEW a,
           a = AsInventory(w, b)
    PROVE  InventoryFrom(w, b, a)
BY DEF PlanFields, AsInventory, InventoryFrom

LEMMA SpeaksLater ==
    ASSUME contract' = contract, Speaks(wire') PROVE Speaks(wire)'
BY DEF Speaks, SpeaksModern, RankSpeaks, ConstraintsSpeak, SpeaksAnalytical, AnalyticalIntents,
       AnalyticalGroups, AnalyticalOrderSpeaks, AnalyticalMetricSpeaks, AnalyticalMeaningSpeaks,
       AnalyticalPlacesSpeak

\* What each family would show for a plan, in the order in which they are tried.
AnswersPlain(w, p) ==
    /\ p.intent = "taxonomy" => Meets(w, "taxonomy", {}, "name", OrElse(p.ordering, "asc"))
    /\ p.intent = "spatial_rank" => Meets(w, p.entity, {}, p.field, p.ordering)
    /\ p.intent = "count" => Meets(w, p.metric, {}, "none", "none") /\ w.limit = NoLimit
    /\ p.intent = "aggregate" => Meets(w, p.metric, {p.level}, "value", OrElse(p.ordering, "desc"))
    /\ p.intent = "list" /\ p.entity = "event" =>
          Meets(w, "event", {}, "start_date", OrElse(p.ordering, "asc"))
    /\ p.intent = "list" /\ p.entity # "event" => Meets(w, p.entity, {}, "start_date", "asc")
    /\ p.intent = "compare" /\ p.metric # "none" =>
          Meets(w, p.metric, {}, "none", "none") /\ w.limit = NoLimit /\ w.threshold = "none"
AnswersBounded(w, p) ==
    /\ p.level # "none" => Meets(w, "event_count", {p.level}, "value", OrElse(p.ordering, "desc"))
    /\ p.level = "none" /\ p.intent = "count" =>
          Meets(w, "event_count", {}, "none", "none") /\ w.limit = NoLimit
    /\ p.level = "none" /\ p.intent # "count" =>
          Meets(w, "event", {}, "start_date", OrElse(p.ordering, "desc"))
Answers(w, p) ==
    /\ p.semantic => Meets(w, "event", {}, "similarity", "desc") /\ ~ BoundaryExecution(p)
    /\ ~ p.semantic /\ CellExecution(p) => Meets(w, p.metric, p.groupings, "value", p.ordering)
    /\ ~ p.semantic /\ ~ CellExecution(p) /\ BoundaryExecution(p) => AnswersBounded(w, p)
    /\ ~ p.semantic /\ ~ CellExecution(p) /\ ~ BoundaryExecution(p) => AnswersPlain(w, p)
\* A plan under which nothing of the planner's answer is lost, if it is executed.
Says(w, p) ==
    /\ p.asks = w.asks /\ p.clarification = w.clarification
    /\ ~ w.unsupported /\ w.intent # "trend"
    /\ w.limit # NoLimit => LimitOf(p) = w.limit
    /\ p.zeroOnly /\ p.level \in Levels <=> w.threshold = "zero"
    /\ w.threshold # "some"
    /\ p.targets = w.targets /\ (p.intent # "compare" => w.targets = {})
Faithful(w, p) ==
    p.clarification \in {"none", "needs_location"} => Says(w, p) /\ (Supported(p) => Answers(w, p))

\* What the modern contracts have in common.
Consistent(w) ==
    /\ CountSpeaks(w) /\ MetricSpeaks(w) /\ OrderSpeaks(w) /\ TargetsSpeak(w)
    /\ w.semantic <=> w.intent = "search"
    /\ w.taxonomy <=> w.intent = "taxonomy"
\* The fields of a plan that shows or counts nothing by groups.
Bare(w, p) ==
    /\ p.groupings = {} /\ p.level = "none" /\ p.coverage = FALSE /\ p.zeroOnly = FALSE
    /\ p.ordering = w.ordering /\ p.limit = w.limit /\ p.asks = w.asks
    /\ p.clarification = w.clarification

LEMMA BareSays ==
    ASSUME NEW w, NEW p, Bare(w, p), ~ w.unsupported, w.intent # "trend", w.threshold = "none",
           p.targets = w.targets, p.intent # "compare" => w.targets = {}
    PROVE  Says(w, p)
BY DEF Bare, Says, LimitOf, Levels

LEMMA RecordsFaithful ==
    ASSUME NEW w, NEW p, Consistent(w), RecordsFit(w), ~ w.unsupported, Bare(w, p),
           p.intent = w.intent, p.entity = w.entity, p.metric = "none", p.field = "none",
           p.semantic = w.semantic, p.taxonomy = w.taxonomy, p.targets = {}
    PROVE  Faithful(w, p)
<1>1. w.intent \in {"list", "search", "taxonomy"} /\ w.threshold = "none"
  BY DEF RecordsFit, ShowsRecords
<1>2. w.metric = "none" /\ w.groups = {} /\ w.targets = {}
      /\ (w.ordering # "none" => w.intent = "taxonomy")
  BY <1>1 DEF Consistent, MetricSpeaks, TargetsSpeak, OrderSpeaks
<1>3. Says(w, p)
  BY <1>1, <1>2, BareSays
<1>4. /\ SubjectOf(w) = IF w.intent = "taxonomy" THEN "taxonomy" ELSE w.entity
      /\ SortOf(w) = IF w.intent = "taxonomy" THEN "name"
                     ELSE IF w.intent = "list" THEN "start_date" ELSE "value"
  BY <1>2 DEF SubjectOf, SortOf, Fields
<1>5. ~ CellExecution(p)
  BY DEF Bare, CellExecution
<1>6. w.intent # "list" => w.entity = "event"
  BY DEF RecordsFit
<1>7. ASSUME Supported(p) PROVE Answers(w, p)
  <2>1. BoundaryExecution(p) => p.intent = "list" /\ p.entity = "event" /\ ~ p.semantic
    BY <1>7, <1>1, <1>5 DEF Supported, BoundaryFits, Bare, Levels
  <2>2. ASSUME p.semantic PROVE Meets(w, "event", {}, "similarity", "desc") /\ ~ BoundaryExecution(p)
    <3>1. w.intent = "search"
      BY <2>2 DEF Consistent
    <3>2. QED
      BY <1>2, <1>4, <1>6, <2>1, <2>2, <3>1 DEF Meets
  <2>3. ASSUME BoundaryExecution(p) PROVE AnswersBounded(w, p)
    BY <1>2, <1>4, <2>1, <2>3 DEF AnswersBounded, Bare, Meets
  <2>4. AnswersPlain(w, p)
    BY <1>1, <1>2, <1>4 DEF AnswersPlain, Bare, Meets, OrElse
  <2>5. QED
    BY <1>5, <2>2, <2>3, <2>4 DEF Answers
<1>8. QED
  BY <1>3, <1>7 DEF Faithful

LEMMA FieldFaithful ==
    ASSUME NEW w, NEW p, Consistent(w), FieldFits(w), ~ w.unsupported, Bare(w, p),
           p.metric = "none", p.semantic = FALSE, p.taxonomy = FALSE, p.targets = {},
           \/ /\ w.metric = "start_date" /\ p.intent = "list" /\ p.entity = "event" /\ p.field = "none"
           \/ /\ w.metric # "start_date" /\ p.intent = "spatial_rank" /\ p.entity = w.entity
              /\ p.field = w.metric
    PROVE  Faithful(w, p)
<1>1. w.intent = "rank" /\ w.threshold = "none" /\ w.metric \in Fields
      /\ (w.metric = "start_date" => w.entity = "event")
  BY DEF FieldFits, RanksByField
<1>2. w.targets = {}
  BY <1>1 DEF Consistent, TargetsSpeak
<1>3. Says(w, p)
  BY <1>1, <1>2, BareSays
<1>4. SubjectOf(w) = w.entity /\ SortOf(w) = w.metric
  BY <1>1 DEF SubjectOf, SortOf
<1>5. ~ CellExecution(p)
  BY DEF Bare, CellExecution
<1>6. ASSUME Supported(p) PROVE Answers(w, p)
  <2>1. BoundaryExecution(p) => p.field = "none"
    BY <1>5, <1>6 DEF Supported, BoundaryFits
  <2>2. ASSUME BoundaryExecution(p) PROVE AnswersBounded(w, p)
    <3>1. w.metric = "start_date" /\ p.intent = "list"
      BY <1>1, <2>1, <2>2 DEF Fields
    <3>2. QED
      BY <1>1, <1>4, <3>1 DEF AnswersBounded, Bare, Meets, OrElse
  <2>3. AnswersPlain(w, p)
    BY <1>1, <1>4 DEF AnswersPlain, Bare, Meets, OrElse
  <2>4. QED
    BY <1>5, <2>2, <2>3 DEF Answers
<1>7. QED
  BY <1>3, <1>6 DEF Faithful

\* What is counted is a count of the backend.
LEMMA MeasuresCount ==
    ASSUME NEW w, Measures(w)
    PROVE  /\ Operation(w) \in Counts /\ w.metric # "none" /\ w.metric \notin Fields
           /\ w.intent \notin {"list", "search", "taxonomy"}
           /\ SubjectOf(w) = Operation(w) /\ SortOf(w) = "value"
<1>1. Operation(w) \in Counts /\ w.intent \notin {"list", "search", "taxonomy"} /\ w.metric \notin Fields
  BY DEF Measures, ShowsRecords, RanksByField
<1>2. w.metric # "none"
  BY <1>1 DEF Operation, Distinct, Counts
<1>3. QED
  BY <1>1, <1>2 DEF SubjectOf, SortOf

LEMMA ComparesFaithful ==
    ASSUME NEW w, NEW p, Consistent(w), Comparable(w), ~ w.unsupported, Bare(w, p),
           p.intent = w.intent, p.metric = IF Measures(w) THEN Operation(w) ELSE "none",
           p.field = "none", p.semantic = FALSE, p.taxonomy = FALSE, p.targets = w.targets
    PROVE  Faithful(w, p)
<1>1. w.intent = "compare" /\ w.threshold = "none" /\ w.groups = {} /\ w.ordering = "none"
  BY DEF Comparable, Consistent, OrderSpeaks
<1>2. Says(w, p)
  BY <1>1, BareSays
<1>3. ~ CellExecution(p)
  BY DEF Bare, CellExecution
<1>4. ASSUME Supported(p) PROVE Answers(w, p)
  <2>1. ~ BoundaryExecution(p)
    BY <1>1, <1>3, <1>4 DEF Supported, BoundaryFits
  <2>2. ASSUME p.metric # "none"
        PROVE  Meets(w, p.metric, {}, "none", "none") /\ w.limit = NoLimit
    <3>1. Measures(w) /\ p.metric = Operation(w)
      BY <2>2
    <3>2. w.limit = NoLimit
      BY <3>1, MeasuresCount DEF Comparable
    <3>3. QED
      BY <1>1, <3>1, <3>2, MeasuresCount DEF Meets
  <2>3. AnswersPlain(w, p)
    BY <1>1, <2>2 DEF AnswersPlain
  <2>4. QED
    BY <1>3, <2>1, <2>3 DEF Answers
<1>5. QED
  BY <1>2, <1>4 DEF Faithful

LEMMA CountFaithful ==
    ASSUME NEW w, NEW p, Consistent(w), CountsFit(w), ~ w.unsupported, Bare(w, p),
           p.intent = w.intent, p.metric = Operation(w), p.semantic = FALSE, p.taxonomy = FALSE,
           p.targets = {}
    PROVE  Faithful(w, p)
<1>1. w.intent = "count" /\ w.threshold = "none" /\ Measures(w)
  BY DEF CountsFit
<1>2. w.groups = {} /\ w.ordering = "none" /\ w.limit = NoLimit /\ w.targets = {}
  BY <1>1 DEF Consistent, MetricSpeaks, OrderSpeaks, TargetsSpeak
<1>3. Says(w, p)
  BY <1>1, <1>2, BareSays
<1>4. SubjectOf(w) = Operation(w)
  BY <1>1, MeasuresCount
<1>5. ~ CellExecution(p)
  BY DEF Bare, CellExecution
<1>6. ASSUME Supported(p) PROVE Answers(w, p)
  <2>1. BoundaryExecution(p) => p.metric = "event_count"
    BY <1>1, <1>5, <1>6 DEF Supported, BoundaryFits, Bare, Levels
  <2>2. ASSUME BoundaryExecution(p) PROVE AnswersBounded(w, p)
    BY <1>1, <1>2, <1>4, <2>1, <2>2 DEF AnswersBounded, Bare, Meets
  <2>3. AnswersPlain(w, p)
    BY <1>1, <1>2, <1>4 DEF AnswersPlain, Meets
  <2>4. QED
    BY <1>5, <2>2, <2>3 DEF Answers
<1>7. QED
  BY <1>3, <1>6 DEF Faithful

\* A set of one has the one that is chosen from it.
LEMMA OnlyOne ==
    ASSUME NEW S, IsFiniteSet(S), Cardinality(S) = 1
    PROVE  S = {OnlyOf(S)} /\ OnlyOf(S) \in S
<1>1. PICK x : S = {x}
  BY FS_Singleton
<1>2. QED
  BY <1>1 DEF OnlyOf

\* Areas of a level: from the modern contracts and from the administrative one.
ListsLevel(w, p, l) ==
    /\ p.intent = w.intent /\ p.metric = "event_count" /\ p.groupings = w.groups /\ p.level = l
    /\ p.coverage = TRUE /\ (p.zeroOnly <=> w.threshold # "none")
    /\ p.semantic = FALSE /\ p.targets = {}
    /\ p.ordering = IF w.ordering = "none" THEN "desc" ELSE w.ordering
    /\ p.limit = IF w.limit = NoLimit THEN 20 ELSE w.limit
    /\ p.asks = w.asks /\ p.clarification = w.clarification

ShowsAreas(w, p, l) ==
    /\ w.intent \in {"rank", "aggregate"} /\ w.metric = "event_count"
    /\ w.threshold \in {"none", "zero"} /\ w.targets = {} /\ w.groups = {l}
    /\ ListsLevel(w, p, l)

LEMMA AreasFaithful ==
    ASSUME NEW w, NEW p, NEW l \in Levels, ShowsAreas(w, p, l), ~ w.unsupported
    PROVE  Faithful(w, p)
<1>1. Says(w, p)
  <2>1. p.zeroOnly <=> w.threshold = "zero"
    BY DEF ShowsAreas, ListsLevel
  <2>2. w.limit # NoLimit => LimitOf(p) = w.limit
    BY DEF LimitOf, ShowsAreas, ListsLevel
  <2>3. QED
    BY <2>1, <2>2 DEF Says, ShowsAreas, ListsLevel
<1>2. SubjectOf(w) = "event_count" /\ SortOf(w) = "value" /\ w.metric \notin Fields
  BY DEF SubjectOf, SortOf, Fields, Operation, Distinct, ShowsAreas, ListsLevel
<1>3. l # "none" /\ ~ CellExecution(p) /\ BoundaryExecution(p)
  BY DEF Levels, CellExecution, BoundaryExecution, ShowsAreas, ListsLevel
<1>4. AnswersBounded(w, p)
  BY <1>2, <1>3 DEF AnswersBounded, Meets, OrElse, ShowsAreas, ListsLevel
<1>5. QED
  BY <1>1, <1>3, <1>4 DEF Faithful, Answers, ShowsAreas, ListsLevel

LEMMA FewScalars == ASSUME NEW S, S \subseteq Scalars PROVE IsFiniteSet(S)
<1> DEFINE A == {"event"} \cup {"venue"}
           B == A \cup {"organization"}
           C == B \cup {"category"}
           D == C \cup {"genre"}
           E == D \cup {"event_type"}
<1>1. IsFiniteSet({"event"})
  BY FS_Singleton
<1>2. IsFiniteSet(A) /\ IsFiniteSet(B) /\ IsFiniteSet(C) /\ IsFiniteSet(D) /\ IsFiniteSet(E)
  BY <1>1, FS_AddElement
<1>3. Scalars = E
  BY DEF Scalars
<1>4. QED
  BY <1>2, <1>3, FS_Subset

LEMMA InventoryFaithful ==
    ASSUME NEW w, NEW p, Consistent(w), InventoryFits(w), ~ w.unsupported,
           ListsLevel(w, p, OnlyOf(Grouping(w)))
    PROVE  Faithful(w, p)
<1>1. /\ w.intent \in {"aggregate", "rank"} /\ Operation(w) = "event_count"
      /\ w.threshold \in {"none", "zero"} /\ Cardinality(w.groups) = 1 /\ w.groups \subseteq Levels
  BY DEF InventoryFits, Inventory, Grouped
<1>2. w.metric = "event_count"
  BY <1>1 DEF Operation, Distinct
<1>3. IsFiniteSet(w.groups)
  <2>1. IsFiniteSet({"country"}) /\ IsFiniteSet({"country", "region"})
        /\ IsFiniteSet({"country", "region", "municipality"})
    <3>1. IsFiniteSet({"country"})
      BY FS_Singleton
    <3>2. IsFiniteSet({"country"} \cup {"region"})
      BY <3>1, FS_AddElement
    <3>3. IsFiniteSet(({"country"} \cup {"region"}) \cup {"municipality"})
      BY <3>2, FS_AddElement
    <3>4. /\ {"country"} \cup {"region"} = {"country", "region"}
          /\ ({"country"} \cup {"region"}) \cup {"municipality"} = {"country", "region", "municipality"}
      OBVIOUS
    <3>5. QED
      BY <3>1, <3>2, <3>3, <3>4
  <2>2. QED
    BY <1>1, <2>1, FS_Subset DEF Levels
<1>4. PICK l : l \in Levels /\ w.groups = {l} /\ OnlyOf(w.groups) = l
  BY <1>1, <1>3, OnlyOne
<1>5. Grouping(w) = w.groups
  BY DEF Grouping
<1>6. w.targets = {}
  BY <1>1 DEF Consistent, TargetsSpeak
<1>7. l \in Levels /\ w.groups = {l} /\ ListsLevel(w, p, l)
  BY <1>4, <1>5
<1>8. ShowsAreas(w, p, l)
  BY <1>1, <1>2, <1>6, <1>7 DEF ShowsAreas
<1>9. QED
  BY <1>7, <1>8, AreasFaithful

LEMMA GroupsFaithful ==
    ASSUME NEW w, NEW p, Consistent(w), GroupsFit(w), ~ InventoryFits(w), ~ w.unsupported,
           p.intent = IF Grouping(w) # {} THEN "aggregate" ELSE w.intent,
           p.entity = CountEntity(Operation(w)), p.metric = Operation(w), p.groupings = w.groups,
           p.level = OnlyOf(Grouping(w)), p.coverage = FALSE, p.zeroOnly = FALSE, p.field = "none",
           p.ordering = w.ordering, p.limit = w.limit, p.semantic = FALSE, p.taxonomy = FALSE,
           p.targets = {}, p.asks = w.asks, p.clarification = w.clarification
    PROVE  Faithful(w, p)
<1>1. /\ w.intent \in {"aggregate", "rank"} /\ w.groups # {} /\ Measures(w) /\ w.threshold = "none"
      /\ w.targets = {}
  BY DEF GroupsFit, Grouped, Consistent, TargetsSpeak
<1>2. SubjectOf(w) = Operation(w) /\ SortOf(w) = "value" /\ w.metric \notin Fields
      /\ Operation(w) \in Counts
  BY <1>1, MeasuresCount
<1>3. Says(w, p)
  BY <1>1 DEF Says, LimitOf
<1>4. Grouping(w) = IF Cardinality(w.groups) = 1 /\ w.groups \subseteq Scalars THEN w.groups ELSE {}
  BY DEF Grouping
<1>5. CASE Cardinality(w.groups) = 1 /\ w.groups \subseteq Scalars
  <2>1. PICK s : s \in Scalars /\ w.groups = {s} /\ OnlyOf(w.groups) = s
    <3>1. IsFiniteSet(w.groups)
      BY <1>5, FewScalars
    <3>2. QED
      BY <1>5, <3>1, OnlyOne
  <2>2. p.level = s /\ p.intent = "aggregate" /\ s # "none" /\ s \notin Levels /\ s # "municipality"
    BY <1>4, <1>5, <2>1 DEF Scalars, Levels
  <2>3. ~ CellExecution(p)
    BY <2>2 DEF CellExecution
  <2>4. Supported(p) => ~ BoundaryExecution(p)
    BY <2>2, <2>3 DEF Supported, BoundaryFits
  <2>5. AnswersPlain(w, p)
    BY <1>2, <2>1, <2>2 DEF AnswersPlain, Meets, OrElse
  <2>6. QED
    BY <1>3, <2>3, <2>4, <2>5 DEF Faithful, Answers
<1>6. CASE ~ (Cardinality(w.groups) = 1 /\ w.groups \subseteq Scalars)
  <2>1. w.groups \subseteq Cells /\ CountEntity(Operation(w)) = "event"
    BY <1>6 DEF GroupsFit
  <2>2. Operation(w) \in {"event_count", "occurrence_count"}
    BY <1>2, <2>1 DEF Counts, CountEntity
  <2>3. Grouping(w) = {} /\ p.level = "none" /\ p.intent = w.intent
    BY <1>4, <1>6 DEF OnlyOf
  <2>4. "event" \in w.groups => Operation(w) = "occurrence_count"
    BY <2>2 DEF Consistent, MetricSpeaks, Operation, Distinct
  <2>5. CellExecution(p)
    BY <1>1, <2>1, <2>2, <2>3, <2>4 DEF CellExecution
  <2>6. Meets(w, p.metric, p.groupings, "value", p.ordering)
    BY <1>2 DEF Meets
  <2>7. QED
    BY <1>3, <2>5, <2>6 DEF Faithful, Answers
<1>7. QED
  BY <1>5, <1>6

\* The kinds of questions the modern translation tells apart exclude one another.
LEMMA KindsApart ==
    ASSUME NEW w
    PROVE  /\ Unranked(w) => w.intent = "rank" /\ w.metric = "none"
           /\ RecordsFit(w) => w.intent \in {"list", "search", "taxonomy"}
           /\ FieldFits(w) => w.intent = "rank" /\ w.metric \in Fields
           /\ Comparable(w) => w.intent = "compare"
           /\ CountsFit(w) => w.intent = "count"
           /\ InventoryFits(w) \/ GroupsFit(w) =>
                 w.intent \in {"aggregate", "rank"} /\ w.metric # "none" /\ w.metric \notin Fields
<1>1. InventoryFits(w) \/ GroupsFit(w) => w.intent \in {"aggregate", "rank"} /\ Measures(w)
  BY DEF InventoryFits, Inventory, GroupsFit, Grouped
<1>2. QED
  BY <1>1, MeasuresCount DEF Unranked, RecordsFit, ShowsRecords, FieldFits, RanksByField, Comparable,
                             CountsFit

AsUnranked(w, b) == [b EXCEPT !.entity = w.entity, !.groupings = w.groups]
AsRecords(w, b) ==
    [b EXCEPT !.entity = w.entity, !.semantic = w.semantic, !.taxonomy = w.taxonomy]
AsList(b) == [b EXCEPT !.intent = "list"]
AsSpatial(w, b) == [b EXCEPT !.intent = "spatial_rank", !.entity = w.entity, !.field = w.metric]
AsComparison(w, b) ==
    [b EXCEPT !.metric = IF Measures(w) THEN Operation(w) ELSE "none",
              !.entity = IF Measures(w) THEN CountEntity(Operation(w)) ELSE w.entity,
              !.targets = w.targets]
AsCount(w, b) == [b EXCEPT !.metric = Operation(w), !.entity = CountEntity(Operation(w))]
AsGroups(w, b) ==
    [b EXCEPT !.metric = Operation(w), !.entity = CountEntity(Operation(w)),
              !.groupings = w.groups, !.level = OnlyOf(Grouping(w)),
              !.intent = IF Grouping(w) # {} THEN "aggregate" ELSE w.intent]

LEMMA AdaptedByKind ==
    ASSUME NEW w
    PROVE  Adapted(w) =
             CASE Unranked(w) -> AsUnranked(w, BaseOf(w))
               [] RecordsFit(w) -> AsRecords(w, BaseOf(w))
               [] FieldFits(w) /\ w.metric = "start_date" -> AsList(BaseOf(w))
               [] FieldFits(w) /\ w.metric # "start_date" -> AsSpatial(w, BaseOf(w))
               [] Comparable(w) -> AsComparison(w, BaseOf(w))
               [] CountsFit(w) -> AsCount(w, BaseOf(w))
               [] InventoryFits(w) -> AsInventory(w, BaseOf(w))
               [] OTHER -> AsGroups(w, BaseOf(w))
BY Zenon DEF Adapted, BaseOf, AsUnranked, AsRecords, AsList, AsSpatial, AsComparison, AsCount, AsInventory, AsGroups

LEMMA AdaptedTo ==
    ASSUME NEW w
    PROVE  /\ Unranked(w) => Adapted(w) = AsUnranked(w, BaseOf(w))
           /\ RecordsFit(w) => Adapted(w) = AsRecords(w, BaseOf(w))
           /\ FieldFits(w) /\ w.metric = "start_date" => Adapted(w) = AsList(BaseOf(w))
           /\ FieldFits(w) /\ w.metric # "start_date" => Adapted(w) = AsSpatial(w, BaseOf(w))
           /\ Comparable(w) => Adapted(w) = AsComparison(w, BaseOf(w))
           /\ CountsFit(w) => Adapted(w) = AsCount(w, BaseOf(w))
           /\ InventoryFits(w) => Adapted(w) = AsInventory(w, BaseOf(w))
           /\ GroupsFit(w) /\ ~ InventoryFits(w) => Adapted(w) = AsGroups(w, BaseOf(w))
<1> DEFINE a == Adapted(w)
           b == BaseOf(w)
<1>1. a = CASE Unranked(w) -> AsUnranked(w, b)
            [] RecordsFit(w) -> AsRecords(w, b)
            [] FieldFits(w) /\ w.metric = "start_date" -> AsList(b)
            [] FieldFits(w) /\ w.metric # "start_date" -> AsSpatial(w, b)
            [] Comparable(w) -> AsComparison(w, b)
            [] CountsFit(w) -> AsCount(w, b)
            [] InventoryFits(w) -> AsInventory(w, b)
            [] OTHER -> AsGroups(w, b)
  BY AdaptedByKind, Zenon
<1> HIDE DEF a, b
<1>2. /\ Unranked(w) => a = AsUnranked(w, b)
      /\ RecordsFit(w) => a = AsRecords(w, b)
      /\ FieldFits(w) /\ w.metric = "start_date" => a = AsList(b)
      /\ FieldFits(w) /\ w.metric # "start_date" => a = AsSpatial(w, b)
      /\ Comparable(w) => a = AsComparison(w, b)
      /\ CountsFit(w) => a = AsCount(w, b)
      /\ InventoryFits(w) => a = AsInventory(w, b)
      /\ GroupsFit(w) /\ ~ InventoryFits(w) => a = AsGroups(w, b)
  BY <1>1, KindsApart DEF Fields
<1>3. QED
  BY <1>2, Zenon DEF a, b

\* Recurring constraints return to the plan.
AskedFrom(w, a, p) ==
    /\ p.asks = w.asks
    /\ p.intent = a.intent /\ p.entity = a.entity /\ p.metric = a.metric
    /\ p.groupings = a.groupings /\ p.level = a.level /\ p.ordering = a.ordering
    /\ p.limit = a.limit /\ p.coverage = a.coverage /\ p.zeroOnly = a.zeroOnly
    /\ p.field = a.field /\ p.semantic = a.semantic /\ p.taxonomy = a.taxonomy
    /\ p.targets = a.targets /\ p.clarification = a.clarification
AskedOnceMore(w, a) == [a EXCEPT !.asks = @ \cup Recurring(w.asks)]

LEMMA AskedAgain ==
    ASSUME NEW w, NEW a, DOMAIN a = PlanFields, a.asks = Lasting(w.asks), NEW p,
           p = AskedOnceMore(w, a)
    PROVE  AskedFrom(w, a, p)
<1>1. p.asks = a.asks \cup Recurring(w.asks)
  BY DEF PlanFields, AskedOnceMore
<1>2. (w.asks \ Recurring(w.asks)) \cup Recurring(w.asks) = w.asks
  BY DEF Recurring
<1>3. p.asks = w.asks
  BY <1>1, <1>2 DEF Lasting
<1>4. QED
  BY <1>3 DEF PlanFields, AskedFrom, AskedOnceMore

LEMMA UnrankedFields ==
    ASSUME NEW w, NEW b, DOMAIN b = PlanFields, NEW a,
           a = AsUnranked(w, b)
    PROVE  DOMAIN a = PlanFields /\ a.asks = b.asks /\ a.clarification = b.clarification
BY DEF PlanFields, AsUnranked

LEMMA RecordsFields ==
    ASSUME NEW w, NEW b, DOMAIN b = PlanFields, NEW a, a = AsRecords(w, b)
    PROVE  /\ DOMAIN a = PlanFields
           /\ a.entity = w.entity /\ a.semantic = w.semantic /\ a.taxonomy = w.taxonomy
           /\ a.intent = b.intent /\ a.metric = b.metric /\ a.groupings = b.groupings
           /\ a.level = b.level /\ a.ordering = b.ordering /\ a.limit = b.limit
           /\ a.coverage = b.coverage /\ a.zeroOnly = b.zeroOnly /\ a.field = b.field
           /\ a.targets = b.targets /\ a.asks = b.asks /\ a.clarification = b.clarification
BY DEF PlanFields, AsRecords

LEMMA ListFields ==
    ASSUME NEW b, DOMAIN b = PlanFields, NEW a, a = AsList(b)
    PROVE  /\ DOMAIN a = PlanFields /\ a.intent = "list"
           /\ a.entity = b.entity /\ a.metric = b.metric /\ a.groupings = b.groupings
           /\ a.level = b.level /\ a.ordering = b.ordering /\ a.limit = b.limit
           /\ a.coverage = b.coverage /\ a.zeroOnly = b.zeroOnly /\ a.field = b.field
           /\ a.semantic = b.semantic /\ a.taxonomy = b.taxonomy
           /\ a.targets = b.targets /\ a.asks = b.asks /\ a.clarification = b.clarification
BY DEF PlanFields, AsList

LEMMA SpatialFields ==
    ASSUME NEW w, NEW b, DOMAIN b = PlanFields, NEW a, a = AsSpatial(w, b)
    PROVE  /\ DOMAIN a = PlanFields
           /\ a.intent = "spatial_rank" /\ a.entity = w.entity /\ a.field = w.metric
           /\ a.metric = b.metric /\ a.groupings = b.groupings
           /\ a.level = b.level /\ a.ordering = b.ordering /\ a.limit = b.limit
           /\ a.coverage = b.coverage /\ a.zeroOnly = b.zeroOnly
           /\ a.semantic = b.semantic /\ a.taxonomy = b.taxonomy
           /\ a.targets = b.targets /\ a.asks = b.asks /\ a.clarification = b.clarification
BY DEF PlanFields, AsSpatial

LEMMA ComparisonFields ==
    ASSUME NEW w, NEW b, DOMAIN b = PlanFields, NEW a, a = AsComparison(w, b)
    PROVE  /\ DOMAIN a = PlanFields
           /\ a.metric = IF Measures(w) THEN Operation(w) ELSE "none"
           /\ a.targets = w.targets
           /\ a.intent = b.intent /\ a.groupings = b.groupings
           /\ a.level = b.level /\ a.ordering = b.ordering /\ a.limit = b.limit
           /\ a.coverage = b.coverage /\ a.zeroOnly = b.zeroOnly /\ a.field = b.field
           /\ a.semantic = b.semantic /\ a.taxonomy = b.taxonomy
           /\ a.asks = b.asks /\ a.clarification = b.clarification
BY DEF PlanFields, AsComparison

LEMMA CountFields ==
    ASSUME NEW w, NEW b, DOMAIN b = PlanFields, NEW a, a = AsCount(w, b)
    PROVE  /\ DOMAIN a = PlanFields /\ a.metric = Operation(w)
           /\ a.intent = b.intent /\ a.groupings = b.groupings
           /\ a.level = b.level /\ a.ordering = b.ordering /\ a.limit = b.limit
           /\ a.coverage = b.coverage /\ a.zeroOnly = b.zeroOnly
           /\ a.semantic = b.semantic /\ a.taxonomy = b.taxonomy
           /\ a.targets = b.targets /\ a.asks = b.asks /\ a.clarification = b.clarification
BY DEF PlanFields, AsCount

LEMMA GroupsFields ==
    ASSUME NEW w, NEW b, DOMAIN b = PlanFields, NEW a, a = AsGroups(w, b)
    PROVE  /\ DOMAIN a = PlanFields
           /\ a.metric = Operation(w) /\ a.entity = CountEntity(Operation(w))
           /\ a.groupings = w.groups /\ a.level = OnlyOf(Grouping(w))
           /\ a.intent = IF Grouping(w) # {} THEN "aggregate" ELSE w.intent
           /\ a.ordering = b.ordering /\ a.limit = b.limit
           /\ a.coverage = b.coverage /\ a.zeroOnly = b.zeroOnly /\ a.field = b.field
           /\ a.semantic = b.semantic /\ a.taxonomy = b.taxonomy
           /\ a.targets = b.targets /\ a.asks = b.asks /\ a.clarification = b.clarification
BY DEF PlanFields, AsGroups

LEMMA ModernFaithful ==
    ASSUME NEW w, Consistent(w), Fits(w)
    PROVE  Faithful(w, Modern(w))
<1> DEFINE b == BaseOf(w)
           a == Adapted(w)
           p == Modern(w)
<1>1. p = AskedOnceMore(w, a)
  BY Zenon DEF Modern, AskedOnceMore
<1>2. /\ DOMAIN b = PlanFields
      /\ b.intent = w.intent /\ b.entity = "event" /\ b.metric = "none" /\ b.groupings = {}
      /\ b.level = "none" /\ b.ordering = w.ordering /\ b.limit = w.limit /\ b.asks = Lasting(w.asks)
      /\ b.coverage = FALSE /\ b.zeroOnly = FALSE /\ b.field = "none"
      /\ b.semantic = FALSE /\ b.taxonomy = FALSE /\ b.targets = {}
      /\ b.clarification = w.clarification
  BY BaseFields
<1>3. ~ w.unsupported /\ w.intent # "trend"
      /\ (Unranked(w) \/ RecordsFit(w) \/ FieldFits(w) \/ Comparable(w) \/ CountsFit(w)
            \/ InventoryFits(w) \/ GroupsFit(w))
  BY DEF Fits
<1>4. /\ Unranked(w) => a = AsUnranked(w, b)
      /\ RecordsFit(w) => a = AsRecords(w, b)
      /\ FieldFits(w) /\ w.metric = "start_date" => a = AsList(b)
      /\ FieldFits(w) /\ w.metric # "start_date" => a = AsSpatial(w, b)
      /\ Comparable(w) => a = AsComparison(w, b)
      /\ CountsFit(w) => a = AsCount(w, b)
      /\ InventoryFits(w) => a = AsInventory(w, b)
      /\ GroupsFit(w) /\ ~ InventoryFits(w) => a = AsGroups(w, b)
  BY AdaptedTo, Zenon
<1> HIDE DEF a, b, p
<1>5. DOMAIN a = PlanFields /\ a.asks = Lasting(w.asks) => AskedFrom(w, a, p)
  BY <1>1, AskedAgain
<1>6. ASSUME Unranked(w) PROVE Faithful(w, p)
  <2>1. a = AsUnranked(w, b)
    BY <1>4, <1>6
  <2>2. p.clarification = "needs_criteria"
    BY <1>5, <1>2, <1>6, <2>1, UnrankedFields DEF Unranked, AskedFrom
  <2>3. QED
    BY <2>2 DEF Faithful
<1>7. ASSUME RecordsFit(w) PROVE Faithful(w, p)
  <2>1. a = AsRecords(w, b)
    BY <1>4, <1>7
  <2>2. Bare(w, p) /\ p.intent = w.intent /\ p.entity = w.entity /\ p.metric = "none"
        /\ p.field = "none" /\ p.semantic = w.semantic /\ p.taxonomy = w.taxonomy
        /\ p.targets = {}
    BY <1>5, <1>2, <2>1, RecordsFields DEF Bare, AskedFrom
  <2>3. QED
    BY <1>3, <1>7, <2>2, RecordsFaithful
<1>8. ASSUME FieldFits(w) PROVE Faithful(w, p)
  <2>1. CASE w.metric = "start_date"
    <3>1. a = AsList(b)
      BY <1>4, <1>8, <2>1
    <3>2. Bare(w, p) /\ p.metric = "none" /\ p.semantic = FALSE /\ p.taxonomy = FALSE
          /\ p.targets = {} /\ p.intent = "list" /\ p.entity = "event" /\ p.field = "none"
      BY <1>5, <1>2, <3>1, ListFields DEF Bare, AskedFrom
    <3>3. QED
      BY <1>3, <1>8, <2>1, <3>2, FieldFaithful
  <2>2. CASE w.metric # "start_date"
    <3>1. a = AsSpatial(w, b)
      BY <1>4, <1>8, <2>2
    <3>2. Bare(w, p) /\ p.metric = "none" /\ p.semantic = FALSE /\ p.taxonomy = FALSE
          /\ p.targets = {} /\ p.intent = "spatial_rank" /\ p.entity = w.entity
          /\ p.field = w.metric
      BY <1>5, <1>2, <3>1, SpatialFields DEF Bare, AskedFrom
    <3>3. QED
      BY <1>3, <1>8, <2>2, <3>2, FieldFaithful
  <2>3. QED
    BY <2>1, <2>2
<1>9. ASSUME Comparable(w) PROVE Faithful(w, p)
  <2>1. a = AsComparison(w, b)
    BY <1>4, <1>9
  <2>2. Bare(w, p) /\ p.metric = (IF Measures(w) THEN Operation(w) ELSE "none")
        /\ p.intent = w.intent /\ p.field = "none" /\ p.semantic = FALSE /\ p.taxonomy = FALSE
        /\ p.targets = w.targets
    BY <1>5, <1>2, <2>1, ComparisonFields DEF Bare, AskedFrom
  <2>3. QED
    BY <1>3, <1>9, <2>2, ComparesFaithful
<1>10. ASSUME CountsFit(w) PROVE Faithful(w, p)
  <2>1. a = AsCount(w, b)
    BY <1>4, <1>10
  <2>2. Bare(w, p) /\ p.metric = Operation(w) /\ p.intent = w.intent
        /\ p.semantic = FALSE /\ p.taxonomy = FALSE /\ p.targets = {}
    BY <1>5, <1>2, <2>1, CountFields DEF Bare, AskedFrom
  <2>3. QED
    BY <1>3, <1>10, <2>2, CountFaithful
<1>11. ASSUME InventoryFits(w) PROVE Faithful(w, p)
  <2>1. a = AsInventory(w, b)
    BY <1>4, <1>11
  <2>2. ListsLevel(w, p, OnlyOf(Grouping(w)))
    <3>1. InventoryFrom(w, b, a)
      BY <1>2, <2>1, InventoryFields
    <3>2. DOMAIN a = PlanFields /\ a.asks = Lasting(w.asks) /\ a.intent = w.intent
          /\ a.clarification = w.clarification
      BY <1>2, <3>1 DEF InventoryFrom
    <3>3. AskedFrom(w, a, p)
      BY <1>5, <3>2
    <3>4. QED
      BY <1>2, <3>1, <3>2, <3>3 DEF AskedFrom, InventoryFrom, ListsLevel
  <2>3. QED
    BY <1>3, <1>11, <2>2, InventoryFaithful
<1>12. ASSUME GroupsFit(w), ~ InventoryFits(w) PROVE Faithful(w, p)
  <2>1. a = AsGroups(w, b)
    BY <1>4, <1>12
  <2>2. /\ p.intent = (IF Grouping(w) # {} THEN "aggregate" ELSE w.intent)
        /\ p.entity = CountEntity(Operation(w)) /\ p.metric = Operation(w)
        /\ p.groupings = w.groups /\ p.level = OnlyOf(Grouping(w))
        /\ p.coverage = FALSE /\ p.zeroOnly = FALSE /\ p.field = "none"
        /\ p.ordering = w.ordering /\ p.limit = w.limit /\ p.semantic = FALSE
        /\ p.taxonomy = FALSE /\ p.targets = {} /\ p.asks = w.asks
        /\ p.clarification = w.clarification
    BY <1>5, <1>2, <2>1, GroupsFields DEF AskedFrom
  <2>3. QED
    BY <1>3, <1>12, <2>2, GroupsFaithful
<1>13. Faithful(w, p)
  BY <1>3, <1>6, <1>7, <1>8, <1>9, <1>10, <1>11, <1>12
<1>14. QED
  BY <1>13, Zenon DEF p

LEMMA AdministrativeFields ==
    ASSUME NEW w, NEW p, p = Administrative(w)
    PROVE  /\ p.intent = w.intent /\ p.metric = w.metric /\ p.asks = w.asks /\ p.coverage = TRUE
           /\ p.groupings = w.groups /\ p.level = OnlyOf(w.groups)
           /\ p.zeroOnly <=> w.threshold # "none"
           /\ p.ordering = (IF w.ordering = "none" THEN "desc" ELSE w.ordering)
           /\ p.limit = (IF w.limit = NoLimit THEN 20 ELSE w.limit)
           /\ p.entity = "event" /\ p.semantic = FALSE /\ p.targets = {} /\ p.field = "none"
           /\ p.clarification = "none"
BY EmptyFields DEF Administrative, PlanFields

LEMMA AdministrativeFaithful ==
    ASSUME NEW w, Consistent(w), FitsAdministrative(w)
    PROVE  Faithful(w, Administrative(w))
<1> DEFINE p == Administrative(w)
<1>1. /\ p.intent = w.intent /\ p.metric = w.metric /\ p.asks = w.asks /\ p.coverage = TRUE
      /\ p.groupings = w.groups /\ p.level = OnlyOf(w.groups)
      /\ p.zeroOnly <=> w.threshold # "none"
      /\ p.ordering = (IF w.ordering = "none" THEN "desc" ELSE w.ordering)
      /\ p.limit = (IF w.limit = NoLimit THEN 20 ELSE w.limit)
      /\ p.entity = "event" /\ p.semantic = FALSE /\ p.targets = {} /\ p.field = "none"
      /\ p.clarification = "none"
  BY AdministrativeFields
<1> HIDE DEF p
<1>2. /\ w.intent \in {"list", "count", "rank", "aggregate"} /\ ~ w.unsupported
      /\ w.clarification = "none" /\ w.threshold \in {"none", "zero"}
      /\ w.intent # "list" => w.metric = "event_count"
  BY DEF FitsAdministrative
<1>3. w.targets = {}
  BY <1>2 DEF Consistent, TargetsSpeak
<1>4. ASSUME w.groups \cap Levels = {} PROVE Faithful(w, p)
  <2>1. /\ w.entity = "event" /\ w.groups = {} /\ w.intent \in {"list", "count"}
        /\ w.threshold = "none"
    BY <1>4 DEF FitsAdministrative
  <2>2. /\ w.intent = "list" => w.metric = "none"
        /\ w.ordering = "none" /\ (w.intent = "count" => w.limit = NoLimit)
    BY <2>1 DEF Consistent, MetricSpeaks, OrderSpeaks
  <2>3. p.level = "none" /\ p.zeroOnly = FALSE
    BY <1>1, <2>1 DEF OnlyOf
  <2>4. Says(w, p)
    BY <1>1, <1>2, <1>3, <2>1, <2>3 DEF Says, LimitOf, Levels
  <2>5. ~ CellExecution(p) /\ BoundaryExecution(p)
    BY <1>1, <2>1 DEF CellExecution, BoundaryExecution
  <2>6. SubjectOf(w) = IF w.intent = "count" THEN "event_count" ELSE "event"
    BY <1>2, <2>1, <2>2 DEF SubjectOf, Operation, Distinct, Fields
  <2>7. AnswersBounded(w, p)
    BY <1>1, <2>1, <2>2, <2>3, <2>6 DEF AnswersBounded, Meets
  <2>8. QED
    BY <1>1, <2>4, <2>5, <2>7 DEF Faithful, Answers
<1>5. ASSUME w.groups \cap Levels # {} PROVE Faithful(w, p)
  <2>1. w.groups = {w.entity} /\ w.intent \in {"rank", "aggregate"} /\ w.entity \in Levels
    BY <1>5 DEF FitsAdministrative
  <2>2. OnlyOf(w.groups) = w.entity
    BY <2>1 DEF OnlyOf
  <2>3. ShowsAreas(w, p, w.entity)
    BY <1>1, <1>2, <1>3, <2>1, <2>2 DEF ShowsAreas, ListsLevel
  <2>4. QED
    BY <1>2, <2>1, <2>3, AreasFaithful
<1>6. Faithful(w, p)
  BY <1>4, <1>5
<1>7. QED
  BY <1>6, Zenon DEF p

LEMMA FewAnalytical == ASSUME NEW S, S \subseteq AnalyticalGroups PROVE IsFiniteSet(S)
<1>1. IsFiniteSet(Scalars)
  BY FewScalars
<1>2. IsFiniteSet(Scalars \cup {"area"})
  BY <1>1, FS_AddElement
<1>3. S \subseteq Scalars \cup {"area"}
  BY DEF AnalyticalGroups, Scalars
<1>4. QED
  BY <1>2, <1>3, FS_Subset

LEMMA AtMostOne ==
    ASSUME NEW S, \A c, d \in S : c = d
    PROVE  ~ Cardinality(S) > 1
<1>1. S = {} \/ \E c : S = {c}
  OBVIOUS
<1>2. Cardinality(S) = 0 \/ Cardinality(S) = 1
  BY <1>1, FS_EmptySet, FS_Singleton
<1>3. QED
  BY <1>2

LEMMA DirectFields ==
    ASSUME NEW w, NEW p, p = Direct(w)
    PROVE  /\ p.intent = w.intent /\ p.entity = w.entity
           /\ p.metric = (IF w.metric \in Counts THEN w.metric ELSE "none")
           /\ p.field = (IF w.metric \in Fields THEN w.metric ELSE "none")
           /\ p.groupings = w.groups /\ p.level = OnlyOf(w.groups) /\ p.ordering = w.ordering
           /\ p.limit = w.limit /\ p.asks = w.asks /\ p.semantic = w.semantic
           /\ p.taxonomy = w.taxonomy /\ p.targets = w.targets
           /\ p.clarification = w.clarification /\ p.coverage = FALSE /\ p.zeroOnly = FALSE
BY EmptyFields DEF Direct, PlanFields

LEMMA DirectFaithful ==
    ASSUME NEW w, SpeaksAnalytical(w), ~ w.unsupported, contract \in Analytical
    PROVE  Faithful(w, Direct(w))
<1> DEFINE p == Direct(w)
<1>1. /\ p.intent = w.intent /\ p.entity = w.entity
      /\ p.metric = (IF w.metric \in Counts THEN w.metric ELSE "none")
      /\ p.field = (IF w.metric \in Fields THEN w.metric ELSE "none")
      /\ p.groupings = w.groups /\ p.level = OnlyOf(w.groups) /\ p.ordering = w.ordering
      /\ p.limit = w.limit /\ p.asks = w.asks /\ p.semantic = w.semantic
      /\ p.taxonomy = w.taxonomy /\ p.targets = w.targets
      /\ p.clarification = w.clarification /\ p.coverage = FALSE /\ p.zeroOnly = FALSE
  BY DirectFields
<1> HIDE DEF p
<1>2. /\ AnalyticalOrderSpeaks(w) /\ AnalyticalMetricSpeaks(w) /\ AnalyticalMeaningSpeaks(w)
      /\ AnalyticalTargetsSpeak(w) /\ AnalyticalPlacesSpeak(w)
      /\ w.intent \in Records \cup {"count", "aggregate", "compare", "taxonomy", "spatial_rank"}
  BY DEF SpeaksAnalytical, AnalyticalIntents
<1>3. w.threshold = "none" /\ w.intent # "trend" /\ (w.intent # "compare" => w.targets = {})
  BY <1>2 DEF AnalyticalMetricSpeaks, AnalyticalTargetsSpeak, Records
<1>4. Says(w, p)
  BY <1>1, <1>3 DEF Says, LimitOf
<1>5. \/ w.groups = {} /\ w.intent # "aggregate" /\ p.level = "none"
      \/ /\ w.intent = "aggregate" /\ w.groups = {p.level}
         /\ p.level \in {"venue", "area", "organization", "category", "event", "genre", "event_type"}
  <2>1. CASE w.intent = "aggregate"
    <3>1. w.groups # {} /\ w.groups \subseteq AnalyticalGroups /\ Cardinality(w.groups) <= 1
      BY <1>2, <2>1 DEF AnalyticalMetricSpeaks
    <3>2. IsFiniteSet(w.groups)
      BY <3>1, FewAnalytical
    <3>3. Cardinality(w.groups) = 1
      BY <3>1, <3>2, FS_EmptySet, FS_CardinalityType
    <3>4. w.groups = {p.level} /\ p.level \in w.groups
      BY <1>1, <3>2, <3>3, OnlyOne
    <3>5. QED
      BY <2>1, <3>1, <3>4 DEF AnalyticalGroups
  <2>2. CASE w.intent # "aggregate"
    BY <1>1, <1>2, <2>2 DEF AnalyticalMetricSpeaks, OnlyOf
  <2>3. QED
    BY <2>1, <2>2
<1>6. ~ CellExecution(p)
  BY <1>1, <1>5 DEF CellExecution
<1>7. ~ BoundaryExecution(p)
  <2>1. \A c, d \in AreasOf(p.asks) : c = d
    BY <1>1, <1>2 DEF AnalyticalPlacesSpeak, AreasOf
  <2>2. ~ Cardinality(AreasOf(p.asks)) > 1
    BY <2>1, AtMostOne
  <2>3. p.level \notin Levels /\ "municipality" \notin p.groupings
    BY <1>1, <1>5 DEF Levels
  <2>4. QED
    BY <1>1, <2>2, <2>3 DEF BoundaryExecution
<1>8. ASSUME Supported(p) PROVE Answers(w, p)
  <2>1. p.semantic => p.entity = "event" /\ p.intent \in {"list", "search", "recommend"}
    BY <1>6, <1>8 DEF Supported
  <2>2. ASSUME p.semantic PROVE Meets(w, "event", {}, "similarity", "desc")
    <3>1. w.entity = "event" /\ w.intent \in Records /\ w.ordering = "none"
      BY <1>1, <1>2, <2>1, <2>2 DEF AnalyticalOrderSpeaks, Records
    <3>2. w.metric = "none" /\ w.groups = {}
      BY <1>2, <3>1 DEF AnalyticalMetricSpeaks, Records
    <3>3. QED
      BY <3>1, <3>2 DEF Meets, SubjectOf, Records
  <2>3. ASSUME ~ p.semantic PROVE AnswersPlain(w, p)
    <3>1. w.intent = "taxonomy" => Meets(w, "taxonomy", {}, "name", OrElse(p.ordering, "asc"))
      BY <1>1, <1>2 DEF AnalyticalMetricSpeaks, Meets, SubjectOf, SortOf, OrElse, Fields
    <3>2. w.intent = "spatial_rank" => Meets(w, p.entity, {}, p.field, p.ordering)
      BY <1>1, <1>2 DEF AnalyticalMetricSpeaks, Meets, SubjectOf, SortOf, Fields
    <3>3. w.metric \in Counts => SubjectOf(w) = w.metric \/ w.intent = "taxonomy"
      BY DEF SubjectOf, Counts, Fields, Operation, Distinct
    <3>4. w.metric \in Counts \cup {"none"} \/ w.intent = "spatial_rank"
      BY <1>2 DEF AnalyticalMetricSpeaks
    <3>5. w.intent = "count" => Meets(w, p.metric, {}, "none", "none") /\ w.limit = NoLimit
      <4>1. w.intent = "count" => w.metric \in Counts /\ w.groups = {} /\ w.ordering = "none"
                                   /\ w.limit = NoLimit
        BY <1>2, <3>4 DEF AnalyticalMetricSpeaks, AnalyticalOrderSpeaks, Records
      <4>2. QED
        BY <1>1, <3>3, <4>1 DEF Meets
    <3>6. w.intent = "aggregate" => Meets(w, p.metric, {p.level}, "value", OrElse(p.ordering, "desc"))
      <4>1. w.intent = "aggregate" => w.metric \in Counts /\ w.groups = {p.level}
        BY <1>2, <1>5, <3>4 DEF AnalyticalMetricSpeaks
      <4>2. w.intent = "aggregate" => SortOf(w) = "value"
        BY <4>1 DEF SortOf, Fields, Counts
      <4>3. QED
        BY <1>1, <3>3, <4>1, <4>2 DEF Meets, OrElse
    <3>7. w.intent = "list" => w.metric = "none" /\ w.groups = {}
             /\ SubjectOf(w) = w.entity /\ SortOf(w) = "start_date"
      BY <1>2 DEF AnalyticalMetricSpeaks, SubjectOf, SortOf, Records, Fields
    <3>8. w.intent = "list" /\ w.entity # "event" => w.ordering = "none"
      BY <1>2 DEF AnalyticalOrderSpeaks
    <3>9. w.intent = "compare" /\ p.metric # "none" =>
            Meets(w, p.metric, {}, "none", "none") /\ w.limit = NoLimit
      <4>1. w.intent = "compare" /\ p.metric # "none" =>
              w.metric \in Counts /\ w.groups = {} /\ w.ordering = "none" /\ w.limit = NoLimit
        BY <1>1, <1>2 DEF AnalyticalMetricSpeaks, AnalyticalOrderSpeaks, Records
      <4>2. QED
        BY <1>1, <3>3, <4>1 DEF Meets
    <3>10. QED
      BY <1>1, <1>3, <3>1, <3>2, <3>5, <3>6, <3>7, <3>8, <3>9 DEF AnswersPlain, Meets, OrElse
  <2>4. QED
    BY <1>6, <1>7, <2>2, <2>3 DEF Answers
<1>9. Faithful(w, p)
  BY <1>4, <1>8 DEF Faithful
<1>10. QED
  BY <1>9, Zenon DEF p

LEMMA TranslatedFaithful ==
    ASSUME Speaks(wire), Translates
    PROVE  Faithful(wire, Translated(wire))
<1>1. CASE AsksForContext(wire)
  <2> DEFINE p == [Empty EXCEPT !.clarification = "needs_context"]
  <2>1. p.clarification = "needs_context"
    BY EmptyFields DEF PlanFields
  <2>2. Faithful(wire, p)
    BY <2>1 DEF Faithful
  <2>3. QED
    BY <1>1, <2>2, Zenon DEF Translated
<1>2. CASE ~ AsksForContext(wire) /\ contract \in Analytical
  <2>1. SpeaksAnalytical(wire) /\ ~ wire.unsupported
    BY <1>2 DEF Speaks, Translates
  <2>2. Faithful(wire, Direct(wire))
    BY <1>2, <2>1, DirectFaithful
  <2>3. QED
    BY <1>2, <2>2, Zenon DEF Translated
<1>3. CASE ~ AsksForContext(wire) /\ contract \notin Analytical
  <2>1. Consistent(wire)
    BY <1>3 DEF Speaks, SpeaksModern, Consistent
  <2>2. CASE contract = "v8"
    <3>1. Faithful(wire, Administrative(wire))
      BY <1>3, <2>1, <2>2, AdministrativeFaithful DEF Translates
    <3>2. QED
      BY <1>3, <2>2, <3>1, Zenon DEF Translated
  <2>3. CASE contract # "v8"
    <3>1. Faithful(wire, Modern(wire))
      BY <1>3, <2>1, <2>3, ModernFaithful DEF Translates
    <3>2. QED
      BY <1>3, <2>3, <3>1, Zenon DEF Translated
  <2>4. QED
    BY <2>2, <2>3
<1>4. QED
  BY <1>1, <1>2, <1>3

\* The inductive invariant.
PlansInv ==
    /\ stage = "wired" => Speaks(wire)
    /\ stage = "planned" => Faithful(wire, plan)
    /\ NothingDropped

LEMMA ExecutesFaithfully ==
    ASSUME PlansInv, Executable
    PROVE  /\ Says(wire, plan) /\ Answers(wire, plan)
           /\ wire.clarification = "none" \/ (located /\ Is(wire.asks, "here"))
<1>1. plan.clarification \in {"none", "needs_location"}
  BY DEF Executable, LocationSatisfied
<1>2. Says(wire, plan) /\ Answers(wire, plan)
  BY <1>1 DEF PlansInv, Executable, Faithful
<1>3. QED
  BY <1>2 DEF Executable, LocationSatisfied, Says

LEMMA MeetsWords ==
    ASSUME NEW of, NEW by, NEW sort, NEW order, Meets(wire, of, by, sort, order)
    PROVE  /\ of = Subject
           /\ wire.metric \notin Fields => by = wire.groups
           /\ wire.ordering # "none" => sort = SortedBy /\ order = wire.ordering
<1>1. SubjectOf(wire) = Subject /\ SortOf(wire) = SortedBy
  BY Zenon DEF SubjectOf, SortOf, Subject, SortedBy
<1>2. QED
  BY <1>1 DEF Meets

LEMMA AnsweredInFull ==
    ASSUME PlansInv, Executable, NEW of, NEW by, NEW sort, NEW order, NEW limit, NEW applied,
           Answered(of, by, sort, order, limit, applied), Meets(wire, of, by, sort, order),
           limit = LimitOf(plan) \/ wire.limit = NoLimit, applied = wire.asks,
           plan.intent # "compare" \/ wire.targets = {}
    PROVE  NothingDropped'
<1>1. /\ Says(wire, plan)
      /\ wire.clarification = "none" \/ (located /\ Is(wire.asks, "here"))
  BY ExecutesFaithfully
<1>2. /\ wire.limit # NoLimit => limit = wire.limit
      /\ (plan.zeroOnly /\ plan.level \in Levels) = (wire.threshold = "zero")
      /\ wire.threshold # "some" /\ wire.targets = {}
      /\ ~ wire.unsupported /\ wire.intent # "trend"
  BY <1>1 DEF Says
<1>3. /\ wire' = wire /\ located' = located
      /\ result'.of = of /\ result'.by = by /\ result'.sort = sort /\ result'.order = order
      /\ result'.limit = limit /\ result'.applied = applied /\ result'.targets = {}
      /\ result'.zeroOnly = (plan.zeroOnly /\ plan.level \in Levels)
  BY DEF Answered
<1>4. /\ of = Subject
      /\ wire.metric \notin Fields => by = wire.groups
      /\ wire.ordering # "none" => sort = SortedBy /\ order = wire.ordering
  BY MeetsWords
<1>5. Subject' = Subject /\ SortedBy' = SortedBy
  BY <1>3 DEF Subject, SortedBy, Operation
<1>6. Is(wire'.asks, "here") <=> Is(wire.asks, "here")
  BY <1>3
<1>7. /\ result'.of = Subject'
      /\ wire'.metric \notin Fields => result'.by = wire'.groups
      /\ wire'.ordering # "none" => result'.sort = SortedBy' /\ result'.order = wire'.ordering
  BY <1>3, <1>4, <1>5
<1>8. /\ wire'.limit # NoLimit => result'.limit = wire'.limit
      /\ result'.applied = wire'.asks
      /\ result'.targets = wire'.targets
      /\ wire'.threshold # "some" /\ ~ wire'.unsupported /\ wire'.intent # "trend"
  BY <1>2, <1>3
<1>9. result'.zeroOnly = (wire'.threshold = "zero")
  BY <1>2, <1>3
<1>10. wire'.clarification = "none" \/ (located' /\ Is(wire'.asks, "here"))
  BY <1>1, <1>3, <1>6
<1>11. QED
  BY <1>7, <1>8, <1>9, <1>10 DEF NothingDropped

LEMMA Applies ==
    ASSUME NEW p
    PROVE  /\ Filters(p) \cup Polygons(p) = p.asks
           /\ ~ BoundaryExecution(p) => Filters(p) = p.asks
BY DEF Filters, Polygons

LEMMA PlansStep == ASSUME PlansInv, [PlansNext]_planVars PROVE PlansInv'
<1>1. ASSUME Plan PROVE PlansInv'
  <2>1. stage' = "wired" /\ contract' = contract /\ Speaks(wire')
    BY <1>1 DEF Plan
  <2>2. Speaks(wire)'
    BY <2>1, SpeaksLater
  <2>3. QED
    BY <2>1, <2>2 DEF PlansInv, NothingDropped
<1>2. ASSUME Normalise PROVE PlansInv'
  <2>1. CASE Translates
    <3>1. /\ stage' = "planned" /\ plan' = Translated(wire) /\ wire' = wire
          /\ Speaks(wire)
      BY <1>2, <2>1 DEF Normalise, PlansInv
    <3>2. Faithful(wire, Translated(wire))
      BY <2>1, <3>1, TranslatedFaithful
    <3>3. Faithful(wire', plan')
      BY <3>1, <3>2
    <3>4. QED
      BY <3>1, <3>3 DEF PlansInv, NothingDropped
  <2>2. CASE ~ Translates
    BY <1>2, <2>2 DEF Normalise, PlansInv, NothingDropped
  <2>3. QED
    BY <2>1, <2>2
<1>3. ASSUME Veto \/ AskBack \/ Refuse PROVE PlansInv'
  BY <1>3 DEF Veto, AskBack, Refuse, PlansInv, NothingDropped
<1>4. ASSUME Executes PROVE PlansInv'
  <2>1. Executable
    BY <1>4 DEF Executes, RankByMeaning, CountCells, WithinBoundaries, ListTaxonomy, RankInSpace,
                CountAll, Aggregate, Compare, ListEvents, ListPage, Cellular, Bounded, Plain
  <2>2. Says(wire, plan) /\ Answers(wire, plan)
    BY <2>1, ExecutesFaithfully
  <2>3. /\ plan.asks = wire.asks /\ Filters(plan) \cup Polygons(plan) = wire.asks
        /\ ~ BoundaryExecution(plan) => Filters(plan) = wire.asks
        /\ plan.intent # "compare" => wire.targets = {}
    BY <2>2, Applies DEF Says
  <2>4. stage' \in {"answered", "failed"}
    BY <1>4 DEF Executes, RankByMeaning, CountCells, WithinBoundaries, ListTaxonomy, RankInSpace,
                CountAll, Aggregate, Compare, ListEvents, ListPage, Answered
  <2>5. ASSUME RankByMeaning PROVE NothingDropped'
    <3>1. Meets(wire, "event", {}, "similarity", "desc") /\ ~ BoundaryExecution(plan)
      BY <2>2, <2>5 DEF Answers, RankByMeaning
    <3>2. plan.intent # "compare"
      BY <2>1, <2>5 DEF RankByMeaning, Executable, Supported, CellExecution
    <3>3. QED
      BY <2>1, <2>3, <2>5, <3>1, <3>2, AnsweredInFull DEF RankByMeaning
  <2>6. ASSUME CountCells PROVE NothingDropped'
    <3>1. Meets(wire, plan.metric, plan.groupings, "value", plan.ordering)
          /\ plan.intent # "compare"
      BY <2>2, <2>6 DEF Answers, CountCells, Cellular, CellExecution
    <3>2. QED
      BY <2>1, <2>3, <2>6, <3>1, AnsweredInFull DEF CountCells
  <2>7. ASSUME WithinBoundaries PROVE NothingDropped'
    <3>1. AnswersBounded(wire, plan)
      BY <2>2, <2>7 DEF Answers, WithinBoundaries, Bounded
    <3>2. plan.intent # "compare"
      BY <2>1, <2>7 DEF WithinBoundaries, Bounded, Executable, Supported, BoundaryFits
    <3>3. CASE plan.level # "none"
      <4>1. Answered("event_count", {plan.level}, "value", OrElse(plan.ordering, "desc"),
                     LimitOf(plan), Filters(plan) \cup Polygons(plan))
        BY <2>7, <3>3 DEF WithinBoundaries
      <4>2. QED
        BY <2>1, <2>3, <3>1, <3>2, <3>3, <4>1, AnsweredInFull DEF AnswersBounded
    <3>4. CASE plan.level = "none" /\ plan.intent = "count"
      <4>1. Answered("event_count", {}, "none", "none", NoLimit, Filters(plan) \cup Polygons(plan))
        BY <2>7, <3>4 DEF WithinBoundaries
      <4>2. QED
        BY <2>1, <2>3, <3>1, <3>2, <3>4, <4>1, AnsweredInFull DEF AnswersBounded
    <3>5. CASE plan.level = "none" /\ plan.intent # "count"
      <4>1. Answered("event", {}, "start_date", OrElse(plan.ordering, "desc"),
                     LimitOf(plan), Filters(plan) \cup Polygons(plan))
        BY <2>7, <3>5 DEF WithinBoundaries
      <4>2. QED
        BY <2>1, <2>3, <3>1, <3>2, <3>5, <4>1, AnsweredInFull DEF AnswersBounded
    <3>6. QED
      BY <3>3, <3>4, <3>5
  <2>8. Plain => AnswersPlain(wire, plan) /\ Filters(plan) = wire.asks
    BY <2>2, <2>3 DEF Plain, Answers
  <2>9. ASSUME ListTaxonomy PROVE NothingDropped'
    BY <2>1, <2>3, <2>8, <2>9, AnsweredInFull DEF ListTaxonomy, AnswersPlain
  <2>10. ASSUME RankInSpace PROVE NothingDropped'
    BY <2>1, <2>3, <2>8, <2>10, AnsweredInFull DEF RankInSpace, AnswersPlain
  <2>11. ASSUME CountAll PROVE NothingDropped'
    BY <2>1, <2>3, <2>8, <2>11, AnsweredInFull DEF CountAll, AnswersPlain
  <2>12. ASSUME Aggregate PROVE NothingDropped'
    BY <2>1, <2>3, <2>8, <2>12, AnsweredInFull DEF Aggregate, AnswersPlain
  <2>13. ASSUME ListEvents PROVE NothingDropped'
    BY <2>1, <2>3, <2>8, <2>13, AnsweredInFull DEF ListEvents, AnswersPlain
  <2>14. ASSUME ListPage PROVE NothingDropped'
    BY <2>1, <2>3, <2>8, <2>14, AnsweredInFull DEF ListPage, AnswersPlain
  <2>15. ASSUME Compare PROVE NothingDropped'
    <3>1. CASE plan.metric = "none"
      BY <2>15, <3>1 DEF Compare, NothingDropped
    <3>2. CASE plan.metric # "none"
      <4>1. /\ Meets(wire, plan.metric, {}, "none", "none") /\ wire.limit = NoLimit
            /\ wire.threshold = "none"
        BY <2>8, <2>15, <3>2 DEF Compare, AnswersPlain
      <4>2. \A t \in plan.targets, c \in plan.asks : ~ Replaces(t, c)
        BY <2>1, <2>15 DEF Compare, Plain, Executable, Supported, TargetsFit
      <4>3. {c \in Filters(plan) : \A t \in plan.targets : ~ Replaces(t, c)} = wire.asks
        BY <2>3, <2>8, <2>15, <4>2 DEF Compare
      <4>4. /\ wire' = wire /\ located' = located
            /\ result'.of = plan.metric /\ result'.by = {} /\ result'.sort = "none"
            /\ result'.order = "none" /\ result'.limit = NoLimit
            /\ result'.applied = wire.asks /\ result'.targets = plan.targets
            /\ result'.zeroOnly = FALSE
        BY <2>15, <3>2, <4>3 DEF Compare
      <4>5. /\ plan.metric = Subject
            /\ wire.metric \notin Fields => {} = wire.groups
            /\ wire.ordering = "none"
        BY <4>1, MeetsWords
      <4>6. Subject' = Subject /\ SortedBy' = SortedBy
        BY <4>4 DEF Subject, SortedBy, Operation
      <4>7. wire.clarification = "none" \/ (located /\ Is(wire.asks, "here"))
        BY <2>1, ExecutesFaithfully
      <4>8. wire'.clarification = "none" \/ (located' /\ Is(wire'.asks, "here"))
        BY <4>4, <4>7
      <4>9. ~ wire.unsupported /\ wire.intent # "trend" /\ plan.targets = wire.targets
        BY <2>2 DEF Says
      <4>10. result'.zeroOnly = (wire'.threshold = "zero")
        BY <4>1, <4>4
      <4>11. QED
        BY <4>1, <4>4, <4>5, <4>6, <4>8, <4>9, <4>10 DEF NothingDropped
    <3>3. QED
      BY <3>1, <3>2
  <2>16. NothingDropped'
    BY <1>4, <2>5, <2>6, <2>7, <2>9, <2>10, <2>11, <2>12, <2>13, <2>14, <2>15 DEF Executes
  <2>17. QED
    BY <2>4, <2>16 DEF PlansInv
<1>5. ASSUME UNCHANGED planVars PROVE PlansInv'
  <2>1. stage' = stage /\ wire' = wire /\ plan' = plan /\ contract' = contract
        /\ located' = located /\ result' = result
    BY <1>5 DEF planVars
  <2>2. Speaks(wire) => Speaks(wire')
    BY <2>1
  <2>3. stage = "wired" => Speaks(wire)'
    BY <2>1, <2>2, SpeaksLater DEF PlansInv
  <2>4. Faithful(wire, plan) => Faithful(wire', plan')
    BY <2>1
  <2>5. NothingDropped'
    BY <2>1 DEF PlansInv, NothingDropped, Subject, SortedBy, Operation, Is
  <2>6. QED
    BY <2>1, <2>3, <2>4, <2>5 DEF PlansInv
<1>6. QED
  BY <1>1, <1>2, <1>3, <1>4, <1>5 DEF PlansNext

\* Whatever the contract, the vocabulary and the planner's answer, an executed plan shows
\* what was asked for, along every group, in the order, up to the limit and under every
\* constraint and threshold, or it is not executed (research/normalize*.py,
\* research/capabilities.py and services/research_plan_execution.py).
THEOREM NothingIsDropped == PlansSpec => []NothingDropped
<1>1. PlansInit => PlansInv
  BY DEF PlansInit, PlansInv, NothingDropped
<1>2. PlansInv /\ [PlansNext]_planVars => PlansInv'
  BY PlansStep
<1>3. PlansInv => NothingDropped
  BY DEF PlansInv
<1>4. QED
  BY <1>1, <1>2, <1>3, PTL DEF PlansSpec
===============================================================================
