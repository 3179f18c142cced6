---------------------------- MODULE SemanticSearch ----------------------------
(***************************************************************************)
(* A research request ranked by meaning (services/semantic_search.py and   *)
(* the semantic branch of services/research_plan_execution.py). The events *)
(* it may show are read in one snapshot; no snapshot is held while the     *)
(* query is embedded and the vector index is asked; what was found is read *)
(* again in a second snapshot, which also chooses the occurrence shown.    *)
(* The source changes between the two, and the index lags behind both: its *)
(* answer is any set of evidence, for texts and places long gone.          *)
(***************************************************************************)
EXTENDS Integers, FiniteSets

CONSTANTS
    Events,
    Occurrences,  \* numbers: ties between occurrences of one day go to the smaller
    Venues,
    AnyVenue,     \* the request names no venue, nor anything else about a date
    NoOccurrence, \* an event without any date
    HappensFor,   \* the event of each occurrence
    Scores,       \* similarities in hundredths
    MaxEligible,  \* 10,000 in the code
    PageSize,
    Floor,        \* least score of a result, 10 hundredths in the code
    MaxMoves      \* bound: changes of the source during a request

\* No such value is the name of a venue or of a date; a similarity may be negative.
ASSUME SearchAssumption ==
    /\ AnyVenue \notin Venues
    /\ Occurrences \subseteq Nat /\ NoOccurrence \notin Occurrences
    /\ Scores \subseteq Int /\ Floor \in Nat
ASSUME SearchBounds == {MaxEligible, PageSize} \subseteq Nat \ {0} /\ MaxMoves \in Nat

VARIABLES
    fitting,     \* public events that meet what the request asks of an event
    occurrence,  \* the dates in the source: venue, day, and whether they are public
    moves,
    wanted,      \* the venue the request asks for
    search,      \* how far the request is, and how it ended
    eligible,    \* the events of its first snapshot
    hits,        \* what the index found
    answer       \* the results shown

searchVars == <<fitting, occurrence, moves, wanted, search, eligible, hits, answer>>

Written == [venue : Venues, day : {1, 2}, public : BOOLEAN]

\* A request starts with every occurrence written and public, on day 1.
Settled == {w \in Written : w.public /\ w.day = 1}
SearchInit ==
    /\ fitting \in SUBSET Events
    /\ occurrence \in [Occurrences -> Settled]
    /\ moves = 0
    /\ wanted \in Venues \cup {AnyVenue}
    /\ search = "asked"
    /\ eligible = {} /\ hits = {} /\ answer = {}

----------------------------------------------------------------------------
\* The source: an event is edited, an occurrence written anew, moved or deleted.
Move ==
    /\ search \in {"eligible", "ranked"} /\ moves < MaxMoves
    /\ moves' = moves + 1
    /\ \/ /\ \E e \in Events : fitting' = (fitting \ {e}) \cup ({e} \ fitting)
          /\ UNCHANGED occurrence
       \/ /\ \E o \in Occurrences :
                \/ \E w \in Written : occurrence' = [p \in DOMAIN occurrence \cup {o} |->
                                                        IF p = o THEN w ELSE occurrence[p]]
                \/ occurrence' = [p \in DOMAIN occurrence \ {o} |-> occurrence[p]]
          /\ UNCHANGED fitting
    /\ UNCHANGED <<wanted, search, eligible, hits, answer>>

\* The one definition of what a request may show, used by both snapshots: an
\* event through its public dates that meet the request, or without any date
\* when the request asks nothing of one.
DatesOf(e) == {o \in DOMAIN occurrence : HappensFor[o] = e}
FilteredDates(e) ==
    {o \in DatesOf(e) : occurrence[o].public /\ wanted \in {AnyVenue, occurrence[o].venue}}
MatchedEvents ==
    {e \in fitting : FilteredDates(e) # {} \/ (DatesOf(e) = {} /\ wanted = AnyVenue)}

\* The date an event is shown with: the first of those that match.
ShownDate(e) ==
    IF FilteredDates(e) = {} THEN NoOccurrence
    ELSE CHOOSE o \in FilteredDates(e) : \A p \in FilteredDates(e) :
            \/ occurrence[o].day < occurrence[p].day
            \/ occurrence[o].day = occurrence[p].day /\ o <= p

\* eligible_event_ids: all of them or a refusal, never a sample. Nothing is
\* searched for no event.
ReadEligible ==
    /\ search = "asked"
    /\ eligible' = MatchedEvents
    /\ search' = IF Cardinality(MatchedEvents) > MaxEligible THEN "too broad"
                 ELSE IF MatchedEvents = {} THEN "answered" ELSE "eligible"
    /\ UNCHANGED <<fitting, occurrence, moves, wanted, hits, answer>>

----------------------------------------------------------------------------
\* A point of the index: the event of a text, where the text holds (for the
\* event, at a venue, or for one occurrence at its venue) and its similarity.
Contexts ==
    {[scope |-> "event"]}
      \cup [scope : {"venue"}, venue : Venues]
      \cup [scope : {"occurrence"}, venue : Venues, occurrence : Occurrences]
Evidence == [event : Events, context : Contexts, score : Scores]

\* semantic_hits keeps, of what the index returns, what is about eligible events.
SemanticHits(found) == {h \in found : h.event \in eligible}

\* Qdrant is asked for the eligible events only; the answer is checked again.
\* Two texts are enough to compete, within an event or between two (50 in the
\* code).
Found == {{}} \cup {{h, g} : h \in Evidence, g \in Evidence}
Rank ==
    /\ search = "eligible"
    /\ hits' \in {SemanticHits(found) : found \in Found}
    /\ search' = "ranked"
    /\ UNCHANGED <<fitting, occurrence, moves, wanted, eligible, answer>>

----------------------------------------------------------------------------
\* Mutant: a text counts wherever it holds.
HoldsAnywhere(h, o) == TRUE
\* EvidenceContext.matches: an occurrence's text holds at its venue only.
Holds(h, o) ==
    LET venue == IF o = NoOccurrence THEN AnyVenue ELSE occurrence[o].venue IN
    CASE h.context.scope = "event" -> TRUE
      [] h.context.scope = "venue" -> h.context.venue = venue
      [] h.context.scope = "occurrence" -> h.context.occurrence = o /\ h.context.venue = venue

Best(scores) == CHOOSE s \in scores : \A t \in scores : t <= s

\* contextualize_event_hit: an event keeps the texts that hold for the date it
\* is shown with, and counts by the best of them.
Rehydrated ==
    LET found == {h.event : h \in hits} \cap MatchedEvents
        kept(e) == {h \in hits : h.event = e /\ Holds(h, ShownDate(e))}
    IN  {[event |-> e, date |-> ShownDate(e), score |-> Best({h.score : h \in kept(e)})] :
            e \in {f \in found : kept(f) # {}}}

\* The scores the threshold is taken from.
Reference(items) == {i.score : i \in items}
Relevant(items) ==
    {i \in items : i.score >= Floor /\ 10 * i.score >= 4 * Best(Reference(items))}

\* One page of the best; equal scores go by the event's identifier.
Pages(items) ==
    {page \in SUBSET items :
        /\ Cardinality(page) = IF Cardinality(items) < PageSize THEN Cardinality(items) ELSE PageSize
        /\ \A i \in page, j \in items \ page : i.score >= j.score}

Rehydrate ==
    /\ search = "ranked"
    /\ answer' \in Pages(Relevant(Rehydrated))
    /\ search' = "answered"
    /\ UNCHANGED <<fitting, occurrence, moves, wanted, eligible, hits>>

\* The deadline of the request, a provider that fails and evidence that is not
\* what it claims to be end in one refusal; none of it is shown.
Unavailable ==
    /\ search \in {"eligible", "ranked"}
    /\ search' = "unavailable"
    /\ UNCHANGED <<fitting, occurrence, moves, wanted, eligible, hits, answer>>

SearchNext == Move \/ ReadEligible \/ Rank \/ Rehydrate \/ Unavailable
SearchSpec == SearchInit /\ [][SearchNext]_searchVars

----------------------------------------------------------------------------
\* However old the index is and whatever changed since the first snapshot, a
\* result was eligible in the first snapshot and is in the second, is shown with
\* a date of its own that meets the request, and its score comes from a text
\* that holds for the event, for the venue of that date or for that very date.
EvidenceFits ==
    \A i \in answer :
        /\ i.event \in eligible \cap fitting
        /\ IF i.date = NoOccurrence
           THEN wanted = AnyVenue /\ \A o \in DOMAIN occurrence : HappensFor[o] # i.event
           ELSE /\ i.date \in DOMAIN occurrence /\ HappensFor[i.date] = i.event
                /\ occurrence[i.date].public
                /\ wanted # AnyVenue => occurrence[i.date].venue = wanted
        /\ \E h \in hits :
              /\ h.event = i.event /\ h.score = i.score
              /\ \/ h.context = [scope |-> "event"]
                 \/ /\ i.date # NoOccurrence
                    /\ h.context \in {[scope |-> "venue", venue |-> occurrence[i.date].venue],
                                      [scope |-> "occurrence", venue |-> occurrence[i.date].venue,
                                       occurrence |-> i.date]}

\* An event with a text that holds and reaches the floor is left out of an
\* answer only for results that are better: for a full page of them, or for one
\* that is two and a half times as good. Texts that no longer hold displace none.
BestShown ==
    search = "answered" =>
        \A h \in hits :
            \/ h.event \notin MatchedEvents \/ ~ Holds(h, ShownDate(h.event)) \/ h.score < Floor
            \/ \E i \in answer : i.event = h.event /\ i.score >= h.score
            \/ \E i \in answer : 2 * i.score > 5 * h.score
            \/ Cardinality(answer) = PageSize /\ \A i \in answer : i.score >= h.score

\* What an answer shows holds when it is shown, and what holds is left out only
\* for better results.
AnswersHold == EvidenceFits /\ BestShown
=============================================================================
