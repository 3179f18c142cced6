----------------------------- MODULE PlanResolution -----------------------------
(***************************************************************************)
(* From the words of a plan to what its query filters by (backend/app/     *)
(* repositories/research_resolution.py with its geocoder, its boundary     *)
(* inventory and research/administrative_resolver.py): first the place,    *)
(* then the areas in one snapshot of the stored ones, or by their          *)
(* boundaries, then the other words in order in another snapshot, later    *)
(* ones under what earlier ones were resolved to. A word that means        *)
(* several things, or nothing, ends in a question to the user, and so does *)
(* a plan whose words contradict each other. What a word matches is chosen *)
(* when it is looked up; only whether one candidate is left matters, not   *)
(* the five that are offered.                                              *)
(***************************************************************************)
EXTENDS Naturals, Sequences, FiniteSets, SequencesExt, Functions

CONSTANTS
    EventTypes,
    Genres,
    GenreOf,      \* the event type of each genre
    Sites,        \* venues; organizations are looked up like them
    SitesWithin,  \* those inside the areas
    Regions,      \* administrative areas
    AreaLevels,   \* country, state, district, municipality or region
    AnyLevel,     \* no level was asked for
    Gone,         \* an area that is not stored
    MaxWords,     \* bound: words of a plan
    MaxImports    \* bound: imports of areas during a request

ASSUME ResolutionAssumption ==
    /\ GenreOf \in [Genres -> EventTypes] /\ EventTypes \cap Genres = {}
    /\ SitesWithin \subseteq Sites /\ {AnyLevel, Gone} \cap AreaLevels = {}
    /\ {MaxWords, MaxImports} \subseteq Nat

VARIABLES
    setup,      \* what is configured: the geocoder, the taxonomy's thresholds
    question,   \* the plan: what it says of places, areas and everything else
    stored,     \* the level of each stored area
    moments,    \* what was stored since the request began
    resolving   \* how far it is, what its words were resolved to, and how it ended

resolutionVars == <<setup, question, stored, moments, resolving>>

\* The order in which words are resolved: each filter, then the targets of a comparison.
Slots == <<"venue", "event_type", "event_type", "genre", "genre", "category", "target", "target">>
OfField(kind) == {i \in DOMAIN Slots : Slots[i] = kind}
AskedAreas(q) == q.areas \o q.targetAreas
WordCount(q) ==
    Cardinality(q.slots) + Len(AskedAreas(q)) + (IF q.place = "none" THEN 0 ELSE 1)

\* Plans the executor supports: several areas only by their boundaries, and those
\* with no place; no comparison by boundaries; no target of the kind of a filter.
SupportedPlan(q) ==
    /\ WordCount(q) <= MaxWords
    /\ Len(q.areas) > 1 \/ q.inventory => q.boundary
    /\ q.boundary => q.place = "none" /\ q.targetAreas = <<>> /\ q.slots \cap OfField("target") = {}
    /\ q.targetAreas # <<>> => q.areas = <<>> /\ q.slots \cap OfField("target") = {}
    /\ q.slots \cap OfField("target") = {} \/ q.slots \cap OfField("venue") = {}
    /\ Cardinality(q.slots \cap OfField("target")) # 1
    /\ q.place # "near" => q.context = "none"
    /\ q.areas = <<>> => q.relation = "inside"

PlanWords ==
    [place : {"none", "named", "near"}, context : {"none", "point", "labelled", "named"},
     areas : UNION {[1..n -> AreaLevels \cup {AnyLevel}] : n \in 0..2},
     targetAreas : {<<>>, <<AnyLevel, AnyLevel>>}, relation : {"inside", "outside"},
     boundary : BOOLEAN, inventory : BOOLEAN,
     slots : UNION {kSubset(n, DOMAIN Slots) : n \in 0..MaxWords}]

Begun(areas) ==
    [at |-> "place", placed |-> "nowhere", seen |-> areas, areas |-> <<>>,
     inventory |-> "none", fields |-> {}]
OneLevel == [r \in Regions |-> CHOOSE l \in AreaLevels : TRUE]
\* What no word of the plan looks at stands in one way only.
ResolutionInit ==
    /\ question \in {q \in PlanWords : SupportedPlan(q)}
    /\ setup \in SUBSET {"geocoder", "taxonomy"}
    /\ question.place = "none" /\ ~question.boundary => "geocoder" \in setup
    /\ question.slots \cap (OfField("event_type") \cup OfField("genre")) = {} => "taxonomy" \in setup
    /\ stored \in [Regions -> AreaLevels]
    /\ question.boundary \/ AskedAreas(question) = <<>> => stored = OneLevel
    /\ moments = {stored} /\ resolving = Begun(stored)

AreasLeft == Len(resolving.areas) < Len(AskedAreas(question))
Concluded == {"executed", "clarified", "refused", "failed"}
Step(at) == resolving' = [resolving EXCEPT !.at = at] /\ UNCHANGED <<setup, question, stored, moments>>
Advance(next) == resolving' = next /\ UNCHANGED <<setup, question, stored, moments>>

\* An import commits between the reads of two areas; no other read looks at them.
Import ==
    /\ Cardinality(moments) <= MaxImports
    /\ resolving.at = "areas" /\ ~question.boundary /\ resolving.areas # <<>> /\ AreasLeft
    /\ stored' \in [Regions -> AreaLevels \cup {Gone}]
    /\ moments' = moments \cup {stored'}
    /\ UNCHANGED <<setup, question, resolving>>
\* A read fails, the geocoder does not answer, or the vocabulary is too large.
ReadFails == resolving.at \notin Concluded /\ Step("failed")

----------------------------------------------------------------------------
\* A point of the user is taken as it is; a name is looked up, and must be one place
\* that an address, a box or a point can be made of.
PlacedBy(by) == Advance([resolving EXCEPT !.at = "areas", !.placed = by])
ResolvePlace ==
    /\ resolving.at = "place"
    /\ IF question.place = "none" THEN Step("areas")
       ELSE IF question.place = "near" /\ question.context = "none" THEN Step("clarified")
       ELSE IF "geocoder" \notin setup THEN Step("failed")
       ELSE IF question.context \in {"point", "labelled"} THEN PlacedBy("radius")
       ELSE \E found \in 0..2, by \in {"address", "bbox", "radius", "nowhere"} :
               IF found = 1 /\ by # "nowhere" THEN PlacedBy(by) ELSE Step("clarified")

\* The candidates of the best rank among those that can be meant.
Ranks == {"equal", "partial", "none"}
BestRanked(rank, eligible) ==
    LET equal == {x \in eligible : rank[x] = "equal"}
    IN IF equal # {} THEN equal ELSE {x \in eligible : rank[x] = "partial"}

NextAsked == AskedAreas(question)[Len(resolving.areas) + 1]
Identified(r, level, seen) ==
    Advance([resolving EXCEPT !.areas = Append(@, [region |-> r, level |-> level]), !.seen = seen])

\* Stored areas are read in one snapshot: those of another level are left out before
\* they are ranked, and the level of the one that is left is read again.
\* Mutant: every statement sees what is committed by then.
SeenNow == stored
Seen == IF resolving.areas = <<>> THEN stored ELSE resolving.seen
StoredArea ==
    /\ resolving.at = "areas" /\ ~question.boundary /\ AreasLeft
    /\ \E rank \in [Regions -> Ranks] :
          LET seen == Seen
              eligible == {r \in Regions : seen[r] # Gone /\ NextAsked \in {AnyLevel, seen[r]}}
              choices == BestRanked(rank, eligible)
          IN IF Cardinality(choices) = 1
             THEN \E r \in choices : Identified(r, seen[r], seen)
             ELSE Step("clarified")

\* resolve_administrative_area: the geocoder's own levels decide what can be meant,
\* and a lookup must confirm the level and bring the boundary.
BoundaryArea ==
    /\ resolving.at = "areas" /\ question.boundary /\ AreasLeft
    /\ IF "geocoder" \notin setup THEN Step("failed")
       ELSE \E rank \in [Regions -> Ranks], level \in [Regions -> AreaLevels \cup {AnyLevel}],
               confirmed \in BOOLEAN :
          LET eligible == {r \in Regions : level[r] # AnyLevel /\ NextAsked \in {AnyLevel, level[r]}}
              choices == BestRanked(rank, eligible)
          IN IF Cardinality(choices) = 1 /\ confirmed
             THEN \E r \in choices : Identified(r, level[r], resolving.seen)
             ELSE Step("refused")

\* load_inventory: a complete inventory for the areas, else for their countries.
FinishAreas ==
    /\ resolving.at = "areas" /\ ~AreasLeft
    /\ IF ~question.inventory THEN Step("slots")
       ELSE \E scoped, countrywide \in 0..2 :
          LET found == IF scoped > 0 THEN scoped ELSE countrywide
          IN IF found # 1 THEN Step("refused")
             ELSE Advance([resolving EXCEPT !.at = "slots",
                             !.inventory = IF scoped > 0 THEN "areas" ELSE "countries"])

----------------------------------------------------------------------------
Field(name) == {f \in resolving.fields : f.field = name}
TypesSaid == {f.target : f \in Field("event_type")}
TypeOfTarget(t) == IF t \in Genres THEN GenreOf[t] ELSE t
SlotsLeft == question.slots \ {f.slot : f \in resolving.fields}
SlotIs(kinds) ==
    /\ resolving.at = "slots" /\ SlotsLeft # {}
    /\ Slots[Min(SlotsLeft)] \in kinds
\* select: only one candidate is taken.
Select(field, choices, fallback) ==
    IF Cardinality(choices) # 1 THEN Step("clarified")
    ELSE \E c \in choices :
        Advance([resolving EXCEPT !.fields = @ \cup
                   {[slot |-> Min(SlotsLeft), field |-> field, target |-> c, fallback |-> fallback]}])

\* Venues of an area that must contain them are looked up in it only.
AreaOfVenues ==
    ~question.boundary /\ question.areas # <<>> /\ question.relation = "inside"
ResolveVenue ==
    /\ SlotIs({"venue", "target"})
    /\ \E rank \in [Sites -> Ranks] :
          Select(Slots[Min(SlotsLeft)],
                 BestRanked(rank, IF AreaOfVenues THEN SitesWithin ELSE Sites), FALSE)
ResolveCategory ==
    /\ SlotIs({"category"})
    /\ \E choices \in SUBSET Sites : Select("category", choices, FALSE)

\* candidates: a label of the kind, then, with thresholds, of the other kind, then
\* what is near. Types that were said narrow everything but the labels of types.
Kinds(kind) == IF kind = "genre" THEN Genres ELSE EventTypes
Under(types) == {t \in EventTypes \cup Genres : types = {} \/ TypeOfTarget(t) \in types}
Labelled(match, set) == {t \in set : match[t] = "equal"}
Near(match, set) == {t \in set : match[t] = "partial"}
Candidates(kind, match, types) ==
    LET own == Labelled(match, IF kind = "genre" THEN Genres \cap Under(types) ELSE EventTypes)
        other == Labelled(match, Under(types) \ Kinds(kind))
    IN IF own # {} THEN own
       ELSE IF "taxonomy" \notin setup THEN {}
       ELSE IF other # {} THEN other
       ELSE Near(match, Under(types))
\* The one entry found goes to the filter of its own kind; several, or none, to a question.
FieldOf(kind, choices) ==
    IF Cardinality(choices) # 1 THEN kind
    ELSE IF choices \subseteq Genres THEN "genre" ELSE "event_type"
ResolveTaxonomy ==
    /\ SlotIs({"event_type", "genre"})
    /\ \E match \in [EventTypes \cup Genres -> Ranks] :
          LET kind == Slots[Min(SlotsLeft)]
              scoped == Candidates(kind, match, IF kind = "genre" THEN TypesSaid ELSE {})
              fallback == kind = "genre" /\ TypesSaid # {} /\ scoped = {}
              choices == IF fallback THEN Candidates(kind, match, {}) ELSE scoped
          IN Select(FieldOf(kind, choices), choices, fallback)

Contradicting == \E f \in Field("genre") : TypesSaid # {} /\ GenreOf[f.target] \notin TypesSaid
Targets == {f.target : f \in Field("target")} \cup
           {resolving.areas[i].region : i \in Len(question.areas) + 1..Len(resolving.areas)}
TargetsAsked == Cardinality(Field("target")) + Len(question.targetAreas)
Conclude ==
    /\ resolving.at = "slots" /\ SlotsLeft = {}
    /\ Step(IF Contradicting \/ Cardinality(Targets) # TargetsAsked THEN "clarified" ELSE "executed")

ResolutionNext ==
    \/ Import \/ ReadFails \/ ResolvePlace
    \/ StoredArea \/ BoundaryArea \/ FinishAreas
    \/ ResolveVenue \/ ResolveCategory \/ ResolveTaxonomy \/ Conclude
ResolutionSpec == ResolutionInit /\ [][ResolutionNext]_resolutionVars

----------------------------------------------------------------------------
\* research_resolution.py:467 ff., :408 ff.: whatever the order of the words and of
\* the fallbacks they took, and whatever is imported meanwhile, a plan is executed
\* only with all its words: no genre outside the types that were said, all areas as
\* they were at one moment and of the levels asked for, a venue inside the area it
\* was said to be in, and two different things to compare.
GenresFit == \A f \in Field("genre") : TypesSaid = {} \/ GenreOf[f.target] \in TypesSaid
AreasOfOneMoment ==
    /\ \E m \in moments : \A a \in Range(resolving.areas) : m[a.region] = a.level
    /\ \A i \in DOMAIN resolving.areas : AskedAreas(question)[i] \in {AnyLevel, resolving.areas[i].level}
VenuesFit == AreaOfVenues => \A f \in Field("venue") : f.target \in SitesWithin
MeansWhatWasSaid ==
    resolving.at = "executed" =>
        /\ SlotsLeft = {} /\ GenresFit /\ VenuesFit
        /\ Len(resolving.areas) = Len(AskedAreas(question))
        /\ question.boundary \/ AreasOfOneMoment
        /\ question.place = "none" <=> resolving.placed = "nowhere"
        /\ Cardinality(Targets) = TargetsAsked

\* research_resolution.py:450: a global fallback "diagnoses a contradictory parent;
\* the conflict check below prevents it from reaching execution".
FallbackNeverExecutes ==
    resolving.at = "executed" => \A f \in resolving.fields : ~f.fallback
=============================================================================
