----------------------------- MODULE ResearchPlans -----------------------------
(***************************************************************************)
(* From a planner's answer to the query that is run for it: the language a *)
(* plan must speak under the contract in use (research/wire, and for the   *)
(* older contracts schemas/research_planner.py, research_analytics.py and  *)
(* research_geography.py), its translation into the plan of the backend    *)
(* (research/normalize*.py), the gate that asks whether such a plan can be *)
(* executed (capabilities.py), and the choice of one of the query          *)
(* families, each of which consumes only some of a plan's fields           *)
(* (services/research_plan_execution.py). A constraint is a member of What, *)
(* When or Where; names resolve to what they name. The criterion of a      *)
(* spatial rank, a field of its own in the older contracts, is a metric.   *)
(***************************************************************************)
EXTENDS Naturals, FiniteSets

CONSTANTS
    Contracts,   \* between planner and backend; one is configured
    Entities,    \* subsets of the contracts' vocabularies
    Metrics,
    Dimensions,
    Names,       \* of venues and of areas
    NoLimit

Counts == {"event_count", "occurrence_count", "venue_count", "organization_count"}
Levels == {"country", "region", "municipality"}
Scalars == {"event", "venue", "organization", "category", "genre", "event_type"}
Cells == Scalars \cup {"month", "weekday", "municipality"}

Analytical == {"v3", "v5", "v6"}

ASSUME PlanVocabulary ==
    /\ Contracts \subseteq Analytical \cup {"v8", "v9", "v10", "v11", "v12"}
    /\ Entities \subseteq {"event", "occurrence", "venue", "organization", "municipality", "region",
                           "country"}
    /\ Metrics \subseteq Counts \cup {"distinct_occurrence", "distinct_venue", "start_date",
                                      "longitude", "average"}
    /\ Dimensions \subseteq Cells \cup Levels \cup {"area"}

VARIABLES
    contract, \* the configured contract
    wire,     \* the planner's answer
    located,  \* the request carries coordinates
    plan,     \* the backend's plan for it
    stage,    \* how far the request is, and how it ended
    result    \* what the executed query showed

planVars == <<contract, wire, located, plan, stage, result>>

\* A value metric ranks records by a field; a distinct count counts what it names.
Distinct == [distinct_occurrence |-> "occurrence_count", distinct_venue |-> "venue_count"]
Fields == {"start_date", "longitude"}
Measured == [event_count |-> "event", occurrence_count |-> "occurrence", venue_count |-> "venue",
             organization_count |-> "organization"]
CountEntity(m) == CASE m = "venue_count" -> "venue" [] m = "organization_count" -> "organization"
    [] OTHER -> "event"

What == [is : {"venue"}, name : Names]
        \cup [is : {"genre", "clock", "status"}, name : {"any"}]
When == [is : {"period", "weekday", "weekdays", "months", "after"}, name : {"any"}]
Where == [is : {"area"}, name : Names] \cup [is : {"place", "here", "radius"}, name : {"any"}]
AreasOf(cs) == {c \in cs : c.is = "area"}
Is(cs, kind) == \E c \in cs : c.is = kind

----------------------------------------------------------------------------
\* The language of a plan: which of its parts may speak together.
Blocked(w) == w.clarification # "none" \/ w.unsupported
RankSpeaks(w) ==
    w.intent = "rank" =>
        /\ w.ordering # "none" /\ w.limit # NoLimit
        /\ w.metric # "none" \/ w.unsupported \/ w.clarification = "needs_criteria"
        /\ Cardinality(w.groups) = 1
             => w.groups \cap ({"event", "venue", "organization", "municipality", "region"}
                                \cup IF contract = "v8" THEN {"country"} ELSE {}) \subseteq {w.entity}
CountSpeaks(w) ==
    w.intent = "count" =>
        /\ w.metric \in Counts \cup DOMAIN Distinct
        /\ w.metric \in Counts => w.entity = Measured[w.metric]
MetricSpeaks(w) ==
    /\ w.intent = "aggregate" /\ ~Blocked(w)
         => w.metric # "none" /\ (w.metric \in Counts => w.groups # {})
    /\ w.intent \in {"list", "search", "taxonomy"} => w.metric = "none"
    /\ w.groups # {} => w.intent \in {"aggregate", "rank", "compare", "trend"}
    /\ ~("event" \in w.groups /\ w.metric = "event_count")
    /\ w.threshold # "none" => w.metric # "none"
OrderSpeaks(w) ==
    /\ w.ordering # "none" => w.intent \in {"rank", "aggregate", "trend", "taxonomy"}
    /\ w.limit # NoLimit => w.intent # "count"
ConstraintsSpeak(w) ==
    /\ Cardinality(w.asks \cap Where) > 1
         => w.asks \cap Where \subseteq AreasOf(w.asks) /\ contract \in {"v8", "v12"}
    /\ contract \in {"v8", "v9"} => ~Is(w.asks, "weekdays") /\ ~Is(w.asks, "months")
    /\ Is(w.asks, "here") \/ Is(w.asks, "radius") => w.clarification = "needs_location"
    /\ ~(Is(w.asks, "weekday") /\ Is(w.asks, "weekdays"))
TargetsSpeak(w) ==
    IF w.intent = "compare"
    THEN /\ Cardinality(w.targets) # 1
         /\ ~Blocked(w) => Cardinality(w.targets) \in 2..4 /\ w.metric # "none"
    ELSE w.targets = {}
SpeaksModern(w) ==
    /\ w.intent \notin {"recommend", "spatial_rank"} /\ "area" \notin w.groups
    /\ contract = "v8" => Cardinality(w.groups) <= 1
    /\ RankSpeaks(w) /\ CountSpeaks(w) /\ MetricSpeaks(w) /\ OrderSpeaks(w)
    /\ ConstraintsSpeak(w) /\ TargetsSpeak(w)
    /\ w.semantic <=> w.intent = "search"
    /\ w.taxonomy <=> w.intent = "taxonomy"

\* The older contracts, each an extension of the one before.
Records == {"list", "search", "recommend"}
AnalyticalIntents ==
    Records \cup {"count", "aggregate", "compare"}
            \cup IF contract = "v3" THEN {} ELSE {"taxonomy", "spatial_rank"}
AnalyticalGroups ==
    {"venue", "area", "organization", "category"}
        \cup IF contract = "v3" THEN {} ELSE {"event", "genre", "event_type"}
AnalyticalOrderSpeaks(w) ==
    /\ w.limit # NoLimit
         => w.intent \in Records \cup IF contract = "v3" THEN {}
                                      ELSE {"aggregate", "taxonomy", "spatial_rank"}
    /\ w.ordering # "none" =>
         \/ w.intent \in {"list", "search"} /\ w.entity = "event" /\ (w.semantic => w.unsupported)
         \/ contract # "v3" /\ w.intent \in {"aggregate", "taxonomy", "spatial_rank"}
    /\ w.intent = "spatial_rank" => w.entity \in {"event", "venue"} /\ w.ordering # "none"
AnalyticalMetricSpeaks(w) ==
    /\ w.threshold = "none"
    /\ w.metric \in Counts \cup {"none"}
                    \cup IF w.intent = "spatial_rank" THEN {"longitude"} ELSE {}
    /\ w.intent \in {"count", "aggregate"} => w.metric # "none"
    /\ w.intent \in Records \cup {"taxonomy"} => w.metric = "none"
    /\ w.intent = "spatial_rank" => w.metric = "longitude"
    /\ w.metric \in Counts => w.entity = CountEntity(w.metric)
    /\ w.groups # {} <=> w.intent = "aggregate"
    /\ w.groups \subseteq AnalyticalGroups /\ Cardinality(w.groups) <= 1
    /\ w.groups = {"event"} => w.metric = "occurrence_count"
AnalyticalMeaningSpeaks(w) ==
    /\ w.intent \in {"search", "recommend"} => w.semantic
    /\ w.semantic /\ contract # "v3" => w.intent \in Records \/ w.unsupported
    /\ w.taxonomy <=> w.intent = "taxonomy"
    /\ w.taxonomy => w.entity = "event"
AnalyticalTargetsSpeak(w) ==
    /\ \A t \in w.targets : t.is \in {"venue", "organization", "region"}
    /\ w.targets # {} => w.intent = "compare"
    /\ w.clarification = "needs_criteria" => w.intent = "compare"
    /\ w.intent = "compare" /\ ~Blocked(w) => Cardinality(w.targets) \in 2..4 /\ w.metric # "none"
AnalyticalPlacesSpeak(w) ==
    /\ \A c \in w.asks : c.is \in {"venue", "genre", "period", "area"}
                               \cup IF contract = "v6" THEN {"place", "here"} ELSE {}
    /\ \A c, d \in w.asks : c.is = d.is => c = d
    /\ Is(w.asks, "here") => w.asks \cap (Where \cup What) \subseteq {c \in w.asks : c.is # "venue"}
                                /\ Cardinality(w.asks \cap Where) = 1
    /\ contract = "v6" => (Is(w.asks, "here") <=> w.clarification = "needs_location")
SpeaksAnalytical(w) ==
    /\ w.intent \in AnalyticalIntents /\ w.clarification # "needs_context"
    /\ AnalyticalOrderSpeaks(w) /\ AnalyticalMetricSpeaks(w) /\ AnalyticalMeaningSpeaks(w)
    /\ AnalyticalTargetsSpeak(w) /\ AnalyticalPlacesSpeak(w)
Speaks(w) == IF contract \in Analytical THEN SpeaksAnalytical(w) ELSE SpeaksModern(w)

----------------------------------------------------------------------------
\* What of the language the backend's own plan can hold.
Empty == [intent |-> "list", entity |-> "event", metric |-> "none", groupings |-> {},
          level |-> "none", ordering |-> "none", limit |-> NoLimit, asks |-> {},
          coverage |-> FALSE, zeroOnly |-> FALSE, field |-> "none", semantic |-> FALSE,
          taxonomy |-> FALSE, targets |-> {}, clarification |-> "none"]

\* Recurring weekdays and months leave the plan before the older translation, which
\* does not know them, and return to it afterwards.
Recurring(asks) == {c \in asks : c.is \in {"weekdays", "months"}}
Lasting(asks) == asks \ Recurring(asks)

ConstraintsFit(asks) ==
    /\ ~Is(asks, "after") /\ ~Is(asks, "radius") /\ ~Is(asks, "status")
    /\ \A c, d \in asks : c.is = "venue" /\ d.is = "venue" => c = d

ShowsRecords(w) == w.intent \in {"list", "search", "taxonomy"}
RanksByField(w) == ~ShowsRecords(w) /\ w.metric \in Fields
Operation(w) == IF w.metric \in DOMAIN Distinct THEN Distinct[w.metric] ELSE w.metric

\* A rank without a metric is asked back; no metric is invented for it.
Unranked(w) ==
    /\ w.intent = "rank" /\ w.metric = "none" /\ w.clarification = "needs_criteria"
    /\ w.entity \in {"event", "venue", "organization"} /\ w.groups \subseteq Scalars
RecordsFit(w) ==
    /\ ShowsRecords(w) /\ w.threshold = "none"
    /\ w.entity \in IF w.intent = "list" THEN {"event", "venue", "organization"} ELSE {"event"}
FieldFits(w) ==
    /\ RanksByField(w) /\ w.intent = "rank" /\ w.threshold = "none"
    /\ w.groups \in {{}, {w.entity}}
    /\ IF w.metric = "start_date" THEN w.entity = "event" ELSE w.entity \in {"event", "venue"}

Measures(w) == ~ShowsRecords(w) /\ ~RanksByField(w) /\ Operation(w) \in Counts
DistinctFits(w) ==
    w.metric \in DOMAIN Distinct /\ w.intent = "count" => w.entity = Measured[Distinct[w.metric]]
Comparable(w) ==
    /\ w.intent = "compare" /\ w.groups = {} /\ w.threshold = "none"
    /\ \A t \in w.targets : t.is \in {"venue", "organization", "region"}
    /\ IF w.metric = "none"
       THEN w.clarification # "none" /\ w.entity \in {"event", "venue", "organization"}
       ELSE /\ Measures(w) /\ w.limit = NoLimit
            /\ w.entity \in {CountEntity(Operation(w))} \cup {t.is : t \in w.targets}
                    \cup (IF Operation(w) = "occurrence_count" THEN {"occurrence"} ELSE {})
CountsFit(w) == w.intent = "count" /\ Measures(w) /\ DistinctFits(w) /\ w.threshold = "none"

Grouped(w) == w.intent \in {"aggregate", "rank"} /\ w.groups # {} /\ Measures(w)
\* Every area of a level, also those without any event.
Inventory(w) ==
    /\ Grouped(w) /\ Cardinality(w.groups) = 1 /\ w.groups \subseteq Levels
    /\ w.entity \in {"region", "municipality"} \/ w.groups # {"municipality"}
InventoryFits(w) ==
    /\ Inventory(w) /\ Operation(w) = "event_count" /\ w.threshold \in {"none", "zero"}
    /\ w.entity \in {"event"} \cup (IF w.groups = {"country"} THEN {"region"} ELSE w.groups)
GroupsFit(w) ==
    LET entity == CountEntity(Operation(w)) IN
    /\ Grouped(w) /\ ~Inventory(w) /\ w.threshold = "none"
    /\ \/ w.entity = entity \/ (entity = "event" /\ w.entity = "occurrence")
       \/ w.intent = "rank" /\ w.groups = {w.entity}
    /\ IF Cardinality(w.groups) = 1 /\ w.groups \subseteq Scalars
       THEN w.groups = {"event"} => Operation(w) = "occurrence_count"
       ELSE entity = "event" /\ w.groups \subseteq Cells

Fits(w) ==
    /\ ~w.unsupported /\ w.intent # "trend" /\ w.clarification # "needs_context"
    /\ ConstraintsFit(w.asks)
    /\ \/ Unranked(w) \/ RecordsFit(w) \/ FieldFits(w) \/ Comparable(w) \/ CountsFit(w)
       \/ InventoryFits(w) \/ GroupsFit(w)

\* The areas of a level are counted by a primitive of their own; every other grouping
\* by one scalar is an aggregate, and by several dimensions a cell.
Grouping(w) ==
    IF InventoryFits(w) THEN w.groups
    ELSE IF Cardinality(w.groups) = 1 /\ w.groups \subseteq Scalars THEN w.groups ELSE {}
OnlyOf(set) == IF set = {} THEN "none" ELSE CHOOSE x \in set : TRUE
Adapted(w) ==
    LET base == [Empty EXCEPT !.intent = w.intent, !.ordering = w.ordering, !.limit = w.limit,
                              !.asks = Lasting(w.asks), !.clarification = w.clarification]
    IN CASE Unranked(w) -> [base EXCEPT !.entity = w.entity, !.groupings = w.groups]
         [] RecordsFit(w) -> [base EXCEPT !.entity = w.entity, !.semantic = w.semantic,
                                          !.taxonomy = w.taxonomy]
         [] FieldFits(w) /\ w.metric = "start_date" -> [base EXCEPT !.intent = "list"]
         [] FieldFits(w) /\ w.metric # "start_date" ->
                [base EXCEPT !.intent = "spatial_rank", !.entity = w.entity, !.field = w.metric]
         [] Comparable(w) ->
                [base EXCEPT !.metric = IF Measures(w) THEN Operation(w) ELSE "none",
                             !.entity = IF Measures(w) THEN CountEntity(Operation(w)) ELSE w.entity,
                             !.targets = w.targets]
         [] CountsFit(w) ->
                [base EXCEPT !.metric = Operation(w), !.entity = CountEntity(Operation(w))]
         [] InventoryFits(w) ->
                [base EXCEPT !.metric = "event_count", !.groupings = w.groups,
                             !.level = OnlyOf(Grouping(w)), !.coverage = TRUE,
                             !.zeroOnly = w.threshold # "none",
                             !.ordering = IF w.ordering = "none" THEN "desc" ELSE w.ordering,
                             !.limit = IF w.limit = NoLimit THEN 20 ELSE w.limit]
         [] OTHER ->
                [base EXCEPT !.metric = Operation(w), !.entity = CountEntity(Operation(w)),
                             !.groupings = w.groups, !.level = OnlyOf(Grouping(w)),
                             !.intent = IF Grouping(w) # {} THEN "aggregate" ELSE w.intent]
Modern(w) == LET base == Adapted(w) IN [base EXCEPT !.asks = @ \cup Recurring(w.asks)]

\* The administrative contract: exact selections and inventories of areas, nothing else.
FitsAdministrative(w) ==
    /\ w.clarification = "none" /\ ~w.unsupported
    /\ w.intent \in {"list", "count", "rank", "aggregate"}
    /\ IF w.groups \cap Levels = {}
       THEN w.entity = "event" /\ w.groups = {} /\ w.intent \in {"list", "count"}
       ELSE w.groups = {w.entity} /\ w.intent \in {"rank", "aggregate"}
    /\ w.intent # "list" => w.metric = "event_count"
    /\ w.threshold # "none" => w.groups \cap Levels # {} /\ w.threshold = "zero"
    /\ \A c \in w.asks : c.is \in {"genre", "area"}
Administrative(w) ==
    [Empty EXCEPT !.intent = w.intent, !.metric = w.metric, !.asks = w.asks, !.coverage = TRUE,
                  !.groupings = w.groups, !.level = OnlyOf(w.groups),
                  !.zeroOnly = w.threshold # "none",
                  !.ordering = IF w.ordering = "none" THEN "desc" ELSE w.ordering,
                  !.limit = IF w.limit = NoLimit THEN 20 ELSE w.limit]

\* The plans of the older contracts have the fields of the backend's.
Direct(w) ==
    [Empty EXCEPT !.intent = w.intent, !.entity = w.entity,
                  !.metric = IF w.metric \in Counts THEN w.metric ELSE "none",
                  !.field = IF w.metric \in Fields THEN w.metric ELSE "none",
                  !.groupings = w.groups, !.level = OnlyOf(w.groups),
                  !.ordering = w.ordering, !.limit = w.limit, !.asks = w.asks,
                  !.semantic = w.semantic, !.taxonomy = w.taxonomy, !.targets = w.targets,
                  !.clarification = w.clarification]

AsksForContext(w) ==
    contract \in {"v11", "v12"} /\ w.clarification = "needs_context" /\ ~w.unsupported
Translated(w) ==
    IF AsksForContext(w) THEN [Empty EXCEPT !.clarification = "needs_context"]
    ELSE IF contract \in Analytical THEN Direct(w)
    ELSE IF contract = "v8" THEN Administrative(w) ELSE Modern(w)

----------------------------------------------------------------------------
\* The gate: which plans a query family can execute.
CellExecution(p) ==
    /\ p.groupings # {} /\ p.level = "none" /\ p.intent \in {"aggregate", "rank"}
    /\ p.entity = "event" /\ p.metric \in {"event_count", "occurrence_count"}
    /\ p.groupings \subseteq Cells
    /\ "event" \in p.groupings => p.metric = "occurrence_count"
    /\ ~p.semantic /\ ~p.taxonomy /\ ~p.zeroOnly /\ p.targets = {} /\ p.field = "none"
BoundaryExecution(p) ==
    \/ p.coverage \/ "municipality" \in p.groupings \/ p.level \in Levels
    \/ Cardinality(AreasOf(p.asks)) > 1
SpatialFits(p) ==
    LET places == (p.asks \cap Where) \ AreasOf(p.asks)
    IN IF BoundaryExecution(p) THEN places = {} /\ Cardinality(AreasOf(p.asks)) <= 4
       ELSE Cardinality(places) <= 1
BoundaryFits(p) ==
    /\ p.entity = "event" /\ ~p.semantic /\ ~p.taxonomy /\ p.targets = {} /\ p.field = "none"
    /\ \/ p.intent = "list" /\ p.level = "none" /\ p.metric \in {"none", "event_count"}
       \/ p.intent = "count" /\ p.level = "none" /\ p.metric = "event_count"
       \/ p.intent \in {"rank", "aggregate"} /\ p.level \in Levels /\ p.metric = "event_count"
    /\ p.zeroOnly => p.level \in Levels
\* A target narrows the common constraints; it must never stand in for one of them.
Replaces(t, c) == \/ t.is = "region" /\ c.is = "area"
                  \/ t.is = "venue" /\ c.is = "venue"
NamesOnlyReplaced(p) == \A t \in p.targets, c \in p.asks : t.is = "venue" => ~Replaces(t, c) \* Mutant.
TargetsFit(p) == \A t \in p.targets, c \in p.asks : ~Replaces(t, c)
Supported(p) ==
    \/ CellExecution(p) /\ SpatialFits(p)
    \/ /\ ~CellExecution(p) /\ SpatialFits(p)
       /\ p.semantic => p.entity = "event" /\ p.intent \in {"list", "search", "recommend"}
       /\ IF BoundaryExecution(p) THEN BoundaryFits(p)
          ELSE /\ p.intent \in {"list", "search", "count", "aggregate", "compare", "taxonomy",
                                 "spatial_rank", "recommend"}
               /\ p.level # "area" /\ TargetsFit(p)

\* Where a plan's constraints go: the polygons of named areas to the boundary family,
\* everything else into the filters every family shares.
Filters(p) == IF BoundaryExecution(p) THEN p.asks \ AreasOf(p.asks) ELSE p.asks
Polygons(p) == p.asks \ Filters(p)
LimitOf(p) == IF p.limit = NoLimit THEN 20 ELSE p.limit
OrElse(order, default) == IF order = "none" THEN default ELSE order

Answered(of, by, sort, order, limit, applied) ==
    /\ stage' = "answered"
    /\ result' = [of |-> of, by |-> by, sort |-> sort, order |-> order, limit |-> limit,
                  applied |-> applied, targets |-> {},
                  zeroOnly |-> plan.zeroOnly /\ plan.level \in Levels]
    /\ UNCHANGED <<contract, wire, located, plan>>

LocationSatisfied == Is(plan.asks, "here") /\ located /\ plan.clarification = "needs_location"
Executable ==
    /\ stage = "planned" /\ Supported(plan)
    /\ plan.clarification = "none" \/ LocationSatisfied

----------------------------------------------------------------------------
Few(set, n) == {some \in SUBSET set : Cardinality(some) <= n}
TargetPairs == {{[is |-> k, name |-> n] : n \in Names} : k \in {"venue", "region", "municipality"}}
                 \cup {{[is |-> k, name |-> n] : k \in {"venue", "region"}} : n \in Names}
SaysWell(w) == \E c \in {"none", "needs_criteria", "needs_location"} :
                 Speaks([w EXCEPT !.clarification = c])

\* An answer is made up of the matter asked for, and then of one thing said about it:
\* names, dates, places, a threshold, or what is missing.
Intents ==
    Records \cup {"count", "aggregate", "rank", "compare", "taxonomy", "trend", "spatial_rank"}
PlansInit ==
    /\ contract \in Contracts
    /\ \E intent \in Intents, entity \in Entities, metric \in Metrics \cup {"none"},
          ordering \in {"none", "desc"}, limit \in {5, NoLimit} :
       \E groups \in Few(Dimensions, IF intent \in {"aggregate", "rank"} THEN 2 ELSE 1),
          targets \in IF intent = "compare" THEN TargetPairs ELSE {{}},
          semantic \in {intent = "search"} \cup IF contract \in Analytical THEN BOOLEAN ELSE {} :
         /\ wire = [intent |-> intent, entity |-> entity, metric |-> metric, ordering |-> ordering,
                     limit |-> limit, groups |-> groups, targets |-> targets,
                     taxonomy |-> intent = "taxonomy", semantic |-> semantic,
                     threshold |-> "none", asks |-> {}, clarification |-> "none",
                     unsupported |-> FALSE]
         /\ SaysWell(wire)
    /\ located = FALSE /\ plan = Empty /\ stage = "asked" /\ result = [of |-> "nothing"]

Placed == {[wire EXCEPT !.asks = cs, !.clarification = c] :
             cs \in Few(Where, 2), c \in {"none", "needs_location"}}
Spoken == {[wire EXCEPT !.asks = cs] : cs \in Few(What, 2) \cup Few(When, 2)}
Limited == {[wire EXCEPT !.threshold = t] : t \in {"zero", "some"}}
Lacking == {[wire EXCEPT !.clarification = c] : c \in {"needs_criteria", "needs_context"}}
Plan ==
    /\ stage = "asked" /\ stage' = "wired"
    /\ wire' \in Placed \cup Spoken \cup Limited \cup Lacking
                 \cup {[wire EXCEPT !.unsupported = TRUE]}
    /\ Speaks(wire')
    /\ located' \in IF Is(wire'.asks, "here") THEN BOOLEAN ELSE {FALSE}
    /\ UNCHANGED <<contract, plan, result>>

\* The older contracts leave the gate to the executor, and so does what v9 asks back.
Translates ==
    IF AsksForContext(wire) THEN TRUE
    ELSE IF contract \in Analytical THEN ~wire.unsupported
    ELSE IF contract = "v8" THEN FitsAdministrative(wire)
    ELSE /\ Fits(wire)
         /\ Supported(Translated(wire)) \/ (contract = "v9" /\ Unranked(wire))
\* What the backend's plan cannot hold is refused.
Normalise ==
    /\ stage = "wired"
    /\ IF Translates
       THEN stage' = "planned" /\ plan' = Translated(wire)
       ELSE stage' = "refused" /\ UNCHANGED plan
    /\ UNCHANGED <<contract, wire, located, result>>

AskBack ==
    /\ stage = "planned" /\ plan.clarification # "none" /\ ~LocationSatisfied
    /\ stage' = "clarified" /\ UNCHANGED <<contract, wire, located, plan, result>>

\* analytical_mismatch: the words of the question contradict the plan.
Veto ==
    /\ stage = "wired" /\ contract \in Analytical /\ ~Blocked(wire)
    /\ stage' = "refused" /\ UNCHANGED <<contract, wire, located, plan, result>>
\* The executor's own gate.
Refuse ==
    /\ stage = "planned" /\ ~Supported(plan)
    /\ plan.clarification = "none" \/ LocationSatisfied
    /\ stage' = "refused" /\ UNCHANGED <<contract, wire, located, plan, result>>

\* The families, in the order in which the executor tries them.
RankByMeaning ==
    /\ Executable /\ plan.semantic
    /\ Answered("event", {}, "similarity", "desc", LimitOf(plan), Filters(plan))

Cellular == Executable /\ ~plan.semantic /\ CellExecution(plan)
CountCells ==
    /\ Cellular
    /\ Answered(plan.metric, plan.groupings, "value", plan.ordering, LimitOf(plan),
                Filters(plan) \cup Polygons(plan))

Bounded == Executable /\ ~plan.semantic /\ ~CellExecution(plan) /\ BoundaryExecution(plan)
WithinBoundaries ==
    /\ Bounded
    /\ LET all == Filters(plan) \cup Polygons(plan) IN
       IF plan.level # "none"
       THEN /\ Answered("event_count", {plan.level}, "value", OrElse(plan.ordering, "desc"),
                        LimitOf(plan), all)
       ELSE IF plan.intent = "count"
       THEN Answered("event_count", {}, "none", "none", NoLimit, all)
       ELSE Answered("event", {}, "start_date", OrElse(plan.ordering, "desc"),
                     LimitOf(plan), all)

Plain == Executable /\ ~plan.semantic /\ ~CellExecution(plan) /\ ~BoundaryExecution(plan)
ListTaxonomy ==
    /\ Plain /\ plan.intent = "taxonomy"
    /\ Answered("taxonomy", {}, "name", OrElse(plan.ordering, "asc"), LimitOf(plan),
                Filters(plan))
RankInSpace ==
    /\ Plain /\ plan.intent = "spatial_rank"
    /\ Answered(plan.entity, {}, plan.field, plan.ordering, LimitOf(plan), Filters(plan))
CountAll ==
    /\ Plain /\ plan.intent = "count"
    /\ Answered(plan.metric, {}, "none", "none", NoLimit, Filters(plan))
Aggregate ==
    /\ Plain /\ plan.intent = "aggregate"
    /\ Answered(plan.metric, {plan.level}, "value", OrElse(plan.ordering, "desc"), LimitOf(plan),
                Filters(plan))
ListEvents ==
    /\ Plain /\ plan.intent = "list" /\ plan.entity = "event"
    /\ Answered("event", {}, "start_date", OrElse(plan.ordering, "asc"), LimitOf(plan),
                Filters(plan))
ListPage ==
    /\ Plain /\ plan.intent = "list" /\ plan.entity # "event"
    /\ Answered(plan.entity, {}, "start_date", "asc", LimitOf(plan), Filters(plan))

\* Every target is counted under the common constraints, its own in the place of one of
\* its kind. Without a metric the result has no valid form.
Compare ==
    /\ Plain /\ plan.intent = "compare"
    /\ IF plan.metric = "none"
       THEN stage' = "failed" /\ UNCHANGED <<contract, wire, located, plan, result>>
       ELSE /\ stage' = "answered"
            /\ result' = [of |-> plan.metric, by |-> {}, sort |-> "none", order |-> "none",
                          limit |-> NoLimit, targets |-> plan.targets, zeroOnly |-> FALSE,
                          applied |-> {c \in Filters(plan) :
                                         \A t \in plan.targets : ~Replaces(t, c)}]
            /\ UNCHANGED <<contract, wire, located, plan>>

Executes ==
    \/ RankByMeaning \/ CountCells \/ WithinBoundaries \/ ListTaxonomy \/ RankInSpace
    \/ CountAll \/ Aggregate \/ Compare \/ ListEvents \/ ListPage
PlansNext == Plan \/ Normalise \/ Veto \/ AskBack \/ Refuse \/ Executes
PlansSpec == PlansInit /\ [][PlansNext]_planVars

----------------------------------------------------------------------------
\* What the answer is asked to show, by the words of the plan alone.
Subject ==
    IF wire.intent = "taxonomy" THEN "taxonomy"
    ELSE IF wire.metric = "none" \/ wire.metric \in Fields THEN wire.entity
    ELSE Operation(wire)
SortedBy ==
    IF wire.metric \in Fields THEN wire.metric
    ELSE IF wire.intent = "taxonomy" THEN "name"
    ELSE IF wire.intent = "list" THEN "start_date" ELSE "value"

\* An executed plan answers what was asked: it shows or counts the subject asked for,
\* along the groups, in the order and up to the limit asked for, under every constraint
\* and threshold, for every target; a plan that no family can answer in full is refused
\* or asked back before anything is read.
NothingDropped ==
    stage = "answered" =>
        /\ result.of = Subject
        /\ wire.metric \notin Fields => result.by = wire.groups
        /\ wire.ordering # "none" => result.sort = SortedBy /\ result.order = wire.ordering
        /\ wire.limit # NoLimit => result.limit = wire.limit
        /\ result.applied = wire.asks
        /\ result.zeroOnly = (wire.threshold = "zero") /\ wire.threshold # "some"
        /\ result.targets = wire.targets
        /\ wire.clarification = "none" \/ (located /\ Is(wire.asks, "here"))
        /\ ~wire.unsupported /\ wire.intent # "trend"
=============================================================================
