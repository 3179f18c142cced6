------------------------------ MODULE AreaImport ------------------------------
(***************************************************************************)
(* The operator imports of the research area store: municipal boundaries   *)
(* (backend/app/research/areas.py), populations of municipalities          *)
(* (research/population.py) and boundaries of states, districts and        *)
(* regions (research/administrative_areas.py). An import fetches its whole *)
(* batch first, then, in one transaction under one advisory lock, compares *)
(* it with the store, plans, and applies. Whatever the provider answered   *)
(* before, a batch is any batch; an import that only plans, that is        *)
(* refused or cut off writes nothing. The transactions read committed      *)
(* data, so without the lock one could apply what another has outdated.    *)
(* Boundaries are sets of parcels of land; all populations are of one file *)
(* per reference date and of one region.                                   *)
(***************************************************************************)
EXTENDS Naturals, FiniteSets

CONSTANTS
    Relations,   \* OSM relations, numbers
    Land,        \* parcels: boundaries that share one overlap
    Keys,        \* official municipality keys
    NoKey,       \* the key of an area that has none
    Dates,       \* reference dates of population files, numbers
    Uncounted,   \* no population
    Importers    \* import processes

ASSUME RelationsAssumption == Relations \subseteq Nat /\ IsFiniteSet(Relations)
ASSUME DatesAssumption == Dates \subseteq Nat
ASSUME NoKeyAssumption == NoKey \notin Keys

VARIABLES
    area,     \* research_area: the stored row of each relation that has one
    import    \* what each importer does: nothing, or a plan it made under the lock

areaVars == <<area, import>>

LEVELS == {"municipality", "district"}
Boundaries == SUBSET Land \ {{}}
Populations == [key : Keys, date : Dates]
Away == [at |-> "away"]
OnMap == DOMAIN area
Overlaps(land, other) == land \cap other # {}

AreasInit ==
    /\ area = [r \in {} |-> {}]
    /\ import = [i \in Importers |-> Away]

\* pg_advisory_xact_lock(IMPORT_LOCK). Mutant: no lock is taken.
LockIgnored == TRUE
NoImport == \A i \in Importers : import[i] = Away

MayPlan(i) == import[i] = Away /\ NoImport
Plans(i, kind, changes) ==
    /\ import' = [import EXCEPT ![i] = [at |-> "planned", kind |-> kind, changes |-> changes]]
    /\ UNCHANGED area

----------------------------------------------------------------------------
\* import_boundaries. A boundary must not overlap another municipality in the
\* store, nor a boundary of a smaller number that the batch already accepted.
FitsStore(r, land) ==
    \A other \in OnMap \ {r} :
        area[other].level = "municipality" => ~ Overlaps(land, area[other].land)
DisjointTogether(batch, accepted) ==
    \A r \in DOMAIN batch :
        r \in accepted <=>
            /\ FitsStore(r, batch[r].land)
            /\ \A s \in accepted : s < r => ~ Overlaps(batch[r].land, batch[s].land)
PlanMunicipalities(i) ==
    /\ MayPlan(i)
    /\ \E rs \in SUBSET Relations \ {{}} :
        \E batch \in [rs -> [land : Boundaries, key : Keys \cup {NoKey}]], accepted \in SUBSET rs :
            /\ DisjointTogether(batch, accepted)
            /\ Plans(i, "municipalities", [r \in accepted |-> batch[r]])

\* persist: a row keeps its population while its key stays; a key that is not
\* known equals no other.
\* Mutant: what is stored stays.
KeptAlways(r, key) == IF r \in OnMap THEN area[r].population ELSE Uncounted
Kept(r, key) ==
    IF r \in OnMap /\ key # NoKey /\ area[r].key = key THEN area[r].population ELSE Uncounted
ApplyMunicipalities(changes) ==
    area' = [r \in OnMap \cup DOMAIN changes |->
               IF r \notin DOMAIN changes THEN area[r]
               ELSE [level |-> "municipality", land |-> changes[r].land,
                     key |-> changes[r].key, population |-> Kept(r, changes[r].key)]]

----------------------------------------------------------------------------
\* import_areas of administrative_areas.py: one level per batch, all or nothing.
\* A relation stored at another level, or an overlap at the level with another
\* boundary of the batch or one the batch leaves alone, refuses it.
PlanAdministrative(i) ==
    /\ MayPlan(i)
    /\ \E rs \in SUBSET Relations \ {{}} : \E level \in LEVELS \ {"municipality"}, batch \in [rs -> Boundaries] :
        /\ \A r \in rs \cap OnMap : area[r].level = level
        /\ \A r, s \in rs : r < s => ~ Overlaps(batch[r], batch[s])
        /\ \A r \in rs, s \in OnMap \ rs :
              area[s].level = level => ~ Overlaps(batch[r], area[s].land)
        /\ Plans(i, "administrative", [r \in rs |-> [level |-> level, land |-> batch[r]]])
ApplyAdministrative(changes) ==
    /\ \A r \in OnMap \cap DOMAIN changes : area[r].level = changes[r].level
    /\ area' = [r \in OnMap \cup DOMAIN changes |->
                  IF r \notin DOMAIN changes THEN area[r]
                  ELSE [level |-> changes[r].level, land |-> changes[r].land,
                        key |-> NoKey, population |-> Uncounted]]

----------------------------------------------------------------------------
\* import_population: an entry needs the one municipality of its key, and no
\* count of a later date there.
Matches(key) == {r \in OnMap : area[r].level = "municipality" /\ area[r].key = key}
Countable(r, entry) ==
    area[r].population = Uncounted \/ area[r].population.date <= entry[area[r].key]
PlanPopulation(i) ==
    /\ MayPlan(i)
    /\ \E ks \in SUBSET Keys \ {{}} : \E entry \in [ks -> Dates] :
        LET accepted == {r \in OnMap : /\ area[r].level = "municipality" /\ area[r].key \in ks
                                        /\ Matches(area[r].key) = {r} /\ Countable(r, entry)}
        IN Plans(i, "population",
                 [r \in accepted |-> [key |-> area[r].key, date |-> entry[area[r].key]]])
ApplyPopulation(changes) ==
    area' = [r \in OnMap |->
               IF r \in DOMAIN changes /\ area[r].key = changes[r].key
               THEN [area[r] EXCEPT !.population = changes[r]] ELSE area[r]]

----------------------------------------------------------------------------
ApplyImport(i) ==
    /\ import[i] # Away
    /\ LET changes == import[i].changes
       IN \/ import[i].kind = "municipalities" /\ ApplyMunicipalities(changes)
          \/ import[i].kind = "administrative" /\ ApplyAdministrative(changes)
          \/ import[i].kind = "population" /\ ApplyPopulation(changes)
    /\ import' = [import EXCEPT ![i] = Away]
\* It only planned, or its process or connection ended: nothing is written.
GiveUp(i) ==
    /\ import[i] # Away
    /\ import' = [import EXCEPT ![i] = Away]
    /\ UNCHANGED area

AreasNext ==
    \E i \in Importers :
        PlanMunicipalities(i) \/ PlanAdministrative(i) \/ PlanPopulation(i) \/ ApplyImport(i) \/ GiveUp(i)
AreasSpec == AreasInit /\ [][AreasNext]_areaVars

----------------------------------------------------------------------------
\* Areas of one level never share land, whatever batches, replaced boundaries
\* and reclassified relations cross: an event lies in one municipality at most.
AreasDisjoint ==
    \A r, s \in OnMap :
        r # s /\ area[r].level = area[s].level => ~ Overlaps(area[r].land, area[s].land)

\* A population is the one published for the key its municipality has now, also
\* when boundaries and keys change between two imports; and no import replaces
\* it by one of an earlier date.
CountFits(r) == area[r].population # Uncounted =>
    area[r].level = "municipality" /\ area[r].population.key = area[r].key
CountForward(r) ==
    /\ r \in OnMap' /\ area[r].population # Uncounted /\ area'[r].population # Uncounted
    /\ area'[r].population.key = area[r].population.key
    => area'[r].population.date >= area[r].population.date
PopulationFits ==
    /\ [](\A r \in OnMap : CountFits(r))
    /\ [][\A r \in OnMap : CountForward(r)]_areaVars
=============================================================================
