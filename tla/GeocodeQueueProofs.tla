-------------------------- MODULE GeocodeQueueProofs --------------------------
(***************************************************************************)
(* Proofs about GeocodeQueue: a suggestion that is shown fits the source,  *)
(* and the candidates of a generation are never replaced, for any number   *)
(* of owners, workers and addresses and any lease.                         *)
(***************************************************************************)
EXTENDS GeocodeQueue, TLAPS

USE GeocodeBounds, NoGeocoderAssumption, NoJobAssumption

GeocodeSpec == GeocodeInit /\ [][GeocodeNext]_geocodeVars

----------------------------------------------------------------------------
(* The inductive invariant.                                                *)

Fingerprints == {None} \cup Addresses
Answering == {"claimed", "obsolete", "changed", "asking", "asked", "finishing"}

RowTypes ==
    /\ state \in [Entities -> RequestStatuses]
    /\ fingerprint \in [Entities -> Fingerprints]
    /\ checked \in [Entities -> BOOLEAN]
    /\ due \in [Entities -> BOOLEAN]
    /\ holder \in [Entities -> Geocoders \cup {NoGeocoder}]
    /\ left \in [Entities -> 0 .. GeocodeLease]
    /\ suggestion \in [Entities -> Fingerprints]
PassTypes ==
    /\ place \in [Geocoders -> Places]
    /\ target \in [Geocoders -> Entities \cup {NoJob}]
    /\ mine \in [Geocoders -> Fingerprints]
    /\ seen \in [Geocoders -> [Entities -> Fingerprints]]
    /\ result \in [Geocoders -> {"pending", "candidate", "not_found", "failed", "insufficient_input"}]
GeocodeTypeOK ==
    /\ RowTypes /\ PassTypes
    /\ fresh \in [Geocoders -> BOOLEAN]
    /\ address \in [Entities -> Fingerprints]
    /\ workerLock \in Geocoders \cup {NoGeocoder}
    /\ faults \in Nat

\* The session lock: only its holder is at work.
OnePass == \A w \in Geocoders : place[w] # "idle" => workerLock = w
\* What a worker asks the provider about is a request it claimed.
Answers == \A w \in Geocoders : place[w] \in Answering => target[w] \in Entities
\* In the generation it claimed the address is the one it claimed it with.
ClaimsFit == \A w \in Geocoders : target[w] \in Entities /\ fresh[w] => mine[w] = fingerprint[target[w]]
\* Candidates are those of the address, and a request that was not evaluated in
\* its generation, as one under evaluation, has none.
RequestFits(e) ==
    /\ state[e] = "candidate" => suggestion[e] = fingerprint[e]
    /\ ~ checked[e] => suggestion[e] = None
    /\ state[e] = "checking" => ~ checked[e]
RequestsFit == \A e \in Entities : RequestFits(e)

GeocodeInv == GeocodeTypeOK /\ OnePass /\ Answers /\ ClaimsFit /\ RequestsFit

----------------------------------------------------------------------------
LEMMA NoneFits == None \in Fingerprints /\ Unseen \in [Entities -> Fingerprints]
  BY DEF None, Fingerprints, Unseen

LEMMA GeocodeInvInit == GeocodeInit => GeocodeInv
<1> SUFFICES ASSUME GeocodeInit PROVE GeocodeInv
  OBVIOUS
<1>1. 0 \in 0 .. GeocodeLease
  OBVIOUS
<1>2. RowTypes
  BY <1>1, NoneFits DEF GeocodeInit, RowTypes, RequestStatuses
<1>3. PassTypes
  BY NoneFits DEF GeocodeInit, PassTypes, Places
<1>4. GeocodeTypeOK
  BY <1>2, <1>3, NoneFits DEF GeocodeInit, GeocodeTypeOK
<1>5. OnePass /\ Answers
  BY DEF GeocodeInit, OnePass, Answers, Answering
<1>6. ClaimsFit
  BY DEF GeocodeInit, ClaimsFit
<1>7. RequestsFit
  BY DEF GeocodeInit, RequestsFit, RequestFits, Unseen
<1>8. QED
  BY <1>4, <1>5, <1>6, <1>7 DEF GeocodeInv

----------------------------------------------------------------------------
(* What the operations on the rows keep.                                   *)

\* A worker either goes on with its claim or drops it.
ClaimsGoOn == \A w \in Geocoders : target'[w] \in Entities => target'[w] = target[w] /\ mine'[w] = mine[w]

LEMMA FreshRows ==
    ASSUME GeocodeInv, NEW S \in SUBSET Entities, NEW read \in [Entities -> Fingerprints],
           FreshValues(S, read), ClaimsGoOn
    PROVE  RowTypes' /\ fresh' \in [Geocoders -> BOOLEAN] /\ ClaimsFit' /\ RequestsFit'
<1> USE DEF GeocodeInv
<1>1. RowTypes'
  <2>1. 0 \in 0 .. GeocodeLease
    OBVIOUS
  <2>2. state' \in [Entities -> RequestStatuses] /\ fingerprint' \in [Entities -> Fingerprints]
    BY DEF FreshValues, GeocodeTypeOK, RowTypes, RequestStatuses
  <2>3. checked' \in [Entities -> BOOLEAN] /\ due' \in [Entities -> BOOLEAN]
    BY DEF FreshValues, GeocodeTypeOK, RowTypes
  <2>4. holder' \in [Entities -> Geocoders \cup {NoGeocoder}] /\ left' \in [Entities -> 0 .. GeocodeLease]
    BY <2>1 DEF FreshValues, GeocodeTypeOK, RowTypes
  <2>5. suggestion' \in [Entities -> Fingerprints]
    BY NoneFits DEF FreshValues, NewGeneration, GeocodeTypeOK, RowTypes
  <2>6. QED
    BY <2>2, <2>3, <2>4, <2>5 DEF RowTypes
<1>2. /\ fresh' \in [Geocoders -> BOOLEAN]
      /\ \A w \in Geocoders : fresh'[w] => fresh[w] /\ target[w] \notin S
  BY DEF FreshValues, NewGeneration, GeocodeTypeOK
<1>3. ClaimsFit'
  BY <1>2 DEF ClaimsFit, ClaimsGoOn, FreshValues
<1>4. RequestsFit'
  <2> SUFFICES ASSUME NEW e \in Entities PROVE RequestFits(e)'
    BY DEF RequestsFit
  <2>1. CASE e \in S
    BY <2>1 DEF FreshValues, NewGeneration, RequestFits
  <2>2. CASE e \notin S
    BY <2>2 DEF FreshValues, NewGeneration, RequestFits, RequestsFit
  <2>3. QED
    BY <2>1, <2>2
<1>5. QED
  BY <1>1, <1>2, <1>3, <1>4

LEMMA StaleRows ==
    ASSUME GeocodeInv, NEW S \in SUBSET Entities, MarkStale(S), ClaimsGoOn
    PROVE  RowTypes' /\ fresh' = fresh /\ ClaimsFit' /\ RequestsFit'
<1> USE DEF GeocodeInv
<1>1. RowTypes'
  <2>1. 0 \in 0 .. GeocodeLease
    OBVIOUS
  <2>2. state' \in [Entities -> RequestStatuses]
    BY DEF MarkStale, GeocodeTypeOK, RowTypes, RequestStatuses
  <2>3. due' \in [Entities -> BOOLEAN]
    BY DEF MarkStale, GeocodeTypeOK, RowTypes
  <2>4. holder' \in [Entities -> Geocoders \cup {NoGeocoder}] /\ left' \in [Entities -> 0 .. GeocodeLease]
    BY <2>1 DEF MarkStale, GeocodeTypeOK, RowTypes
  <2>5. QED
    BY <2>2, <2>3, <2>4 DEF MarkStale, RowTypes, GeocodeTypeOK
<1>2. ClaimsFit'
  BY DEF ClaimsFit, ClaimsGoOn, MarkStale
<1>3. RequestsFit'
  <2> SUFFICES ASSUME NEW e \in Entities PROVE RequestFits(e)'
    BY DEF RequestsFit
  <2>1. QED
    BY DEF MarkStale, RequestFits, RequestsFit
<1>4. QED
  BY <1>1, <1>2, <1>3 DEF MarkStale

\* A step of a pass that only goes on, by what it does to the variables of the pass.
LEMMA PassGoesOn ==
    ASSUME GeocodeInv, NEW w \in Geocoders, NEW p \in Places, Goto(w, p),
           UNCHANGED <<target, mine, result>>, p \in Answering => target[w] \in Entities,
           p # "idle" => workerLock' = w, UNCHANGED workerLock \/ workerLock = NoGeocoder \/ workerLock = w,
           seen' \in [Geocoders -> [Entities -> Fingerprints]]
    PROVE  PassTypes' /\ OnePass' /\ Answers' /\ ClaimsGoOn
<1> USE DEF GeocodeInv
<1>1. /\ place' \in [Geocoders -> Places] /\ place'[w] = p
      /\ \A v \in Geocoders \ {w} : place'[v] = place[v]
  BY DEF GeocodeTypeOK, PassTypes, Goto
<1>2. PassTypes'
  BY <1>1 DEF GeocodeTypeOK, PassTypes
<1>3. OnePass'
  <2> SUFFICES ASSUME NEW v \in Geocoders, place'[v] # "idle" PROVE workerLock' = v
    BY DEF OnePass
  <2>1. CASE v = w
    BY <1>1, <2>1
  <2>2. CASE v # w
    BY <1>1, <2>2 DEF OnePass
  <2>3. QED
    BY <2>1, <2>2
<1>4. Answers' /\ ClaimsGoOn
  BY <1>1 DEF Answers, ClaimsGoOn
<1>5. QED
  BY <1>2, <1>3, <1>4

\* One that drops its claim.
LEMMA PassLeaves ==
    ASSUME GeocodeInv, NEW w \in Geocoders, NEW p \in {"idle", "claiming"}, Goto(w, p), Leave(w),
           place[w] # "idle", p # "idle" => workerLock' = workerLock
    PROVE  PassTypes' /\ OnePass' /\ Answers' /\ ClaimsGoOn
<1> USE DEF GeocodeInv
<1>1. /\ place' \in [Geocoders -> Places] /\ place'[w] = p
      /\ \A v \in Geocoders \ {w} : place'[v] = place[v]
  BY DEF GeocodeTypeOK, PassTypes, Goto, Places
<1>2. /\ target' \in [Geocoders -> Entities \cup {NoJob}] /\ mine' \in [Geocoders -> Fingerprints]
      /\ seen' \in [Geocoders -> [Entities -> Fingerprints]]
      /\ result' \in [Geocoders -> {"pending", "candidate", "not_found", "failed", "insufficient_input"}]
      /\ target'[w] = NoJob
      /\ \A v \in Geocoders \ {w} : target'[v] = target[v] /\ mine'[v] = mine[v]
  BY NoneFits DEF GeocodeTypeOK, PassTypes, Leave
<1>3. OnePass'
  BY <1>1 DEF OnePass
<1>4. QED
  BY <1>1, <1>2, <1>3 DEF PassTypes, Answers, Answering, ClaimsGoOn

----------------------------------------------------------------------------
(* The steps of a pass.                                                    *)

\* The rows as they are.
LEMMA RowsKept ==
    ASSUME GeocodeInv, UNCHANGED <<rowVars, fresh>>, ClaimsGoOn
    PROVE  RowTypes' /\ fresh' \in [Geocoders -> BOOLEAN] /\ ClaimsFit' /\ RequestsFit'
  BY DEF GeocodeInv, GeocodeTypeOK, RowTypes, rowVars, ClaimsFit, ClaimsGoOn, RequestsFit, RequestFits

LEMMA StartInv ==
    ASSUME GeocodeInv, NEW w \in Geocoders, Start(w) PROVE GeocodeInv'
<1>1. seen' \in [Geocoders -> [Entities -> Fingerprints]]
  BY DEF Start, GeocodeInv, GeocodeTypeOK, PassTypes
<1>2. /\ Goto(w, "reconciling") /\ "reconciling" \in Places /\ "reconciling" \notin Answering
      /\ workerLock' = w /\ workerLock = NoGeocoder /\ UNCHANGED <<address, rowVars, fresh, faults>>
      /\ UNCHANGED <<target, mine, result>>
  BY DEF Start, Places, Answering, LockFree
<1>3. PassTypes' /\ OnePass' /\ Answers' /\ ClaimsGoOn
  BY <1>1, <1>2, PassGoesOn
<1>4. QED
  BY <1>2, <1>3, RowsKept DEF GeocodeInv, GeocodeTypeOK

LEMMA ReconcileInv ==
    ASSUME GeocodeInv, NEW w \in Geocoders, Reconcile(w) PROVE GeocodeInv'
<1> DEFINE S == {e \in Entities : state[e] # "absent" /\ seen[w][e] = None}
<1>1. seen' \in [Geocoders -> [Entities -> Fingerprints]]
  BY DEF Reconcile, GeocodeInv, GeocodeTypeOK, PassTypes
<1>2. /\ Goto(w, "adopting") /\ "adopting" \in Places /\ "adopting" \notin Answering
      /\ workerLock' = w /\ workerLock = w /\ UNCHANGED <<address, workerLock, faults>>
      /\ UNCHANGED <<target, mine, result>>
  BY DEF Reconcile, Places, Answering, GeocodeInv, OnePass
<1>3. PassTypes' /\ OnePass' /\ Answers' /\ ClaimsGoOn
  BY <1>1, <1>2, PassGoesOn
<1>4. MarkStale(S) /\ S \in SUBSET Entities
  BY DEF Reconcile
<1>5. RowTypes' /\ fresh' = fresh /\ ClaimsFit' /\ RequestsFit'
  BY <1>3, <1>4, StaleRows
<1>6. QED
  BY <1>2, <1>3, <1>5 DEF GeocodeInv, GeocodeTypeOK

\* synchronize() writes fresh values for a part of the rows.
LEMMA SynchronizedRows ==
    ASSUME GeocodeInv, NEW S \in SUBSET Entities, NEW read \in [Entities -> Fingerprints],
           Synchronize(S, read), ClaimsGoOn
    PROVE  RowTypes' /\ fresh' \in [Geocoders -> BOOLEAN] /\ ClaimsFit' /\ RequestsFit'
<1> DEFINE written == {e \in S : /\ read[e] # None
                                 /\ state[e] \in {"absent", "stale"} \/ fingerprint[e] # read[e]}
<1>1. written \in SUBSET Entities /\ FreshValues(written, read)
  BY DEF Synchronize
<1> HIDE DEF written
<1>2. QED
  BY <1>1, FreshRows

LEMMA AdoptInv ==
    ASSUME GeocodeInv, NEW w \in Geocoders, Adopt(w) PROVE GeocodeInv'
<1>1. seen' \in [Geocoders -> [Entities -> Fingerprints]] /\ seen[w] \in [Entities -> Fingerprints]
  BY DEF Adopt, GeocodeInv, GeocodeTypeOK, PassTypes
<1>2. /\ Goto(w, "discovering") /\ "discovering" \in Places /\ "discovering" \notin Answering
      /\ workerLock' = w /\ workerLock = w /\ UNCHANGED <<address, workerLock, faults>>
      /\ UNCHANGED <<target, mine, result>>
  BY DEF Adopt, Places, Answering, GeocodeInv, OnePass
<1>3. PassTypes' /\ OnePass' /\ Answers' /\ ClaimsGoOn
  BY <1>1, <1>2, PassGoesOn
<1>4. RowTypes' /\ fresh' \in [Geocoders -> BOOLEAN] /\ ClaimsFit' /\ RequestsFit'
  <2>1. PICK S \in SUBSET Entities : Synchronize(S, seen[w])
    BY DEF Adopt
  <2>2. QED
    BY <1>1, <1>3, <2>1, SynchronizedRows
<1>5. QED
  BY <1>2, <1>3, <1>4 DEF GeocodeInv, GeocodeTypeOK

LEMMA DiscoverInv ==
    ASSUME GeocodeInv, NEW w \in Geocoders, Discover(w) PROVE GeocodeInv'
<1>1. seen' \in [Geocoders -> [Entities -> Fingerprints]] /\ seen[w] \in [Entities -> Fingerprints]
  BY NoneFits DEF Discover, GeocodeInv, GeocodeTypeOK, PassTypes
<1>2. /\ Goto(w, "claiming") /\ "claiming" \in Places /\ "claiming" \notin Answering
      /\ workerLock' = w /\ workerLock = w /\ UNCHANGED <<address, workerLock, faults>>
      /\ UNCHANGED <<target, mine, result>>
  BY DEF Discover, Places, Answering, GeocodeInv, OnePass
<1>3. PassTypes' /\ OnePass' /\ Answers' /\ ClaimsGoOn
  BY <1>1, <1>2, PassGoesOn
<1>4. RowTypes' /\ fresh' \in [Geocoders -> BOOLEAN] /\ ClaimsFit' /\ RequestsFit'
  BY <1>1, <1>3, SynchronizedRows DEF Discover
<1>5. QED
  BY <1>2, <1>3, <1>4 DEF GeocodeInv, GeocodeTypeOK

\* A claim enters a new generation if the request was checked in the last one.
LEMMA ClaimRequestInv ==
    ASSUME GeocodeInv, NEW w \in Geocoders, NEW e \in Entities, ClaimRequest(w, e) PROVE GeocodeInv'
<1> USE DEF GeocodeInv
<1>1. RowTypes'
  <2>1. GeocodeLease \in 0 .. GeocodeLease
    OBVIOUS
  <2>2. state' \in [Entities -> RequestStatuses]
    BY DEF ClaimRequest, GeocodeTypeOK, RowTypes, RequestStatuses
  <2>3. checked' \in [Entities -> BOOLEAN]
    BY DEF ClaimRequest, GeocodeTypeOK, RowTypes
  <2>4. holder' \in [Entities -> Geocoders \cup {NoGeocoder}] /\ left' \in [Entities -> 0 .. GeocodeLease]
    BY <2>1 DEF ClaimRequest, GeocodeTypeOK, RowTypes
  <2>5. suggestion' \in [Entities -> Fingerprints]
    BY NoneFits DEF ClaimRequest, GeocodeTypeOK, RowTypes
  <2>6. QED
    BY <2>2, <2>3, <2>4, <2>5 DEF ClaimRequest, RowTypes, GeocodeTypeOK
<1>2. PassTypes'
  <2>1. fingerprint[e] \in Fingerprints
    BY DEF GeocodeTypeOK, RowTypes
  <2>2. QED
    BY <2>1 DEF ClaimRequest, Goto, GeocodeTypeOK, PassTypes, Places
<1>3. /\ fresh' \in [Geocoders -> BOOLEAN]
      /\ \A v \in Geocoders \ {w} : fresh'[v] => fresh[v]
  BY DEF ClaimRequest, GeocodeTypeOK
<1>4. /\ target'[w] = e /\ mine'[w] = fingerprint[e]
      /\ \A v \in Geocoders \ {w} : target'[v] = target[v] /\ mine'[v] = mine[v] /\ place'[v] = place[v]
      /\ place'[w] = "claimed" /\ workerLock' = workerLock /\ workerLock = w
  BY DEF ClaimRequest, Goto, GeocodeTypeOK, PassTypes, OnePass
<1>5. OnePass' /\ Answers'
  BY <1>4 DEF OnePass, Answers
<1>6. ClaimsFit'
  BY <1>3, <1>4 DEF ClaimsFit, ClaimRequest
<1>7. RequestsFit'
  <2> SUFFICES ASSUME NEW d \in Entities PROVE RequestFits(d)'
    BY DEF RequestsFit
  <2>1. CASE d = e
    <3>1. state'[e] = "checking" /\ checked'[e] = FALSE /\ suggestion'[e] = (IF checked[e] THEN None ELSE suggestion[e])
      BY DEF ClaimRequest, GeocodeTypeOK, RowTypes
    <3>2. QED
      BY <2>1, <3>1 DEF RequestFits, RequestsFit
  <2>2. CASE d # e
    BY <2>2 DEF ClaimRequest, GeocodeTypeOK, RowTypes, RequestFits, RequestsFit
  <2>3. QED
    BY <2>1, <2>2
<1>8. QED
  BY <1>1, <1>2, <1>3, <1>5, <1>6, <1>7 DEF ClaimRequest, GeocodeTypeOK

LEMMA EndPassInv ==
    ASSUME GeocodeInv, NEW w \in Geocoders, EndPass(w) PROVE GeocodeInv'
<1>1. seen' \in [Geocoders -> [Entities -> Fingerprints]]
  BY DEF EndPass, GeocodeInv, GeocodeTypeOK, PassTypes
<1>2. /\ Goto(w, "idle") /\ "idle" \in Places /\ "idle" \notin Answering
      /\ workerLock' = NoGeocoder /\ workerLock = w /\ UNCHANGED <<address, rowVars, fresh, faults>>
      /\ UNCHANGED <<target, mine, result>>
  BY DEF EndPass, Places, Answering, GeocodeInv, OnePass
<1>3. PassTypes' /\ OnePass' /\ Answers' /\ ClaimsGoOn
  BY <1>1, <1>2, PassGoesOn
<1>4. QED
  BY <1>2, <1>3, RowsKept DEF GeocodeInv, GeocodeTypeOK

LEMMA RereadInv ==
    ASSUME GeocodeInv, NEW w \in Geocoders, NEW next \in {"asking", "finishing"},
           place[w] \in {"claimed", "asked"}, Reread(w, next)
    PROVE  GeocodeInv'
<1>1. seen' \in [Geocoders -> [Entities -> Fingerprints]]
  BY DEF Reread, GeocodeInv, GeocodeTypeOK, PassTypes
<1>2. PICK p \in {"obsolete", "changed", next} : Goto(w, p)
  BY DEF Reread
<1>3. /\ p \in Places /\ target[w] \in Entities
      /\ UNCHANGED workerLock /\ workerLock = w /\ UNCHANGED <<address, rowVars, fresh, faults>>
      /\ UNCHANGED <<target, mine, result>>
  BY DEF Reread, Places, Answering, GeocodeInv, OnePass, Answers
<1>4. PassTypes' /\ OnePass' /\ Answers' /\ ClaimsGoOn
  BY <1>1, <1>2, <1>3, PassGoesOn
<1>5. QED
  BY <1>3, <1>4, RowsKept DEF GeocodeInv, GeocodeTypeOK

LEMMA ObsoleteInv ==
    ASSUME GeocodeInv, NEW w \in Geocoders, Obsolete(w) PROVE GeocodeInv'
<1>1. PassTypes' /\ OnePass' /\ Answers' /\ ClaimsGoOn
  <2>1. /\ Goto(w, "claiming") /\ Leave(w) /\ place[w] # "idle" /\ workerLock' = workerLock
    BY DEF Obsolete
  <2>2. QED
    BY <2>1, PassLeaves
<1>2. MarkStale({target[w]}) /\ {target[w]} \in SUBSET Entities
  BY DEF Obsolete, GeocodeInv, Answers, Answering
<1>3. RowTypes' /\ fresh' = fresh /\ ClaimsFit' /\ RequestsFit'
  BY <1>1, <1>2, StaleRows
<1>4. QED
  BY <1>1, <1>3 DEF Obsolete, GeocodeInv, GeocodeTypeOK

LEMMA ChangedInv ==
    ASSUME GeocodeInv, NEW w \in Geocoders, Changed(w) PROVE GeocodeInv'
<1>1. PassTypes' /\ OnePass' /\ Answers' /\ ClaimsGoOn
  <2>1. /\ Goto(w, "claiming") /\ Leave(w) /\ place[w] # "idle" /\ workerLock' = workerLock
    BY DEF Changed
  <2>2. QED
    BY <2>1, PassLeaves
<1>2. Synchronize({target[w]}, seen[w]) /\ {target[w]} \in SUBSET Entities
      /\ seen[w] \in [Entities -> Fingerprints]
  BY DEF Changed, GeocodeInv, Answers, Answering, GeocodeTypeOK, PassTypes
<1>3. RowTypes' /\ fresh' \in [Geocoders -> BOOLEAN] /\ ClaimsFit' /\ RequestsFit'
  BY <1>1, <1>2, SynchronizedRows
<1>4. QED
  BY <1>1, <1>3 DEF Changed, GeocodeInv, GeocodeTypeOK

LEMMA AskInv ==
    ASSUME GeocodeInv, NEW w \in Geocoders, Ask(w) PROVE GeocodeInv'
<1> USE DEF GeocodeInv
<1>1. /\ UNCHANGED <<address, rowVars, workerLock, fresh, faults>> /\ workerLock = w
      /\ place[w] = "asking" /\ target[w] \in Entities
  BY DEF Ask, OnePass, Answers, Answering
<1>2. CASE Leave(w) /\ Goto(w, "claiming")
  BY <1>1, <1>2, PassLeaves, RowsKept DEF GeocodeTypeOK
<1>3. ASSUME NEW r \in {"candidate", "not_found", "failed", "insufficient_input"},
             result' = [result EXCEPT ![w] = r], Goto(w, "asked"), UNCHANGED <<target, mine, seen>>
      PROVE  GeocodeInv'
  <2>1. /\ place' \in [Geocoders -> Places] /\ place'[w] = "asked"
        /\ \A v \in Geocoders \ {w} : place'[v] = place[v]
    BY <1>3 DEF Goto, GeocodeTypeOK, PassTypes, Places
  <2>2. PassTypes'
    BY <1>3, <2>1 DEF GeocodeTypeOK, PassTypes
  <2>3. OnePass' /\ Answers' /\ ClaimsGoOn
    BY <1>1, <1>3, <2>1 DEF OnePass, Answers, ClaimsGoOn
  <2>4. QED
    BY <1>1, <2>2, <2>3, RowsKept DEF GeocodeTypeOK
<1>4. QED
  BY <1>2, <1>3 DEF Ask

\* The fence: what is published is of the generation that was claimed.
LEMMA FinishInv ==
    ASSUME GeocodeInv, NEW w \in Geocoders, Finish(w) PROVE GeocodeInv'
<1> USE DEF GeocodeInv
<1>1. PassTypes' /\ OnePass' /\ Answers' /\ ClaimsGoOn
  <2>1. /\ Goto(w, "claiming") /\ Leave(w) /\ place[w] # "idle" /\ workerLock' = workerLock
    BY DEF Finish
  <2>2. QED
    BY <2>1, PassLeaves
<1>2. /\ UNCHANGED <<address, fingerprint, workerLock, fresh, faults>>
      /\ target[w] \in Entities
  BY DEF Finish, Answers, Answering
<1>3. ClaimsFit'
  BY <1>1, <1>2 DEF ClaimsFit, ClaimsGoOn
<1>4. CASE Fenced(w)
  <2>1. PICK e \in Entities : e = target[w]
    BY <1>2
  <2>2. mine[w] = fingerprint[e] /\ state[e] = "checking" /\ mine[w] \in Fingerprints /\ result[w] \in RequestStatuses
    BY <1>4, <2>1 DEF Fenced, ClaimsFit, GeocodeTypeOK, PassTypes, RequestStatuses
  <2>3. PICK kept : kept = (IF result[w] = "candidate" THEN mine[w] ELSE suggestion[e])
    OBVIOUS
  <2>4. /\ suggestion' = [suggestion EXCEPT ![e] = kept] /\ state' = [state EXCEPT ![e] = result[w]]
        /\ checked' = [checked EXCEPT ![e] = TRUE] /\ due' = [due EXCEPT ![e] = FALSE]
        /\ holder' = [holder EXCEPT ![e] = NoGeocoder] /\ left' = [left EXCEPT ![e] = 0]
    BY <1>4, <2>1, <2>3 DEF Finish
  <2>5. kept \in Fingerprints
    BY <2>2, <2>3 DEF GeocodeTypeOK, RowTypes
  <2>6. RowTypes'
    <3>1. 0 \in 0 .. GeocodeLease
      OBVIOUS
    <3>2. state' \in [Entities -> RequestStatuses] /\ suggestion' \in [Entities -> Fingerprints]
      BY <2>2, <2>4, <2>5 DEF GeocodeTypeOK, RowTypes
    <3>3. checked' \in [Entities -> BOOLEAN] /\ due' \in [Entities -> BOOLEAN]
      BY <2>4 DEF GeocodeTypeOK, RowTypes
    <3>4. holder' \in [Entities -> Geocoders \cup {NoGeocoder}] /\ left' \in [Entities -> 0 .. GeocodeLease]
      BY <2>4, <3>1 DEF GeocodeTypeOK, RowTypes
    <3>5. QED
      BY <1>2, <3>2, <3>3, <3>4 DEF GeocodeTypeOK, RowTypes
  <2>7. RequestsFit'
    <3> SUFFICES ASSUME NEW d \in Entities PROVE RequestFits(d)'
      BY DEF RequestsFit
    <3>1. CASE d = e
      <4>1. state'[e] = result[w] /\ checked'[e] = TRUE /\ suggestion'[e] = kept
        BY <2>4 DEF GeocodeTypeOK, RowTypes
      <4>2. result[w] # "checking"
        BY DEF GeocodeTypeOK, PassTypes
      <4>3. QED
        BY <1>2, <2>2, <2>3, <3>1, <4>1, <4>2 DEF RequestFits
    <3>2. CASE d # e
      BY <1>2, <2>4, <3>2 DEF RequestFits, RequestsFit, GeocodeTypeOK, RowTypes
    <3>3. QED
      BY <3>1, <3>2
  <2>8. QED
    BY <1>1, <1>2, <1>3, <2>6, <2>7 DEF GeocodeTypeOK
<1>5. CASE ~ Fenced(w)
  <2>1. UNCHANGED rowVars
    BY <1>2, <1>5 DEF Finish, rowVars
  <2>2. QED
    BY <1>1, <1>2, <2>1, RowsKept DEF GeocodeTypeOK
<1>6. QED
  BY <1>4, <1>5

LEMMA DieInv ==
    ASSUME GeocodeInv, NEW w \in Geocoders, Die(w) PROVE GeocodeInv'
<1>1. PassTypes' /\ OnePass' /\ Answers' /\ ClaimsGoOn
  <2>1. /\ Goto(w, "idle") /\ Leave(w) /\ place[w] # "idle"
    BY DEF Die
  <2>2. QED
    BY <2>1, PassLeaves
<1>2. UNCHANGED <<address, rowVars, fresh>> /\ workerLock' = NoGeocoder /\ faults' \in Nat
  BY DEF Die, GeocodeInv, GeocodeTypeOK
<1>3. QED
  BY <1>1, <1>2, RowsKept DEF GeocodeInv, GeocodeTypeOK

----------------------------------------------------------------------------
(* Administrators, time and the source.                                    *)

LEMMA PassesKept ==
    ASSUME GeocodeInv, UNCHANGED <<workerLock, place, target, mine, seen, result>>
    PROVE  PassTypes' /\ OnePass' /\ Answers' /\ ClaimsGoOn
  BY DEF GeocodeInv, GeocodeTypeOK, PassTypes, OnePass, Answers, ClaimsGoOn

LEMMA RetryInv ==
    ASSUME GeocodeInv, NEW e \in Entities, Retry(e) PROVE GeocodeInv'
<1>1. /\ FreshValues({e}, address) /\ address \in [Entities -> Fingerprints]
      /\ UNCHANGED <<address, workerLock, place, target, mine, seen, result, faults>>
  BY DEF Retry, GeocodeInv, GeocodeTypeOK
<1>2. PassTypes' /\ OnePass' /\ Answers' /\ ClaimsGoOn
  BY <1>1, PassesKept
<1>3. RowTypes' /\ fresh' \in [Geocoders -> BOOLEAN] /\ ClaimsFit' /\ RequestsFit'
  BY <1>1, <1>2, FreshRows
<1>4. QED
  BY <1>1, <1>2, <1>3 DEF GeocodeInv, GeocodeTypeOK

\* Steps that leave everything alone that the invariant speaks of.
LEMMA RetryDueInv ==
    ASSUME GeocodeInv, NEW e \in Entities, RetryDue(e) PROVE GeocodeInv'
<1>1. due' \in [Entities -> BOOLEAN]
  BY DEF RetryDue, GeocodeInv, GeocodeTypeOK, RowTypes
<1>2. /\ UNCHANGED <<address, state, fingerprint, checked, holder, left, suggestion, workerLock, faults>>
      /\ UNCHANGED <<place, target, mine, fresh, seen, result>>
  BY DEF RetryDue, passVars
<1>3. PassTypes' /\ OnePass' /\ Answers' /\ ClaimsGoOn
  BY <1>2, PassesKept
<1>4. QED
  BY <1>1, <1>2, <1>3
  DEF GeocodeInv, GeocodeTypeOK, RowTypes, ClaimsFit, RequestsFit, RequestFits

LEMMA GeocodeTickInv ==
    ASSUME GeocodeInv, GeocodeTick PROVE GeocodeInv'
<1>1. left' \in [Entities -> 0 .. GeocodeLease] /\ faults' \in Nat
  <2>1. \A e \in Entities : (IF left[e] > 0 THEN left[e] - 1 ELSE 0) \in 0 .. GeocodeLease
    BY DEF GeocodeInv, GeocodeTypeOK, RowTypes
  <2>2. faults' \in {faults, faults + 1} /\ faults \in Nat
    BY DEF GeocodeTick, GeocodeInv, GeocodeTypeOK
  <2>3. QED
    BY <2>1, <2>2 DEF GeocodeTick
<1>2. /\ UNCHANGED <<address, state, fingerprint, checked, due, holder, suggestion, workerLock>>
      /\ UNCHANGED <<place, target, mine, fresh, seen, result>>
  BY DEF GeocodeTick, passVars
<1>3. PassTypes' /\ OnePass' /\ Answers' /\ ClaimsGoOn
  BY <1>2, PassesKept
<1>4. QED
  BY <1>1, <1>2, <1>3
  DEF GeocodeInv, GeocodeTypeOK, RowTypes, ClaimsFit, RequestsFit, RequestFits

LEMMA AddressChangesInv ==
    ASSUME GeocodeInv, NEW e \in Entities, NEW v \in {None} \cup Addresses, AddressChanges(e, v)
    PROVE  GeocodeInv'
<1>1. address' \in [Entities -> Fingerprints]
  BY DEF AddressChanges, GeocodeInv, GeocodeTypeOK, Fingerprints
<1>2. /\ UNCHANGED <<rowVars, workerLock, faults>>
      /\ UNCHANGED <<place, target, mine, fresh, seen, result>>
  BY DEF AddressChanges, passVars
<1>3. PassTypes' /\ OnePass' /\ Answers' /\ ClaimsGoOn
  BY <1>2, PassesKept
<1>4. QED
  BY <1>1, <1>2, <1>3, RowsKept DEF GeocodeInv, GeocodeTypeOK

----------------------------------------------------------------------------
LEMMA GeocodeInvStep == GeocodeInv /\ [GeocodeNext]_geocodeVars => GeocodeInv'
<1> SUFFICES ASSUME GeocodeInv, [GeocodeNext]_geocodeVars PROVE GeocodeInv'
  OBVIOUS
<1>1. ASSUME NEW w \in Geocoders, Step(w) PROVE GeocodeInv'
  <2>1. CASE Check(w)
    BY <2>1, RereadInv DEF Check
  <2>2. CASE Recheck(w)
    BY <2>2, RereadInv DEF Recheck
  <2>3. QED
    BY <1>1, <2>1, <2>2, StartInv, ReconcileInv, AdoptInv, DiscoverInv, ClaimRequestInv,
       ObsoleteInv, ChangedInv, AskInv, FinishInv DEF Step
<1>2. ASSUME NEW w \in Geocoders, EndPass(w) \/ Die(w) PROVE GeocodeInv'
  BY <1>2, EndPassInv, DieInv
<1>3. ASSUME NEW e \in Entities, Retry(e) \/ RetryDue(e) PROVE GeocodeInv'
  BY <1>3, RetryInv, RetryDueInv
<1>4. CASE GeocodeTick
  BY <1>4, GeocodeTickInv
<1>5. ASSUME NEW e \in Entities, NEW v \in {None} \cup Addresses, AddressChanges(e, v)
      PROVE GeocodeInv'
  BY <1>5, AddressChangesInv
<1>6. CASE UNCHANGED geocodeVars
  <2>1. /\ UNCHANGED <<rowVars, workerLock, faults, address>>
        /\ UNCHANGED <<place, target, mine, fresh, seen, result>>
    BY <1>6 DEF geocodeVars, passVars
  <2>2. QED
    BY <2>1, PassesKept, RowsKept DEF GeocodeInv, GeocodeTypeOK
<1>7. QED
  BY <1>1, <1>2, <1>3, <1>4, <1>5, <1>6 DEF GeocodeNext

LEMMA GeocodeInvariant == GeocodeSpec => []GeocodeInv
<1>1. GeocodeInit => GeocodeInv
  BY GeocodeInvInit
<1>2. GeocodeInv /\ [GeocodeNext]_geocodeVars => GeocodeInv'
  BY GeocodeInvStep
<1>3. QED
  BY <1>1, <1>2, PTL DEF GeocodeSpec

\* Every variable has its type.
THEOREM GeocodeTypeCorrect == GeocodeSpec => []GeocodeTypeOK
<1>1. GeocodeInv => GeocodeTypeOK
  BY DEF GeocodeInv
<1>2. QED
  BY <1>1, GeocodeInvariant, PTL

\* enrich (repositories/geocode.py): a suggestion shown for an owner was computed
\* for the address the owner has at that moment, whatever changed, and whoever
\* took the request over, while the provider was asked.
THEOREM SuggestionsFit == GeocodeSpec => []ShownFitsSource
<1>1. GeocodeInv => ShownFitsSource
  BY DEF GeocodeInv, RequestsFit, RequestFits, ShownFitsSource, Shown
<1>2. QED
  BY <1>1, GeocodeInvariant, PTL

----------------------------------------------------------------------------
\* finish (repositories/geocode.py): the candidates of a generation are immutable.
\* Another worker or a retry may clear them, with a new generation, but no step
\* puts others in their place.
CandidatesStay(e) == suggestion[e] # None => suggestion'[e] \in {suggestion[e], None}
CandidatesImmutable == [][\A e \in Entities : CandidatesStay(e)]_geocodeVars

LEMMA CandidatesStep == GeocodeInv /\ [GeocodeNext]_geocodeVars => \A e \in Entities : CandidatesStay(e)
<1> SUFFICES ASSUME GeocodeInv, [GeocodeNext]_geocodeVars, NEW e \in Entities PROVE CandidatesStay(e)
  OBVIOUS
<1> USE DEF CandidatesStay
<1>1. ASSUME NEW S, NewGeneration(S) PROVE CandidatesStay(e)
  BY <1>1 DEF NewGeneration
<1>2. ASSUME NEW w \in Geocoders, Adopt(w) \/ Discover(w) \/ Changed(w) PROVE CandidatesStay(e)
  BY <1>1, <1>2 DEF Adopt, Discover, Changed, Synchronize, FreshValues
<1>3. ASSUME NEW d \in Entities, Retry(d) PROVE CandidatesStay(e)
  BY <1>1, <1>3 DEF Retry, FreshValues
<1>4. ASSUME NEW w \in Geocoders, NEW d \in Entities, ClaimRequest(w, d) PROVE CandidatesStay(e)
  BY <1>4 DEF ClaimRequest, GeocodeInv, GeocodeTypeOK, RowTypes
<1>5. ASSUME NEW w \in Geocoders, Finish(w) PROVE CandidatesStay(e)
  <2>1. CASE ~ Fenced(w)
    BY <1>5, <2>1 DEF Finish
  <2>2. CASE Fenced(w)
    <3>1. PICK d \in Entities : d = target[w]
      BY <1>5 DEF Finish, GeocodeInv, Answers, Answering
    <3>2. suggestion[d] = None
      BY <2>2, <3>1 DEF Fenced, GeocodeInv, RequestsFit, RequestFits
    <3>3. suggestion' = [suggestion EXCEPT ![d] = IF result[w] = "candidate" THEN mine[w] ELSE @]
      BY <1>5, <2>2, <3>1 DEF Finish
    <3>4. QED
      BY <3>2, <3>3 DEF GeocodeInv, GeocodeTypeOK, RowTypes
  <2>3. QED
    BY <2>1, <2>2
<1>6. ASSUME UNCHANGED suggestion PROVE CandidatesStay(e)
  BY <1>6
<1>7. ASSUME NEW w \in Geocoders, Step(w) PROVE CandidatesStay(e)
  BY <1>2, <1>4, <1>5, <1>6, <1>7
  DEF Step, Start, Reconcile, MarkStale, Check, Recheck, Reread, Obsolete, Ask, rowVars
<1>8. QED
  BY <1>3, <1>6, <1>7
  DEF GeocodeNext, geocodeVars, EndPass, Die, RetryDue, GeocodeTick, AddressChanges, rowVars

\* See CandidatesImmutable.
THEOREM CandidatesNeverReplaced == GeocodeSpec => CandidatesImmutable
<1>1. GeocodeInv /\ [GeocodeNext]_geocodeVars => [\A e \in Entities : CandidatesStay(e)]_geocodeVars
  BY CandidatesStep
<1>2. QED
  BY <1>1, GeocodeInvariant, PTL DEF GeocodeSpec, CandidatesImmutable
=============================================================================
