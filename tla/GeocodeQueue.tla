---------------------------- MODULE GeocodeQueue ----------------------------
(***************************************************************************)
(* Location suggestions for owners without coordinates: a worker pass      *)
(* reconciles geocode_request with the source, claims requests one by one, *)
(* asks the provider outside any transaction and publishes immutable       *)
(* candidates of one generation under a fence; an administrator may ask    *)
(* for a retry (geocode_worker.py, repositories/geocode.py).               *)
(*                                                                         *)
(* The source gives each entity the fingerprint of its address, 0 when it  *)
(* is gone or its point is no longer missing.  Generations are not         *)
(* counted: suggestion[e] holds the candidates of the current generation   *)
(* (the fingerprint they were computed for), and fresh[w] says that the    *)
(* generation worker w claimed is still the current one.                   *)
(***************************************************************************)
EXTENDS Naturals

CONSTANTS
    Entities,      \* organizations and venues
    Geocoders,     \* geocode worker processes
    MaxAddress,    \* bound: addresses an entity may have
    GeocodeLease,  \* geocode_lease_seconds
    MaxFaults,     \* bound: crashes and leases that run out under a worker
    NoGeocoder     \* NULL worker_id; the worker lock nobody holds

ASSUME GeocodeBounds ==
    MaxAddress \in Nat /\ MaxFaults \in Nat /\ GeocodeLease \in Nat \ {0}
ASSUME NoGeocoderAssumption == NoGeocoder \notin Geocoders

Addresses == 1..MaxAddress
None == 0
NoJob == "no job"
ASSUME NoJobAssumption == NoJob \notin Entities

VARIABLES
    address,      \* the owner's address fingerprint, 0: no suggestion needed
    state,        \* geocode_request.status, "absent" before the insert
    fingerprint,  \* source_fingerprint
    checked,      \* checked_at is not NULL
    due,          \* next_check_at has come
    holder,       \* worker_id
    left,         \* time left until lease_until
    suggestion,   \* candidates of the current generation, 0: none
    workerLock,   \* holder of advisory lock WORKER_LOCK
    place, target, mine, fresh, seen, result,  \* a pass: where it stands, the
                  \* entity claimed, its fingerprint and generation, the rows
                  \* read from the source, the provider's answer
    faults        \* crashes and overrun leases so far

rowVars == <<state, fingerprint, checked, due, holder, left, suggestion>>
passVars == <<place, target, mine, fresh, seen, result>>
geocodeVars == <<address, rowVars, workerLock, passVars, faults>>

RequestStatuses == {"absent", "pending", "checking", "candidate", "not_found",
                    "insufficient_input", "failed", "stale"}
\* "candidate" stands for candidate and ambiguous: the statuses with items.
Evaluated == {"candidate", "not_found", "insufficient_input", "failed"}
Places == {"idle", "reconciling", "marking", "adopting", "discovering",
           "claiming", "claimed", "obsolete", "changed", "asking", "asked",
           "finishing"}

Unseen == [e \in Entities |-> None]

GeocodeInit ==
    /\ address = Unseen
    /\ state = [e \in Entities |-> "absent"]
    /\ fingerprint = Unseen
    /\ checked = [e \in Entities |-> FALSE]
    /\ due = [e \in Entities |-> FALSE]
    /\ holder = [e \in Entities |-> NoGeocoder]
    /\ left = [e \in Entities |-> 0]
    /\ suggestion = Unseen
    /\ workerLock = NoGeocoder
    /\ place = [w \in Geocoders |-> "idle"]
    /\ target = [w \in Geocoders |-> NoJob]
    /\ mine = [w \in Geocoders |-> None]
    /\ fresh = [w \in Geocoders |-> FALSE]
    /\ seen = [w \in Geocoders |-> Unseen]
    /\ result = [w \in Geocoders |-> "pending"]
    /\ faults = 0

Goto(w, p) == place' = [place EXCEPT ![w] = p]
-----------------------------------------------------------------------------
(* What the operations write.                                              *)

\* The rows of S enter a new generation.
NewGeneration(S) ==
    /\ suggestion' = [e \in Entities |-> IF e \in S THEN None ELSE suggestion[e]]
    /\ fresh' = [w \in Geocoders |-> fresh[w] /\ target[w] \notin S]

\* fresh_values() for the rows of S, whose source rows are in read.
FreshValues(S, read) ==
    /\ state' = [e \in Entities |-> IF e \in S THEN "pending" ELSE state[e]]
    /\ fingerprint' = [e \in Entities |-> IF e \in S THEN read[e] ELSE fingerprint[e]]
    /\ checked' = [e \in Entities |-> IF e \in S THEN FALSE ELSE checked[e]]
    /\ due' = [e \in Entities |-> IF e \in S THEN TRUE ELSE due[e]]
    /\ holder' = [e \in Entities |-> IF e \in S THEN NoGeocoder ELSE holder[e]]
    /\ left' = [e \in Entities |-> IF e \in S THEN 0 ELSE left[e]]
    /\ NewGeneration(S)

\* synchronize(): new rows, rows whose address changed, and stale rows.
Synchronize(S, read) ==
    FreshValues({e \in S : /\ read[e] # None
                           /\ \/ state[e] \in {"absent", "stale"}
                              \/ fingerprint[e] # read[e]}, read)

\* mark_stale(): whatever state the rows of S are in.
MarkStale(S) ==
    /\ state' = [e \in Entities |-> IF e \in S THEN "stale" ELSE state[e]]
    /\ holder' = [e \in Entities |-> IF e \in S THEN NoGeocoder ELSE holder[e]]
    /\ left' = [e \in Entities |-> IF e \in S THEN 0 ELSE left[e]]
    /\ due' = [e \in Entities |-> IF e \in S THEN FALSE ELSE due[e]]
    /\ UNCHANGED <<fingerprint, checked, suggestion, fresh>>

\* fence(): the row is still this worker's, in this generation.
Fenced(w) ==
    /\ state[target[w]] = "checking"
    /\ holder[target[w]] = w
    /\ fresh[w]
    /\ left[target[w]] > 0
-----------------------------------------------------------------------------
(* A pass of the worker, which holds the session lock throughout.          *)

LockFree == workerLock = NoGeocoder

Start(w) ==
    /\ place[w] = "idle"
    /\ LockFree
    /\ workerLock' = w
    /\ seen' = [seen EXCEPT ![w] = address]
    /\ Goto(w, "reconciling")
    /\ UNCHANGED <<address, rowVars, target, mine, fresh, result, faults>>

\* Requests of owners seen gone or located become stale.
Reconcile(w) ==
    /\ place[w] = "reconciling"
    /\ MarkStale({e \in Entities : state[e] # "absent" /\ seen[w][e] = None})
    /\ Goto(w, "adopting")
    /\ UNCHANGED <<address, workerLock, target, mine, seen, result, faults>>

\* Then the other existing requests follow the source rows.
Adopt(w) ==
    /\ place[w] = "adopting"
    /\ Synchronize({e \in Entities : state[e] # "absent"}, seen[w])
    /\ seen' = [seen EXCEPT ![w] = address]
    /\ Goto(w, "discovering")
    /\ UNCHANGED <<address, workerLock, target, mine, result, faults>>

\* Then every owner without a point, from another snapshot.
Discover(w) ==
    /\ place[w] = "discovering"
    /\ Synchronize(Entities, seen[w])
    /\ seen' = [seen EXCEPT ![w] = Unseen]
    /\ Goto(w, "claiming")
    /\ UNCHANGED <<address, workerLock, target, mine, result, faults>>

\* Mutant: requests whose worker died are not claimed again.
ClaimableWaiting ==
    {e \in Entities : state[e] \in {"pending", "failed", "not_found"} /\ due[e]}
Claimable ==
    {e \in Entities : \/ state[e] \in {"pending", "failed", "not_found"} /\ due[e]
                      \/ state[e] = "checking" /\ left[e] = 0}

\* claim(): a request that was checked before enters a new generation.
ClaimRequest(w, e) ==
    /\ place[w] = "claiming"
    /\ e \in Claimable
    /\ state' = [state EXCEPT ![e] = "checking"]
    /\ holder' = [holder EXCEPT ![e] = w]
    /\ left' = [left EXCEPT ![e] = GeocodeLease]
    /\ checked' = [checked EXCEPT ![e] = FALSE]
    /\ suggestion' = [suggestion EXCEPT ![e] = IF checked[e] THEN None ELSE @]
    /\ fresh' = [v \in Geocoders |-> IF v = w THEN TRUE
                                   ELSE fresh[v] /\ ~(checked[e] /\ target[v] = e)]
    /\ target' = [target EXCEPT ![w] = e]
    /\ mine' = [mine EXCEPT ![w] = fingerprint[e]]
    /\ Goto(w, "claimed")
    /\ UNCHANGED <<address, fingerprint, due, workerLock, seen, result, faults>>

\* Nothing is due, or the batch size is reached: the lock is released.
EndPass(w) ==
    /\ place[w] = "claiming"
    /\ workerLock' = NoGeocoder
    /\ Goto(w, "idle")
    /\ UNCHANGED <<address, rowVars, target, mine, fresh, seen, result, faults>>

\* The source is read again before and after the provider is asked.
Reread(w, next) ==
    /\ seen' = [seen EXCEPT ![w] = address]
    /\ Goto(w, IF address[target[w]] = None THEN "obsolete"
               ELSE IF address[target[w]] # mine[w] THEN "changed" ELSE next)
    /\ UNCHANGED <<address, rowVars, workerLock, target, mine, fresh, result, faults>>

Check(w) == place[w] = "claimed" /\ Reread(w, "asking")
Recheck(w) == place[w] = "asked" /\ Reread(w, "finishing")

\* The claim is over; local variables are dropped.
Leave(w) ==
    /\ target' = [target EXCEPT ![w] = NoJob]
    /\ mine' = [mine EXCEPT ![w] = None]
    /\ seen' = [seen EXCEPT ![w] = Unseen]
    /\ result' = [result EXCEPT ![w] = "pending"]

Obsolete(w) ==
    /\ place[w] = "obsolete"
    /\ MarkStale({target[w]})
    /\ Leave(w)
    /\ Goto(w, "claiming")
    /\ UNCHANGED <<address, workerLock, faults>>

Changed(w) ==
    /\ place[w] = "changed"
    /\ Synchronize({target[w]}, seen[w])
    /\ Leave(w)
    /\ Goto(w, "claiming")
    /\ UNCHANGED <<address, workerLock, faults>>

\* begin_attempt() is fenced; an address that cannot be asked about is not
\* sent to the provider.
Ask(w) ==
    /\ place[w] = "asking"
    /\ \/ /\ Fenced(w)
          /\ \E r \in {"candidate", "not_found", "failed"} :
                result' = [result EXCEPT ![w] = r]
          /\ Goto(w, "asked")
          /\ UNCHANGED <<target, mine, seen>>
       \/ /\ ~Fenced(w)
          /\ Leave(w)
          /\ Goto(w, "claiming")
       \/ /\ result' = [result EXCEPT ![w] = "insufficient_input"]
          /\ Goto(w, "asked")
          /\ UNCHANGED <<target, mine, seen>>
    /\ UNCHANGED <<address, rowVars, workerLock, fresh, faults>>

\* finish(): candidates are inserted and the request leaves "checking".
Finish(w) ==
    /\ place[w] = "finishing"
    /\ LET e == target[w]
       IN  IF Fenced(w)
           THEN /\ suggestion' = [suggestion EXCEPT ![e] =
                                    IF result[w] = "candidate" THEN mine[w] ELSE @]
                /\ state' = [state EXCEPT ![e] = result[w]]
                /\ checked' = [checked EXCEPT ![e] = TRUE]
                /\ due' = [due EXCEPT ![e] = FALSE]
                /\ holder' = [holder EXCEPT ![e] = NoGeocoder]
                /\ left' = [left EXCEPT ![e] = 0]
           ELSE UNCHANGED <<suggestion, state, checked, due, holder, left>>
    /\ Leave(w)
    /\ Goto(w, "claiming")
    /\ UNCHANGED <<address, fingerprint, workerLock, fresh, faults>>

\* The process dies or loses its connection, and with it the session lock.
Die(w) ==
    /\ place[w] # "idle"
    /\ faults < MaxFaults
    /\ faults' = faults + 1
    /\ workerLock' = NoGeocoder
    /\ Leave(w)
    /\ Goto(w, "idle")
    /\ UNCHANGED <<address, rowVars, fresh>>
-----------------------------------------------------------------------------
(* Administrators, time and the source.                                    *)

\* retry(): under the request's row lock.
Retry(e) ==
    /\ state[e] \notin {"absent", "pending", "checking"}
    /\ address[e] # None
    /\ FreshValues({e}, address)
    /\ UNCHANGED <<address, workerLock, place, target, mine, seen, result, faults>>

RetryDue(e) ==
    /\ state[e] \in {"failed", "not_found"}
    /\ ~due[e]
    /\ due' = [due EXCEPT ![e] = TRUE]
    /\ UNCHANGED <<address, state, fingerprint, checked, holder, left, suggestion,
                   workerLock, passVars, faults>>

\* A lease that runs out under its worker is a fault: the lease is longer than
\* an evaluation takes.
GeocodeTick ==
    /\ \E e \in Entities : left[e] > 0
    /\ LET overrun == \E w \in Geocoders : target[w] # NoJob /\ left[target[w]] = 1
       IN  /\ overrun => faults < MaxFaults
           /\ faults' = IF overrun THEN faults + 1 ELSE faults
    /\ left' = [e \in Entities |-> IF left[e] > 0 THEN left[e] - 1 ELSE 0]
    /\ UNCHANGED <<address, state, fingerprint, checked, due, holder, suggestion,
                   workerLock, passVars>>

AddressChanges(e, v) ==
    /\ address[e] # v
    /\ address' = [address EXCEPT ![e] = v]
    /\ UNCHANGED <<rowVars, workerLock, passVars, faults>>

Step(w) ==
    \/ Start(w) \/ Reconcile(w) \/ Adopt(w) \/ Discover(w)
    \/ \E e \in Entities : ClaimRequest(w, e)
    \/ Check(w) \/ Obsolete(w) \/ Changed(w) \/ Ask(w) \/ Recheck(w) \/ Finish(w)

GeocodeNext ==
    \/ \E w \in Geocoders : Step(w) \/ EndPass(w) \/ Die(w)
    \/ \E e \in Entities : Retry(e) \/ RetryDue(e)
    \/ GeocodeTick
    \/ \E e \in Entities, v \in {None} \cup Addresses : AddressChanges(e, v)

\* Passes start again and proceed, a pass ends, retry delays and leases run out.
GeocodeFairness ==
    /\ \A w \in Geocoders : WF_geocodeVars(Step(w)) /\ WF_geocodeVars(EndPass(w))
    /\ \A e \in Entities : SF_geocodeVars(\E w \in Geocoders : ClaimRequest(w, e))
    /\ \A e \in Entities : WF_geocodeVars(RetryDue(e))
    /\ WF_geocodeVars(GeocodeTick)
-----------------------------------------------------------------------------
(* Properties.                                                             *)

\* Mutant: candidates are shown whatever the source says.
ShownUnchecked(e) == IF state[e] = "candidate" THEN suggestion[e] ELSE None
\* enrich(): what a reader is shown.
Shown(e) ==
    IF address[e] = fingerprint[e] /\ state[e] = "candidate" THEN suggestion[e] ELSE None

\* A suggestion shown for an owner was computed for the address the owner has
\* now, whatever changed while the provider was asked.
ShownFitsSource == \A e \in Entities : Shown(e) # None => Shown(e) = address[e]

\* Once an owner's address stays as it is, its request is evaluated for it, and
\* becomes stale if no suggestion is needed.
Settles ==
    \A e \in Entities :
        /\ \A v \in Addresses :
            <>[](address[e] = v) => []<>(state[e] \in Evaluated /\ fingerprint[e] = v)
        /\ <>[](address[e] = None) => <>[](state[e] \in {"absent", "stale"})
=============================================================================
