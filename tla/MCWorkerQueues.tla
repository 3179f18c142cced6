--------------------------- MODULE MCWorkerQueues ---------------------------
(* The two queues whose workers hold leases, the check runs and the geocode *)
(* requests. They share no state, so in each behaviour one of them moves    *)
(* and the other stays as it starts; fairness is asked of the one that      *)
(* moves. All workers are told apart: liveness excludes symmetry.           *)
EXTENDS CheckQueue, GeocodeQueue, TLC

VARIABLE part
allVars == <<vars, geocodeVars, part>>

QueuesInit == part \in {"checks", "geocodes"} /\ Init /\ GeocodeInit
QueuesNext ==
    /\ UNCHANGED part
    /\ \/ part = "checks" /\ Next /\ UNCHANGED geocodeVars
       \/ part = "geocodes" /\ GeocodeNext /\ UNCHANGED vars
QueuesSpec ==
    /\ QueuesInit /\ [][QueuesNext]_allVars
    /\ part = "checks" => Fairness
    /\ part = "geocodes" => GeocodeFairness
=============================================================================
