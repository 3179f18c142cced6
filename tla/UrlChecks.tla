------------------------------ MODULE UrlChecks ------------------------------
(***************************************************************************)
(* The reachability worker: each cycle copies the public URLs of a source  *)
(* snapshot into url_check, runs a bounded number of chains at a time, one *)
(* per host, each of which claims a due row, asks the network outside any  *)
(* transaction and records the observation under a fence, together with    *)
(* the url_unreachable finding of that field (url_check_worker.py).        *)
(*                                                                         *)
(* A URL is a value of Evidence: the evidence of a finding is the URL it   *)
(* was detected for (url_fingerprint). The kind of failure, which can only *)
(* make a finding reviewed as an exception open again, is left out. All    *)
(* fields fit in one page.                                                 *)
(***************************************************************************)
EXTENDS Naturals, FiniteSets, FindingTable

CONSTANTS
    Fields,       \* source fields that may hold a public URL
    Host,         \* the host a URL points to
    Workers,      \* url worker processes
    Batch,        \* url_check_batch_size
    Concurrency,  \* url_check_concurrency
    Lease,        \* time units of the 120 second lease
    MaxFaults,    \* bound: crashes and leases that run out under a worker
    Nobody        \* NULL worker_id

Urls == Evidence
NoUrl == NoEvidence

ASSUME UrlBounds ==
    /\ Batch \in Nat \ {0}
    /\ Concurrency \in Nat \ {0}
    /\ Lease \in Nat \ {0}
    /\ MaxFaults \in Nat
ASSUME HostAssumption == DOMAIN Host = Urls
ASSUME NobodyIsNoWorker == Nobody \notin Workers

VARIABLES
    source,    \* the URL each field holds in the source
    url,       \* url_check.url, NoUrl before the insert
    failures,  \* failure_count, as far as 2
    due,       \* next_check_at has come
    owner,     \* worker_id
    lease,     \* time left until lease_until
    table,     \* the url_unreachable finding of each field
    snapshot,  \* the URLs of the running cycle's read-only transaction
    chain,     \* where process() stands for each field in each worker
    target,    \* the URL of a chain's claim
    processed, \* URLs claimed in this cycle
    faults,    \* crashes and overrun leases so far
    observed   \* history: of the last recorded observation of each field, the URL,
               \* the answer, and the failures of that URL in a row, as far as 2

rowVars == <<url, failures, due, owner, lease>>
cycleVars == <<snapshot, chain, target, processed>>
vars == <<source, rowVars, table, cycleVars, faults, observed>>

Outcomes == {"reachable", "failed", "other"}
Unobserved == [url |-> NoUrl, answer |-> "other", streak |-> 0]
Observation(last, u, a) ==
    [url |-> u, answer |-> a,
     streak |-> IF a # "failed" THEN 0
                ELSE IF last.url = u /\ last.streak > 0 THEN 2 ELSE 1]

\* Chains inside the host's lock, and chains that hold a slot: the slot is
\* taken first and kept while the chain queues for the lock.
Running(w) == {f \in Fields : chain[w][f] \in {"entered", "asking", "pausing"}}
Slotted(w) == {f \in Fields : chain[w][f] \in {"queued", "entered", "asking", "pausing"}}

Init ==
    /\ source \in [Fields -> Urls \cup {NoUrl}]
    /\ url = [f \in Fields |-> NoUrl]
    /\ failures = [f \in Fields |-> 0]
    /\ due = [f \in Fields |-> FALSE]
    /\ owner = [f \in Fields |-> Nobody]
    /\ lease = [f \in Fields |-> 0]
    /\ table = [f \in Fields |-> NoRow]
    /\ snapshot = [w \in Workers |-> [f \in Fields |-> NoUrl]]
    /\ chain = [w \in Workers |-> [f \in Fields |-> "none"]]
    /\ target = [w \in Workers |-> [f \in Fields |-> NoUrl]]
    /\ processed = [w \in Workers |-> 0]
    /\ faults = 0
    /\ observed = [f \in Fields |-> Unobserved]

Goto(w, f, p) == chain' = [chain EXCEPT ![w][f] = p]
\* The chain returns: what it held is forgotten.
Leave(w, f) ==
    /\ Goto(w, f, "none")
    /\ snapshot' = [snapshot EXCEPT ![w][f] = NoUrl]
-----------------------------------------------------------------------------
(* A cycle.                                                                *)

\* The snapshot of the source is taken; discovery writes what it shows later.
BeginCycle(w) ==
    /\ \A f \in Fields : chain[w][f] = "none"
    /\ snapshot' = [snapshot EXCEPT ![w] = source]
    /\ chain' = [chain EXCEPT ![w] =
                    [f \in Fields |-> IF source[f] # NoUrl THEN "read" ELSE "none"]]
    /\ processed' = [processed EXCEPT ![w] = 0]
    /\ UNCHANGED <<source, rowVars, table, target, faults, observed>>

\* Mutant: a changed URL inherits the failures of the old one.
CountKept(f) == failures[f]
CountReset(f) == 0
LeaseReset(f) == 0

\* discover(): rows appear, and a changed URL starts over and loses its claim.
Discover(w) ==
    /\ \E f \in Fields : chain[w][f] = "read"
    /\ LET changed == {f \in Fields : snapshot[w][f] # NoUrl /\ url[f] # snapshot[w][f]}
       IN  /\ url' = [f \in Fields |-> IF f \in changed THEN snapshot[w][f] ELSE url[f]]
           /\ failures' = [f \in Fields |-> IF f \in changed THEN CountReset(f) ELSE failures[f]]
           /\ due' = [f \in Fields |-> f \in changed \/ due[f]]
           /\ owner' = [f \in Fields |-> IF f \in changed THEN Nobody ELSE owner[f]]
           /\ lease' = [f \in Fields |-> IF f \in changed THEN LeaseReset(f) ELSE lease[f]]
    /\ chain' = [chain EXCEPT ![w] =
                    [f \in Fields |-> IF @[f] = "read" THEN "waiting" ELSE @[f]]]
    /\ UNCHANGED <<source, table, snapshot, target, processed, faults, observed>>

TakeSlot(w, f) ==
    /\ chain[w][f] = "waiting"
    /\ Cardinality(Slotted(w)) < Concurrency
    /\ Goto(w, f, "queued")
    /\ UNCHANGED <<source, rowVars, table, snapshot, target, processed, faults, observed>>

\* The lock is that of the URL in the snapshot.
HostFree(w, f) == \A g \in Running(w) : Host[snapshot[w][g]] # Host[snapshot[w][f]]

BudgetLeft(w) == processed[w] < Batch

\* The host's lock is taken, then the budget is looked at.
Enter(w, f) ==
    /\ chain[w][f] = "queued"
    /\ HostFree(w, f)
    /\ IF BudgetLeft(w)
       THEN Goto(w, f, "entered") /\ UNCHANGED snapshot
       ELSE Leave(w, f)
    /\ UNCHANGED <<source, rowVars, table, target, processed, faults, observed>>

\* Mutant: a claim whose worker died stays for ever.
ClaimableUnclaimed(f) == due[f] /\ owner[f] = Nobody
Claimable(f) == due[f] /\ lease[f] = 0

\* claim(), awaited after the budget was looked at; it takes the row's URL.
Claim(w, f) ==
    /\ chain[w][f] = "entered"
    /\ IF Claimable(f)
       THEN /\ owner' = [owner EXCEPT ![f] = w]
            /\ lease' = [lease EXCEPT ![f] = Lease]
            /\ target' = [target EXCEPT ![w][f] = url[f]]
            /\ processed' = [processed EXCEPT ![w] = @ + 1]
            /\ Goto(w, f, "asking")
            /\ UNCHANGED snapshot
       ELSE Leave(w, f) /\ UNCHANGED <<owner, lease, target, processed>>
    /\ UNCHANGED <<source, url, failures, due, table, faults, observed>>

\* finish(): the claim is still live and the URL is the one that was asked.
Fence(w, f) == owner[f] = w /\ lease[f] > 0 /\ url[f] = target[w][f]

\* The second failure in a row of one URL is a finding, a success resolves it;
\* nothing else touches the finding.
Finding(row, u, a, n) ==
    IF a = "failed" /\ n >= 2 THEN Recheck(row, u)
    ELSE IF a = "reachable" THEN Recheck(row, "fine") ELSE row

\* check_url answers, any time later, and finish() records the answer.
Finish(w, f, a) ==
    /\ chain[w][f] = "asking"
    /\ IF Fence(w, f)
       THEN LET u == target[w][f]
                n == IF a # "failed" THEN 0 ELSE IF failures[f] = 0 THEN 1 ELSE 2
            IN  /\ failures' = [failures EXCEPT ![f] = n]
                /\ due' = [due EXCEPT ![f] = FALSE]
                /\ owner' = [owner EXCEPT ![f] = Nobody]
                /\ lease' = [lease EXCEPT ![f] = 0]
                /\ table' = [table EXCEPT ![f] = Finding(@, u, a, n)]
                /\ observed' = [observed EXCEPT ![f] = Observation(@, u, a)]
       ELSE UNCHANGED <<failures, due, owner, lease, table, observed>>
    /\ target' = [target EXCEPT ![w][f] = NoUrl]
    /\ Goto(w, f, "pausing")
    /\ UNCHANGED <<source, url, snapshot, processed, faults>>

\* The pause of one second before the host's lock and the slot are freed.
Pause(w, f) ==
    /\ chain[w][f] = "pausing"
    /\ Leave(w, f)
    /\ UNCHANGED <<source, rowVars, table, target, processed, faults, observed>>

\* The process dies, or one chain raises and the task group cancels the rest.
Crash(w) ==
    /\ faults < MaxFaults
    /\ \E f \in Fields : chain[w][f] # "none"
    /\ faults' = faults + 1
    /\ snapshot' = [snapshot EXCEPT ![w] = [f \in Fields |-> NoUrl]]
    /\ chain' = [chain EXCEPT ![w] = [f \in Fields |-> "none"]]
    /\ target' = [target EXCEPT ![w] = [f \in Fields |-> NoUrl]]
    /\ UNCHANGED <<source, rowVars, table, processed, observed>>
-----------------------------------------------------------------------------
(* Time, the source and reviews.                                           *)

DueAgain(f) ==
    /\ url[f] # NoUrl /\ ~due[f]
    /\ due' = [due EXCEPT ![f] = TRUE]
    /\ UNCHANGED <<source, url, failures, owner, lease, table, cycleVars, faults, observed>>

\* The lease is longer than a chain takes: overrunning it is a fault.
Tick ==
    /\ \E f \in Fields : lease[f] > 0
    /\ LET overrun == \E w \in Workers, f \in Fields :
                        lease[f] = 1 /\ owner[f] = w /\ chain[w][f] = "asking"
       IN  /\ overrun => faults < MaxFaults
           /\ faults' = IF overrun THEN faults + 1 ELSE faults
    /\ lease' = [f \in Fields |-> IF lease[f] > 0 THEN lease[f] - 1 ELSE 0]
    /\ UNCHANGED <<source, url, failures, due, owner, table, cycleVars, observed>>

SourceChanges(f, u) ==
    /\ source[f] # u
    /\ source' = [source EXCEPT ![f] = u]
    /\ UNCHANGED <<rowVars, table, cycleVars, faults, observed>>

\* A human reviews the finding (services/checks.py), under the lock that the
\* commit of a chain also takes.
Review(f, t) ==
    /\ table[f].status \notin {"none", "resolved"}
    /\ table' = [table EXCEPT ![f] = Reviewed(@, t)]
    /\ UNCHANGED <<source, rowVars, cycleVars, faults, observed>>

Step(w, f) ==
    \/ TakeSlot(w, f) \/ Enter(w, f) \/ Claim(w, f) \/ Pause(w, f)
    \/ \E a \in Outcomes : Finish(w, f, a)

Next ==
    \/ \E w \in Workers : BeginCycle(w) \/ Discover(w) \/ Crash(w)
    \/ \E w \in Workers, f \in Fields : Step(w, f)
    \/ \E f \in Fields : DueAgain(f)
    \/ Tick
    \/ \E f \in Fields, u \in Urls \cup {NoUrl} : SourceChanges(f, u)
    \/ \E f \in Fields, t \in {"open", "exception"} : Review(f, t)

Spec == Init /\ [][Next]_vars

\* Cycles start every minute, chains go on, leases run out and rows come due.
Fairness ==
    /\ \A w \in Workers : WF_vars(BeginCycle(w)) /\ WF_vars(Discover(w))
    /\ \A w \in Workers, f \in Fields : WF_vars(Step(w, f))
    /\ \A f \in Fields : WF_vars(DueAgain(f))
    /\ WF_vars(Tick)
FairSpec == Spec /\ Fairness

-----------------------------------------------------------------------------
(* Properties.                                                             *)

\* Whatever review, other workers, late answers and crashes came between: a
\* success leaves no open finding behind, and a finding is raised, reopened or
\* gets other evidence only when the last two recorded observations are
\* failures of the very URL it reports, so that a URL's failures never count
\* against another one.
FindingsFollowAnswers ==
    [][\A f \in Fields :
        /\ observed'[f].answer = "reachable" => table'[f].status \in {"none", "resolved"}
        /\ \/ table[f].evidence = table'[f].evidence
              /\ (table[f].status = "resolved" => table'[f].status = "resolved")
           \/ observed'[f].streak = 2 /\ observed'[f].url = table'[f].evidence]_vars

\* A URL that stays in the source is observed again and again.
Observes ==
    \A f \in Fields, u \in Urls :
        <>[](source[f] = u) => []<>(observed[f].url = u)
=============================================================================
