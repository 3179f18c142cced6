----------------------------- MODULE CheckQueue -----------------------------
(***************************************************************************)
(* The durable quality-check queue: HTTP processes enqueue rows of         *)
(* check_run, worker processes claim one, scan the read-only source in a   *)
(* snapshot while a heartbeat renews the lease, and persist the findings   *)
(* in one short transaction (services/checks.py, check_worker.py).         *)
(*                                                                         *)
(* A lease is modelled by the time it has left: lease_until > clock is     *)
(* lease[r] > 0, and a NULL lease_until is 0.  The two advisory locks are  *)
(* modelled as what they serialize: QUEUE_LOCK_KEY makes Enqueue, Claim    *)
(* and Reap atomic with each other, LOCK_KEY is the variable lock.  The    *)
(* row lock of execute_check is held exactly while pc[w] = "persisting".   *)
(***************************************************************************)
EXTENDS Naturals

CONSTANTS
    Runs,       \* identifiers of check_run rows that may ever be inserted
    Workers,    \* worker processes
    Reviewers,  \* HTTP requests that review a finding
    Lease,      \* check_job_lease_seconds
    MaxSource,  \* bound: versions of the source database
    Nobody,     \* NULL worker_id; an advisory lock nobody holds
    NoRun       \* a worker without a job

ASSUME NobodyAssumption == Nobody \notin Workers \cup Reviewers
ASSUME NoRunAssumption == NoRun \notin Runs
ASSUME DisjointAssumption == Workers \cap Reviewers = {}
ASSUME LeaseAssumption == Lease \in Nat \ {0}
ASSUME MaxSourceAssumption == MaxSource \in Nat

VARIABLES
    status,  \* check_run.status, "absent" before the row is inserted
    owner,   \* check_run.worker_id
    lease,   \* time left until check_run.lease_until
    source,  \* version of the source database
    stored,  \* source version whose scan the finding table reflects
    pc,      \* where execute_check stands in each worker
    job,     \* the run a worker works on
    snap,    \* source version of a worker's REPEATABLE READ snapshot
    beat,    \* the heartbeat task of a worker
    lock     \* holder of advisory lock LOCK_KEY

queueVars == <<status, owner, lease>>
workerVars == <<pc, job, snap, beat>>
vars == <<status, owner, lease, source, stored, pc, job, snap, beat, lock>>

Statuses == {"absent", "queued", "running", "success", "failed"}
Terminal == {"success", "failed"}
Busy == {"claimed", "scanning", "scanned", "locked", "persisting", "ending"}

Active == {r \in Runs : status[r] \in {"queued", "running"}}
Expired == {r \in Runs : status[r] = "running" /\ lease[r] = 0}
\* Mutant: execute_check does not lock the row of its run.
RowLockedNever(r) == FALSE
RowLocked(r) == \E w \in Workers : pc[w] = "persisting" /\ job[w] = r
Owns(w) == job[w] \in Runs /\ status[job[w]] = "running" /\ owner[job[w]] = w
ReleaseLock(w) == lock' = IF lock = w THEN Nobody ELSE lock

Init ==
    /\ status = [r \in Runs |-> "absent"]
    /\ owner = [r \in Runs |-> Nobody]
    /\ lease = [r \in Runs |-> 0]
    /\ source = 0
    /\ stored = 0
    /\ pc = [w \in Workers |-> "idle"]
    /\ job = [w \in Workers |-> NoRun]
    /\ snap = [w \in Workers |-> 0]
    /\ beat = [w \in Workers |-> "off"]
    /\ lock = Nobody

-----------------------------------------------------------------------------
(* The queue *)

\* POST /checks: 409 while a run is queued or running.
Enqueue(r) ==
    /\ status[r] = "absent"
    /\ Active = {}
    /\ status' = [status EXCEPT ![r] = "queued"]
    /\ UNCHANGED <<owner, lease, source, stored, workerVars, lock>>

\* The first statement of claim_check fails every expired run.  It waits for
\* the row lock of a run that is being persisted and looks at the row again.
ReapExpired ==
    /\ \A r \in Expired : ~RowLocked(r)
    /\ status' = [r \in Runs |-> IF r \in Expired THEN "failed" ELSE status[r]]
    /\ owner' = [r \in Runs |-> IF r \in Expired THEN Nobody ELSE owner[r]]
    /\ lease' = lease

\* Mutant: claim_check returns early when nothing is queued.
ReapBehindQueued(w) ==
    /\ pc[w] = "idle"
    /\ \E r \in Runs : status[r] = "queued"
    /\ ReapExpired
    /\ UNCHANGED <<source, stored, workerVars, lock>>

\* claim_check on an empty queue: only the expired runs change.
Reap(w) ==
    /\ pc[w] = "idle"
    /\ \A r \in Runs : status[r] # "queued"
    /\ Expired # {}
    /\ ReapExpired
    /\ UNCHANGED <<source, stored, workerVars, lock>>

\* claim_check with a queued run: the worker starts its two tasks.
Claim(w, r) ==
    /\ pc[w] = "idle"
    /\ status[r] = "queued"
    /\ \A e \in Expired : ~RowLocked(e)
    /\ status' = [e \in Runs |-> CASE e = r -> "running"
                                   [] e \in Expired -> "failed"
                                   [] OTHER -> status[e]]
    /\ owner' = [e \in Runs |-> CASE e = r -> w
                                  [] e \in Expired -> Nobody
                                  [] OTHER -> owner[e]]
    /\ lease' = [lease EXCEPT ![r] = Lease]
    /\ pc' = [pc EXCEPT ![w] = "claimed"]
    /\ job' = [job EXCEPT ![w] = r]
    /\ beat' = [beat EXCEPT ![w] = "on"]
    /\ UNCHANGED <<source, stored, snap, lock>>

-----------------------------------------------------------------------------
(* execute_check *)

\* The source transaction takes its snapshot.
BeginScan(w) ==
    /\ pc[w] = "claimed"
    /\ pc' = [pc EXCEPT ![w] = "scanning"]
    /\ snap' = [snap EXCEPT ![w] = source]
    /\ UNCHANGED <<queueVars, source, stored, job, beat, lock>>

\* Every rule of the complete rule set succeeded.
EndScan(w) ==
    /\ pc[w] = "scanning"
    /\ pc' = [pc EXCEPT ![w] = "scanned"]
    /\ UNCHANGED <<queueVars, source, stored, job, snap, beat, lock>>

\* pg_advisory_xact_lock(LOCK_KEY): waits for a review or another persistence.
TakeLock(w) ==
    /\ pc[w] = "scanned"
    /\ lock = Nobody
    /\ lock' = w
    /\ pc' = [pc EXCEPT ![w] = "locked"]
    /\ UNCHANGED <<queueVars, source, stored, job, snap, beat>>

\* Mutant: the final transaction does not look at its run again.
FenceUnchecked(w) ==
    /\ pc[w] = "locked"
    /\ pc' = [pc EXCEPT ![w] = "persisting"]
    /\ UNCHANGED <<queueVars, source, stored, job, snap, beat, lock>>

\* SELECT ... FOR UPDATE of the owned, running run with a live lease.
Fence(w) ==
    /\ pc[w] = "locked"
    /\ IF Owns(w) /\ lease[job[w]] > 0
       THEN pc' = [pc EXCEPT ![w] = "persisting"] /\ lock' = lock
       ELSE pc' = [pc EXCEPT ![w] = "ending"] /\ ReleaseLock(w)
    /\ UNCHANGED <<queueVars, source, stored, job, snap, beat>>

\* persist_results and the success of the run commit together.
Commit(w) ==
    /\ pc[w] = "persisting"
    /\ status' = [status EXCEPT ![job[w]] = "success"]
    /\ owner' = [owner EXCEPT ![job[w]] = Nobody]
    /\ lease' = [lease EXCEPT ![job[w]] = 0]
    /\ stored' = snap[w]
    /\ pc' = [pc EXCEPT ![w] = "ending"]
    /\ ReleaseLock(w)
    /\ UNCHANGED <<source, job, snap, beat>>

\* A failed rule, a database error, or the cancellation of the task once the
\* heartbeat raised: the transaction rolls back and releases both locks.
Abort(w) ==
    /\ pc[w] \in Busy \ {"ending"}
    /\ pc' = [pc EXCEPT ![w] = "ending"]
    /\ ReleaseLock(w)
    /\ UNCHANGED <<queueVars, source, stored, job, snap, beat>>

\* fail_job, in execute_check's handler and again in work_once's finally: a
\* no-op after success or after another worker has reaped the run.
FailJob(w) ==
    /\ pc[w] = "ending"
    /\ IF Owns(w)
       THEN /\ status' = [status EXCEPT ![job[w]] = "failed"]
            /\ owner' = [owner EXCEPT ![job[w]] = Nobody]
            /\ lease' = [lease EXCEPT ![job[w]] = 0]
       ELSE UNCHANGED queueVars
    /\ pc' = [pc EXCEPT ![w] = "idle"]
    /\ job' = [job EXCEPT ![w] = NoRun]
    /\ beat' = [beat EXCEPT ![w] = "off"]
    /\ UNCHANGED <<source, stored, snap, lock>>

-----------------------------------------------------------------------------
(* The heartbeat: renew_lease every third of a lease *)

\* The owned row could be locked: extend a live lease, never an expired one.
Renew(w) ==
    /\ beat[w] = "on"
    /\ Owns(w)
    /\ ~RowLocked(job[w])
    /\ IF lease[job[w]] > 0
       THEN lease' = [lease EXCEPT ![job[w]] = Lease] /\ beat' = beat
       ELSE beat' = [beat EXCEPT ![w] = "lost"] /\ lease' = lease
    /\ UNCHANGED <<status, owner, source, stored, pc, job, snap, lock>>

\* SKIP LOCKED found no row: it is locked by the final persistence, or lost.
RenewSkipped(w) ==
    /\ beat[w] = "on"
    /\ ~Owns(w) \/ RowLocked(job[w])
    /\ beat' = [beat EXCEPT ![w] = "skipped"]
    /\ UNCHANGED <<queueVars, source, stored, pc, job, snap, lock>>

\* Mutant: a row that cannot be locked counts as lost.
RenewWithoutRead(w) ==
    /\ beat[w] = "skipped"
    /\ beat' = [beat EXCEPT ![w] = "lost"]
    /\ UNCHANGED <<queueVars, source, stored, pc, job, snap, lock>>

\* The plain read that tells the two apart extends no lease.
RenewRead(w) ==
    /\ beat[w] = "skipped"
    /\ beat' = [beat EXCEPT ![w] = IF Owns(w) THEN "on" ELSE "lost"]
    /\ UNCHANGED <<queueVars, source, stored, pc, job, snap, lock>>

-----------------------------------------------------------------------------
(* The environment *)

\* The process dies or loses its database session: the server releases the
\* locks, the row stays running, and the supervisor restarts the worker.
Crash(w) ==
    /\ pc[w] \in Busy
    /\ pc' = [pc EXCEPT ![w] = "idle"]
    /\ job' = [job EXCEPT ![w] = NoRun]
    /\ beat' = [beat EXCEPT ![w] = "off"]
    /\ ReleaseLock(w)
    /\ UNCHANGED <<queueVars, source, stored, snap>>

Tick ==
    /\ \E r \in Runs : lease[r] > 0
    /\ lease' = [r \in Runs |-> IF lease[r] > 0 THEN lease[r] - 1 ELSE 0]
    /\ UNCHANGED <<status, owner, source, stored, workerVars, lock>>

SourceChanges ==
    /\ source < MaxSource
    /\ source' = source + 1
    /\ UNCHANGED <<queueVars, stored, workerVars, lock>>

\* review takes the session lock without waiting (409 when it is held).
ReviewLock(v) ==
    /\ lock = Nobody
    /\ lock' = v
    /\ UNCHANGED <<queueVars, source, stored, workerVars>>

\* The finally of review, or the end of its session.
ReviewUnlock(v) ==
    /\ lock = v
    /\ lock' = Nobody
    /\ UNCHANGED <<queueVars, source, stored, workerVars>>

-----------------------------------------------------------------------------
WorkerStep(w) ==
    \/ BeginScan(w) \/ EndScan(w) \/ TakeLock(w) \/ Fence(w)
    \/ Abort(w) \/ FailJob(w)
    \/ Renew(w) \/ RenewSkipped(w) \/ RenewRead(w) \/ Reap(w) \/ Crash(w)
    \/ \E r \in Runs : Claim(w, r)

\* The steps that touch neither the source nor the findings.
QueueStep ==
    \/ \E r \in Runs : Enqueue(r)
    \/ \E w \in Workers : WorkerStep(w)
    \/ \E v \in Reviewers : ReviewLock(v) \/ ReviewUnlock(v)
    \/ Tick

Next ==
    \/ QueueStep
    \/ \E w \in Workers : Commit(w)
    \/ SourceChanges

\* Scans and reviews end (statement timeouts), time passes, workers poll, and
\* the lock queue of the server does not starve a waiting persistence.
Fairness ==
    /\ WF_vars(Tick)
    /\ SF_vars(\E w \in Workers : TakeLock(w))
    /\ \A v \in Reviewers : WF_vars(ReviewUnlock(v))
    /\ \A w \in Workers :
        /\ WF_vars(BeginScan(w) \/ EndScan(w) \/ Fence(w) \/ Commit(w) \/ FailJob(w))
        /\ WF_vars(Reap(w) \/ \E r \in Runs : Claim(w, r))

Spec == Init /\ [][Next]_vars
FairSpec == Spec /\ Fairness

-----------------------------------------------------------------------------
TypeOK ==
    /\ status \in [Runs -> Statuses]
    /\ owner \in [Runs -> Workers \cup {Nobody}]
    /\ lease \in [Runs -> 0..Lease]
    /\ source \in 0..MaxSource
    /\ stored \in 0..MaxSource
    /\ pc \in [Workers -> Busy \cup {"idle"}]
    /\ job \in [Workers -> Runs \cup {NoRun}]
    /\ snap \in [Workers -> 0..MaxSource]
    /\ beat \in [Workers -> {"off", "on", "skipped", "lost"}]
    /\ lock \in Workers \cup Reviewers \cup {Nobody}

\* At most one run is queued or running, whoever enqueues, claims, reaps or
\* crashes in between (enqueue_check, check_run_one_active_idx).
OneActiveRun == \A r, s \in Active : r = s

\* A transaction that persists findings still owns its run, and nobody else
\* persists or reviews meanwhile: a worker whose lease expired and whose run
\* was reaped never gets here, and a run is never reaped under it.
PersistenceFenced ==
    \A w \in Workers : pc[w] = "persisting" => Owns(w) /\ lock = w

\* A heartbeat that reports a lost lease never cancels a worker that could
\* still persist its findings: renew_lease tells the worker's own row lock
\* from a lost run, and a run once lost stays lost.
LostLeaseIsFinal ==
    \A w \in Workers : beat[w] = "lost" =>
        /\ pc[w] # "persisting"
        /\ ~(Owns(w) /\ lease[job[w]] > 0)

\* A run that ended stays as it ended: the late fail_job, heartbeat or
\* persistence of a worker that lost its lease never rewrites the history.
EndedRunsStay ==
    [][\A r \in Runs : status[r] \in Terminal => status'[r] = status[r]]_vars

\* The findings change only in the step in which a run succeeds, and never
\* go back to an older view of the source than the one they already show.
FindingsMoveForward ==
    [][stored' # stored =>
        /\ stored' > stored
        /\ \E r \in Runs : status[r] = "running" /\ status'[r] = "success"]_vars

\* Every queued run ends, although workers crash and leases run out.
QueuedRunsEnd ==
    \A r \in Runs : status[r] = "queued" ~> status[r] \in Terminal

\* The queue implements the ledger its callers see.
Ledger == INSTANCE CheckLedger
LedgerImplemented == Ledger!LedgerSpec
=============================================================================
