---------------------------- MODULE QualityProofs ---------------------------
(***************************************************************************)
(* Proofs about the check queue, that it is safe and implements            *)
(* CheckLedger, and about the findings its runs persist, that they are     *)
(* what the latest successful run saw; for any number of findings, runs,   *)
(* workers, reviewers and versions of the source and any lease.            *)
(***************************************************************************)
EXTENDS QualityChecks, TLAPS

USE NobodyAssumption, NoRunAssumption, DisjointAssumption, LeaseAssumption,
    MaxSourceAssumption

\* A worker has a job exactly while it is busy, and a heartbeat only then.
JobsMatch ==
    \A w \in Workers :
        /\ pc[w] = "idle" <=> job[w] = NoRun
        /\ beat[w] = "off" <=> pc[w] = "idle"

\* worker_id and lease_until are NULL unless the run is running.
ClaimsMatch ==
    \A r \in Runs :
        /\ status[r] = "running" => owner[r] \in Workers
        /\ lease[r] > 0 => status[r] = "running"

\* The worker inside execute_check's transaction holds LOCK_KEY.
LockHeld ==
    \A w \in Workers : pc[w] \in {"locked", "persisting"} => lock = w

\* No snapshot is from the future, and the snapshot a worker could still
\* persist is at least as new as the findings stored.
SnapshotsFresh ==
    /\ stored <= source
    /\ \A w \in Workers :
        /\ snap[w] <= source
        /\ pc[w] \in {"scanning", "scanned", "locked", "persisting"} /\ Owns(w)
             => stored <= snap[w]

IInv ==
    /\ TypeOK
    /\ JobsMatch
    /\ ClaimsMatch
    /\ LockHeld
    /\ SnapshotsFresh
    /\ OneActiveRun
    /\ PersistenceFenced
    /\ LostLeaseIsFinal

-----------------------------------------------------------------------------
(* The type invariant *)

LEMMA InitType == Init => TypeOK
  BY DEF Init, TypeOK, Statuses, Busy

LEMMA NextType == TypeOK /\ [Next]_vars => TypeOK'
<1> SUFFICES ASSUME TypeOK, [Next]_vars PROVE TypeOK'
  OBVIOUS
<1> USE DEF TypeOK, Statuses, Busy, queueVars, workerVars
<1>1. ASSUME NEW r \in Runs, Enqueue(r) PROVE TypeOK'
  BY <1>1 DEF Enqueue
<1>2. ASSUME NEW w \in Workers, Reap(w) PROVE TypeOK'
  BY <1>2 DEF Reap, ReapExpired
<1>3. ASSUME NEW w \in Workers, NEW r \in Runs, Claim(w, r) PROVE TypeOK'
  BY <1>3 DEF Claim
<1>4. ASSUME NEW w \in Workers, BeginScan(w) \/ EndScan(w) PROVE TypeOK'
  BY <1>4 DEF BeginScan, EndScan
<1>5. ASSUME NEW w \in Workers, TakeLock(w) \/ Fence(w) PROVE TypeOK'
  BY <1>5 DEF TakeLock, Fence, ReleaseLock
<1>6. ASSUME NEW w \in Workers, Commit(w) PROVE TypeOK'
  <2>1. [lease EXCEPT ![job[w]] = 0] \in [Runs -> 0..Lease]
    <3> HIDE DEF TypeOK
    <3>1. 0 \in 0..Lease /\ lease \in [Runs -> 0..Lease]
      BY DEF TypeOK
    <3>2. QED
      BY <3>1
  <2>2. QED
    BY <1>6, <2>1 DEF Commit, ReleaseLock
<1>7. ASSUME NEW w \in Workers, Abort(w) \/ Crash(w) PROVE TypeOK'
  BY <1>7 DEF Abort, Crash, ReleaseLock
<1>8. ASSUME NEW w \in Workers, FailJob(w) PROVE TypeOK'
  BY <1>8 DEF FailJob
<1>9. ASSUME NEW w \in Workers, Renew(w) PROVE TypeOK'
  BY <1>9 DEF Renew
<1>10. ASSUME NEW w \in Workers, RenewSkipped(w) \/ RenewRead(w) PROVE TypeOK'
  BY <1>10 DEF RenewSkipped, RenewRead
<1>11. ASSUME Tick \/ SourceChanges PROVE TypeOK'
  BY <1>11 DEF Tick, SourceChanges
<1>12. ASSUME NEW v \in Reviewers, ReviewLock(v) \/ ReviewUnlock(v) PROVE TypeOK'
  BY <1>12 DEF ReviewLock, ReviewUnlock
<1>13. CASE UNCHANGED vars
  BY <1>13 DEF vars
<1>14. QED
  BY <1>1, <1>2, <1>3, <1>4, <1>5, <1>6, <1>7, <1>8, <1>9, <1>10, <1>11, <1>12,
     <1>13 DEF Next, QueueStep, WorkerStep

\* The tables, locks and workers keep their types in every reachable state of
\* the check queue (admin_tables.py, services/checks.py, check_worker.py).
THEOREM TypeCorrect == Spec => []TypeOK
  BY InitType, NextType, PTL DEF Spec
-----------------------------------------------------------------------------
(* The parts of the inductive invariant, one lemma per part and one step per
   kind of action *)

\* Only Claim hands out a job; FailJob and Crash take it away.
LEMMA JobsMatchStep == IInv /\ [Next]_vars => JobsMatch'
<1> SUFFICES ASSUME IInv, [Next]_vars PROVE JobsMatch'
  OBVIOUS
<1> USE DEF IInv, TypeOK, Statuses, Busy, JobsMatch, Owns, queueVars, workerVars
<1>1. ASSUME NEW r \in Runs, Enqueue(r) PROVE JobsMatch'
  BY <1>1 DEF Enqueue
<1>2. ASSUME NEW w \in Workers, Reap(w) PROVE JobsMatch'
  BY <1>2 DEF Reap, ReapExpired, Expired
<1>3. ASSUME NEW w \in Workers, NEW r \in Runs, Claim(w, r) PROVE JobsMatch'
  BY <1>3 DEF Claim, Expired
<1>4. ASSUME NEW w \in Workers, BeginScan(w) \/ EndScan(w) PROVE JobsMatch'
  BY <1>4 DEF BeginScan, EndScan
<1>5. ASSUME NEW w \in Workers, TakeLock(w) \/ Fence(w) PROVE JobsMatch'
  BY <1>5 DEF TakeLock, Fence, ReleaseLock
<1>6. ASSUME NEW w \in Workers, Commit(w) PROVE JobsMatch'
  BY <1>6 DEF Commit, ReleaseLock
<1>7. ASSUME NEW w \in Workers, Abort(w) \/ Crash(w) PROVE JobsMatch'
  BY <1>7 DEF Abort, Crash, ReleaseLock
<1>8. ASSUME NEW w \in Workers, FailJob(w) PROVE JobsMatch'
  BY <1>8 DEF FailJob
<1>9. ASSUME NEW w \in Workers, Renew(w) \/ RenewSkipped(w) \/ RenewRead(w) PROVE JobsMatch'
  BY <1>9 DEF Renew, RenewSkipped, RenewRead
<1>10. ASSUME Tick \/ SourceChanges PROVE JobsMatch'
  BY <1>10 DEF Tick, SourceChanges
<1>11. ASSUME NEW v \in Reviewers, ReviewLock(v) \/ ReviewUnlock(v) PROVE JobsMatch'
  BY <1>11 DEF ReviewLock, ReviewUnlock
<1>12. CASE UNCHANGED vars
  BY <1>12 DEF vars
<1>13. QED
  BY <1>1, <1>2, <1>3, <1>4, <1>5, <1>6, <1>7, <1>8, <1>9, <1>10, <1>11, <1>12 DEF Next, QueueStep, WorkerStep

\* A run leaves "running" together with its worker and its lease.
LEMMA ClaimsMatchStep == IInv /\ [Next]_vars => ClaimsMatch'
<1> SUFFICES ASSUME IInv, [Next]_vars PROVE ClaimsMatch'
  OBVIOUS
<1> USE DEF IInv, TypeOK, Statuses, Busy, JobsMatch, ClaimsMatch, Owns, queueVars, workerVars
<1>1. ASSUME NEW r \in Runs, Enqueue(r) PROVE ClaimsMatch'
  BY <1>1 DEF Enqueue
<1>2. ASSUME NEW w \in Workers, Reap(w) PROVE ClaimsMatch'
  BY <1>2 DEF Reap, ReapExpired, Expired
<1>3. ASSUME NEW w \in Workers, NEW r \in Runs, Claim(w, r) PROVE ClaimsMatch'
  BY <1>3 DEF Claim, Expired
<1>4. ASSUME NEW w \in Workers, BeginScan(w) \/ EndScan(w) PROVE ClaimsMatch'
  BY <1>4 DEF BeginScan, EndScan
<1>5. ASSUME NEW w \in Workers, TakeLock(w) \/ Fence(w) PROVE ClaimsMatch'
  BY <1>5 DEF TakeLock, Fence, ReleaseLock
<1>6. ASSUME NEW w \in Workers, Commit(w) PROVE ClaimsMatch'
  BY <1>6 DEF Commit, ReleaseLock
<1>7. ASSUME NEW w \in Workers, Abort(w) \/ Crash(w) PROVE ClaimsMatch'
  BY <1>7 DEF Abort, Crash, ReleaseLock
<1>8. ASSUME NEW w \in Workers, FailJob(w) PROVE ClaimsMatch'
  BY <1>8 DEF FailJob
<1>9. ASSUME NEW w \in Workers, Renew(w) \/ RenewSkipped(w) \/ RenewRead(w) PROVE ClaimsMatch'
  BY <1>9 DEF Renew, RenewSkipped, RenewRead
<1>10. ASSUME Tick \/ SourceChanges PROVE ClaimsMatch'
  BY <1>10 DEF Tick, SourceChanges
<1>11. ASSUME NEW v \in Reviewers, ReviewLock(v) \/ ReviewUnlock(v) PROVE ClaimsMatch'
  BY <1>11 DEF ReviewLock, ReviewUnlock
<1>12. CASE UNCHANGED vars
  BY <1>12 DEF vars
<1>13. QED
  BY <1>1, <1>2, <1>3, <1>4, <1>5, <1>6, <1>7, <1>8, <1>9, <1>10, <1>11, <1>12 DEF Next, QueueStep, WorkerStep

\* TakeLock needs a free lock, and only its holder gives it back.
LEMMA LockHeldStep == IInv /\ [Next]_vars => LockHeld'
<1> SUFFICES ASSUME IInv, [Next]_vars PROVE LockHeld'
  OBVIOUS
<1> USE DEF IInv, TypeOK, Statuses, Busy, LockHeld, queueVars, workerVars
<1>1. ASSUME NEW r \in Runs, Enqueue(r) PROVE LockHeld'
  BY <1>1 DEF Enqueue
<1>2. ASSUME NEW w \in Workers, Reap(w) PROVE LockHeld'
  BY <1>2 DEF Reap, ReapExpired, Expired
<1>3. ASSUME NEW w \in Workers, NEW r \in Runs, Claim(w, r) PROVE LockHeld'
  BY <1>3 DEF Claim, Expired
<1>4. ASSUME NEW w \in Workers, BeginScan(w) \/ EndScan(w) PROVE LockHeld'
  BY <1>4 DEF BeginScan, EndScan
<1>5. ASSUME NEW w \in Workers, TakeLock(w) \/ Fence(w) PROVE LockHeld'
  BY <1>5 DEF TakeLock, Fence, ReleaseLock
<1>6. ASSUME NEW w \in Workers, Commit(w) PROVE LockHeld'
  BY <1>6 DEF Commit, ReleaseLock
<1>7. ASSUME NEW w \in Workers, Abort(w) \/ Crash(w) PROVE LockHeld'
  BY <1>7 DEF Abort, Crash, ReleaseLock
<1>8. ASSUME NEW w \in Workers, FailJob(w) PROVE LockHeld'
  BY <1>8 DEF FailJob
<1>9. ASSUME NEW w \in Workers, Renew(w) \/ RenewSkipped(w) \/ RenewRead(w) PROVE LockHeld'
  BY <1>9 DEF Renew, RenewSkipped, RenewRead
<1>10. ASSUME Tick \/ SourceChanges PROVE LockHeld'
  BY <1>10 DEF Tick, SourceChanges
<1>11. ASSUME NEW v \in Reviewers, ReviewLock(v) \/ ReviewUnlock(v) PROVE LockHeld'
  BY <1>11 DEF ReviewLock, ReviewUnlock
<1>12. CASE UNCHANGED vars
  BY <1>12 DEF vars
<1>13. QED
  BY <1>1, <1>2, <1>3, <1>4, <1>5, <1>6, <1>7, <1>8, <1>9, <1>10, <1>11, <1>12 DEF Next, QueueStep, WorkerStep

\* Enqueue needs an empty queue, and no ended run becomes active again.
LEMMA OneActiveStep == IInv /\ [Next]_vars => OneActiveRun'
<1> SUFFICES ASSUME IInv, [Next]_vars PROVE OneActiveRun'
  OBVIOUS
<1> USE DEF IInv, TypeOK, Statuses, Busy, OneActiveRun, Active, Owns, PersistenceFenced, queueVars, workerVars
<1>1. ASSUME NEW r \in Runs, Enqueue(r) PROVE OneActiveRun'
  BY <1>1 DEF Enqueue
<1>2. ASSUME NEW w \in Workers, Reap(w) PROVE OneActiveRun'
  BY <1>2 DEF Reap, ReapExpired, Expired
<1>3. ASSUME NEW w \in Workers, NEW r \in Runs, Claim(w, r) PROVE OneActiveRun'
  BY <1>3 DEF Claim, Expired
<1>4. ASSUME NEW w \in Workers, BeginScan(w) \/ EndScan(w) PROVE OneActiveRun'
  BY <1>4 DEF BeginScan, EndScan
<1>5. ASSUME NEW w \in Workers, TakeLock(w) \/ Fence(w) PROVE OneActiveRun'
  BY <1>5 DEF TakeLock, Fence, ReleaseLock
<1>6. ASSUME NEW w \in Workers, Commit(w) PROVE OneActiveRun'
  BY <1>6 DEF Commit, ReleaseLock
<1>7. ASSUME NEW w \in Workers, Abort(w) \/ Crash(w) PROVE OneActiveRun'
  BY <1>7 DEF Abort, Crash, ReleaseLock
<1>8. ASSUME NEW w \in Workers, FailJob(w) PROVE OneActiveRun'
  BY <1>8 DEF FailJob
<1>9. ASSUME NEW w \in Workers, Renew(w) \/ RenewSkipped(w) \/ RenewRead(w) PROVE OneActiveRun'
  BY <1>9 DEF Renew, RenewSkipped, RenewRead
<1>10. ASSUME Tick \/ SourceChanges PROVE OneActiveRun'
  BY <1>10 DEF Tick, SourceChanges
<1>11. ASSUME NEW v \in Reviewers, ReviewLock(v) \/ ReviewUnlock(v) PROVE OneActiveRun'
  BY <1>11 DEF ReviewLock, ReviewUnlock
<1>12. CASE UNCHANGED vars
  BY <1>12 DEF vars
<1>13. QED
  BY <1>1, <1>2, <1>3, <1>4, <1>5, <1>6, <1>7, <1>8, <1>9, <1>10, <1>11, <1>12 DEF Next, QueueStep, WorkerStep

\* Reap and Claim wait for the row lock, and FailJob owns another row.
LEMMA FencedStep == IInv /\ [Next]_vars => PersistenceFenced'
<1> SUFFICES ASSUME IInv, [Next]_vars PROVE PersistenceFenced'
  OBVIOUS
<1> USE DEF IInv, TypeOK, Statuses, Busy, PersistenceFenced, LockHeld, JobsMatch, Owns, RowLocked, queueVars, workerVars
<1>1. ASSUME NEW r \in Runs, Enqueue(r) PROVE PersistenceFenced'
  BY <1>1 DEF Enqueue
<1>2. ASSUME NEW w \in Workers, Reap(w) PROVE PersistenceFenced'
  BY <1>2 DEF Reap, ReapExpired, Expired
<1>3. ASSUME NEW w \in Workers, NEW r \in Runs, Claim(w, r) PROVE PersistenceFenced'
  BY <1>3 DEF Claim, Expired
<1>4. ASSUME NEW w \in Workers, BeginScan(w) \/ EndScan(w) PROVE PersistenceFenced'
  BY <1>4 DEF BeginScan, EndScan
<1>5. ASSUME NEW w \in Workers, TakeLock(w) \/ Fence(w) PROVE PersistenceFenced'
  BY <1>5 DEF TakeLock, Fence, ReleaseLock
<1>6. ASSUME NEW w \in Workers, Commit(w) PROVE PersistenceFenced'
  BY <1>6 DEF Commit, ReleaseLock
<1>7. ASSUME NEW w \in Workers, Abort(w) \/ Crash(w) PROVE PersistenceFenced'
  BY <1>7 DEF Abort, Crash, ReleaseLock
<1>8. ASSUME NEW w \in Workers, FailJob(w) PROVE PersistenceFenced'
  BY <1>8 DEF FailJob
<1>9. ASSUME NEW w \in Workers, Renew(w) \/ RenewSkipped(w) \/ RenewRead(w) PROVE PersistenceFenced'
  BY <1>9 DEF Renew, RenewSkipped, RenewRead
<1>10. ASSUME Tick \/ SourceChanges PROVE PersistenceFenced'
  BY <1>10 DEF Tick, SourceChanges
<1>11. ASSUME NEW v \in Reviewers, ReviewLock(v) \/ ReviewUnlock(v) PROVE PersistenceFenced'
  BY <1>11 DEF ReviewLock, ReviewUnlock
<1>12. CASE UNCHANGED vars
  BY <1>12 DEF vars
<1>13. QED
  BY <1>1, <1>2, <1>3, <1>4, <1>5, <1>6, <1>7, <1>8, <1>9, <1>10, <1>11, <1>12 DEF Next, QueueStep, WorkerStep

\* A lease at zero is never extended, and a run lost is never owned again.
LEMMA LostStep == IInv /\ [Next]_vars => LostLeaseIsFinal'
<1> SUFFICES ASSUME IInv, [Next]_vars PROVE LostLeaseIsFinal'
  OBVIOUS
<1> USE DEF IInv, TypeOK, Statuses, Busy, LostLeaseIsFinal, PersistenceFenced, JobsMatch, Owns, RowLocked, queueVars, workerVars
<1>1. ASSUME NEW r \in Runs, Enqueue(r) PROVE LostLeaseIsFinal'
  BY <1>1 DEF Enqueue
<1>2. ASSUME NEW w \in Workers, Reap(w) PROVE LostLeaseIsFinal'
  BY <1>2 DEF Reap, ReapExpired, Expired
<1>3. ASSUME NEW w \in Workers, NEW r \in Runs, Claim(w, r) PROVE LostLeaseIsFinal'
  BY <1>3 DEF Claim, Expired
<1>4. ASSUME NEW w \in Workers, BeginScan(w) \/ EndScan(w) PROVE LostLeaseIsFinal'
  BY <1>4 DEF BeginScan, EndScan
<1>5. ASSUME NEW w \in Workers, TakeLock(w) \/ Fence(w) PROVE LostLeaseIsFinal'
  BY <1>5 DEF TakeLock, Fence, ReleaseLock
<1>6. ASSUME NEW w \in Workers, Commit(w) PROVE LostLeaseIsFinal'
  BY <1>6 DEF Commit, ReleaseLock
<1>7. ASSUME NEW w \in Workers, Abort(w) \/ Crash(w) PROVE LostLeaseIsFinal'
  BY <1>7 DEF Abort, Crash, ReleaseLock
<1>8. ASSUME NEW w \in Workers, FailJob(w) PROVE LostLeaseIsFinal'
  BY <1>8 DEF FailJob
<1>9. ASSUME NEW w \in Workers, Renew(w) \/ RenewSkipped(w) \/ RenewRead(w) PROVE LostLeaseIsFinal'
  BY <1>9 DEF Renew, RenewSkipped, RenewRead
<1>10. ASSUME Tick \/ SourceChanges PROVE LostLeaseIsFinal'
  BY <1>10 DEF Tick, SourceChanges
<1>11. ASSUME NEW v \in Reviewers, ReviewLock(v) \/ ReviewUnlock(v) PROVE LostLeaseIsFinal'
  BY <1>11 DEF ReviewLock, ReviewUnlock
<1>12. CASE UNCHANGED vars
  BY <1>12 DEF vars
<1>13. QED
  BY <1>1, <1>2, <1>3, <1>4, <1>5, <1>6, <1>7, <1>8, <1>9, <1>10, <1>11, <1>12 DEF Next, QueueStep, WorkerStep

\* Another worker's commit would need a second active run.
LEMMA FreshStep == IInv /\ [Next]_vars => SnapshotsFresh'
<1> SUFFICES ASSUME IInv, [Next]_vars PROVE SnapshotsFresh'
  OBVIOUS
<1> USE DEF IInv, TypeOK, Statuses, Busy, SnapshotsFresh, PersistenceFenced, OneActiveRun, Active, Owns, queueVars, workerVars
<1>1. ASSUME NEW r \in Runs, Enqueue(r) PROVE SnapshotsFresh'
  BY <1>1 DEF Enqueue
<1>2. ASSUME NEW w \in Workers, Reap(w) PROVE SnapshotsFresh'
  BY <1>2 DEF Reap, ReapExpired, Expired
<1>3. ASSUME NEW w \in Workers, NEW r \in Runs, Claim(w, r) PROVE SnapshotsFresh'
  BY <1>3 DEF Claim, Expired
<1>4. ASSUME NEW w \in Workers, BeginScan(w) \/ EndScan(w) PROVE SnapshotsFresh'
  BY <1>4 DEF BeginScan, EndScan
<1>5. ASSUME NEW w \in Workers, TakeLock(w) \/ Fence(w) PROVE SnapshotsFresh'
  BY <1>5 DEF TakeLock, Fence, ReleaseLock
<1>6. ASSUME NEW w \in Workers, Commit(w) PROVE SnapshotsFresh'
  BY <1>6 DEF Commit, ReleaseLock
<1>7. ASSUME NEW w \in Workers, Abort(w) \/ Crash(w) PROVE SnapshotsFresh'
  BY <1>7 DEF Abort, Crash, ReleaseLock
<1>8. ASSUME NEW w \in Workers, FailJob(w) PROVE SnapshotsFresh'
  BY <1>8 DEF FailJob
<1>9. ASSUME NEW w \in Workers, Renew(w) \/ RenewSkipped(w) \/ RenewRead(w) PROVE SnapshotsFresh'
  BY <1>9 DEF Renew, RenewSkipped, RenewRead
<1>10. ASSUME Tick \/ SourceChanges PROVE SnapshotsFresh'
  BY <1>10 DEF Tick, SourceChanges
<1>11. ASSUME NEW v \in Reviewers, ReviewLock(v) \/ ReviewUnlock(v) PROVE SnapshotsFresh'
  BY <1>11 DEF ReviewLock, ReviewUnlock
<1>12. CASE UNCHANGED vars
  BY <1>12 DEF vars
<1>13. QED
  BY <1>1, <1>2, <1>3, <1>4, <1>5, <1>6, <1>7, <1>8, <1>9, <1>10, <1>11, <1>12 DEF Next, QueueStep, WorkerStep

-----------------------------------------------------------------------------
(* Safety *)

LEMMA InitInv == Init => IInv
  BY InitType DEF Init, IInv, JobsMatch, ClaimsMatch, LockHeld, SnapshotsFresh,
     OneActiveRun, Active, PersistenceFenced, LostLeaseIsFinal

LEMMA NextInv == IInv /\ [Next]_vars => IInv'
  BY NextType, JobsMatchStep, ClaimsMatchStep, LockHeldStep, OneActiveStep,
     FencedStep, LostStep, FreshStep DEF IInv

\* The inductive invariant of the check queue.
THEOREM Invariance == Spec => []IInv
  BY InitInv, NextInv, PTL DEF Spec

\* At most one run is queued or running (enqueue_check), for any number of
\* workers, crashes and expiries.
THEOREM OneActive == Spec => []OneActiveRun
<1>1. IInv => OneActiveRun
  BY DEF IInv
<1>2. QED
  BY Invariance, <1>1, PTL

\* Whoever persists findings owns its running run and LOCK_KEY (execute_check).
THEOREM Fenced == Spec => []PersistenceFenced
<1>1. IInv => PersistenceFenced
  BY DEF IInv
<1>2. QED
  BY Invariance, <1>1, PTL

\* A lost heartbeat never cancels a worker that could persist (renew_lease).
THEOREM LostIsFinal == Spec => []LostLeaseIsFinal
<1>1. IInv => LostLeaseIsFinal
  BY DEF IInv
<1>2. QED
  BY Invariance, <1>1, PTL

\* No late worker rewrites a run that ended (fail_job, execute_check).
THEOREM EndedStays == Spec => EndedRunsStay
<1> DEFINE Kept == \A r \in Runs : status[r] \in Terminal => status'[r] = status[r]
<1>1. IInv /\ [Next]_vars => [Kept]_vars
  <2> SUFFICES ASSUME IInv, Next PROVE Kept
    OBVIOUS
  <2> USE DEF IInv, TypeOK, Terminal, queueVars, workerVars
  <2>1. ASSUME NEW r \in Runs, Enqueue(r) PROVE Kept
    BY <2>1 DEF Enqueue
  <2>2. ASSUME NEW w \in Workers, Reap(w) PROVE Kept
    BY <2>2 DEF Reap, ReapExpired, Expired
  <2>3. ASSUME NEW w \in Workers, NEW r \in Runs, Claim(w, r) PROVE Kept
    BY <2>3 DEF Claim, Expired
  <2>4. ASSUME NEW w \in Workers, BeginScan(w) \/ EndScan(w) PROVE Kept
    BY <2>4 DEF BeginScan, EndScan
  <2>5. ASSUME NEW w \in Workers, TakeLock(w) \/ Fence(w) PROVE Kept
    BY <2>5 DEF TakeLock, Fence, ReleaseLock
  <2>6. ASSUME NEW w \in Workers, Commit(w) PROVE Kept
    BY <2>6 DEF Commit, ReleaseLock, Owns, PersistenceFenced
  <2>7. ASSUME NEW w \in Workers, Abort(w) \/ Crash(w) PROVE Kept
    BY <2>7 DEF Abort, Crash, ReleaseLock
  <2>8. ASSUME NEW w \in Workers, FailJob(w) PROVE Kept
    BY <2>8 DEF FailJob, Owns
  <2>9. ASSUME NEW w \in Workers, Renew(w) \/ RenewSkipped(w) \/ RenewRead(w) PROVE Kept
    BY <2>9 DEF Renew, RenewSkipped, RenewRead
  <2>10. ASSUME Tick \/ SourceChanges PROVE Kept
    BY <2>10 DEF Tick, SourceChanges
  <2>11. ASSUME NEW v \in Reviewers, ReviewLock(v) \/ ReviewUnlock(v) PROVE Kept
    BY <2>11 DEF ReviewLock, ReviewUnlock
  <2>12. QED
    BY <2>1, <2>2, <2>3, <2>4, <2>5, <2>6, <2>7, <2>8, <2>9, <2>10, <2>11
       DEF Next, QueueStep, WorkerStep
<1>2. QED
  BY Invariance, <1>1, PTL DEF Spec, EndedRunsStay

\* Stored findings never go back to an older view of the source, and change
\* only in the commit that ends a run (persist_results inside execute_check).
THEOREM FindingsForward == Spec => FindingsMoveForward
<1> DEFINE Forward ==
        stored' # stored =>
            /\ stored' > stored
            /\ \E r \in Runs : status[r] = "running" /\ status'[r] = "success"
<1>1. IInv /\ [Next]_vars => [Forward]_vars
  <2> SUFFICES ASSUME IInv, Next PROVE Forward
    OBVIOUS
  <2> USE DEF IInv, TypeOK
  <2>1. ASSUME NEW w \in Workers, Commit(w) PROVE Forward
    <3>1. job[w] \in Runs /\ status[job[w]] = "running" /\ stored <= snap[w]
      BY <2>1 DEF Commit, PersistenceFenced, Owns, SnapshotsFresh
    <3>2. status'[job[w]] = "success" /\ stored' = snap[w]
      BY <2>1, <3>1 DEF Commit
    <3>3. QED
      BY <3>1, <3>2
  <2>2. CASE UNCHANGED stored
    BY <2>2
  <2>3. QED
    BY <2>1, <2>2 DEF Next, QueueStep, WorkerStep, Enqueue, Reap, ReapExpired, Claim, BeginScan,
       EndScan, TakeLock, Fence, Abort, FailJob, Renew, RenewSkipped, RenewRead,
       Crash, Tick, SourceChanges, ReviewLock, ReviewUnlock
<1>2. QED
  BY Invariance, <1>1, PTL DEF Spec, FindingsMoveForward

\* The queue implements the ledger: every step of a worker, the clock or a
\* reviewer is a step of the ledger or invisible in it, so findings are
\* published only with a success and never move back.
THEOREM LedgerRefinement == Spec => LedgerImplemented
<1> DEFINE LedgerStep == [Ledger!LedgerNext]_(Ledger!ledgerVars)
<1>1. Init => Ledger!LedgerInit
  BY DEF Init, Ledger!LedgerInit
<1>2. IInv /\ [Next]_vars => LedgerStep
  <2> SUFFICES ASSUME IInv, [Next]_vars PROVE LedgerStep
    OBVIOUS
  <2> USE DEF IInv, TypeOK, queueVars, workerVars, Ledger!ledgerVars
  <2>1. ASSUME NEW r \in Runs, Enqueue(r) PROVE LedgerStep
    BY <2>1 DEF Enqueue, Active, Ledger!LedgerNext, Ledger!Submit
  <2>2. ASSUME NEW w \in Workers, Reap(w) PROVE LedgerStep
    <3>1. PICK r \in Expired : TRUE
      BY <2>2 DEF Reap
    <3>2. r \in Runs /\ Expired = {r} /\ status[r] = "running"
      BY <3>1 DEF Expired, OneActiveRun, Active
    <3>3. status' = [status EXCEPT ![r] = "failed"] /\ UNCHANGED <<source, stored>>
      BY <2>2, <3>2 DEF Reap, ReapExpired
    <3>4. QED
      BY <3>2, <3>3 DEF Ledger!LedgerNext, Ledger!Fail
  <2>3. ASSUME NEW w \in Workers, NEW r \in Runs, Claim(w, r) PROVE LedgerStep
    <3>1. Expired = {}
      BY <2>3 DEF Claim, Expired, OneActiveRun, Active
    <3>2. status' = [status EXCEPT ![r] = "running"] /\ UNCHANGED <<source, stored>>
      BY <2>3, <3>1 DEF Claim
    <3>3. QED
      BY <2>3, <3>2 DEF Claim, Ledger!LedgerNext, Ledger!Start
  <2>4. ASSUME NEW w \in Workers, BeginScan(w) \/ EndScan(w) PROVE LedgerStep
    BY <2>4 DEF BeginScan, EndScan
  <2>5. ASSUME NEW w \in Workers, TakeLock(w) \/ Fence(w) PROVE LedgerStep
    BY <2>5 DEF TakeLock, Fence, ReleaseLock
  <2>6. ASSUME NEW w \in Workers, Commit(w) PROVE LedgerStep
    <3>1. job[w] \in Runs /\ status[job[w]] = "running" /\ snap[w] \in stored .. source
      BY <2>6 DEF Commit, PersistenceFenced, Owns, SnapshotsFresh
    <3>2. Ledger!Succeed(job[w])
      BY <2>6, <3>1 DEF Commit, Ledger!Succeed
    <3>3. QED
      BY <3>1, <3>2 DEF Ledger!LedgerNext
  <2>7. ASSUME NEW w \in Workers, Abort(w) \/ Crash(w) PROVE LedgerStep
    BY <2>7 DEF Abort, Crash, ReleaseLock
  <2>8. ASSUME NEW w \in Workers, FailJob(w) PROVE LedgerStep
    BY <2>8 DEF FailJob, Owns, Ledger!LedgerNext, Ledger!Fail
  <2>9. ASSUME NEW w \in Workers, Renew(w) \/ RenewSkipped(w) \/ RenewRead(w) PROVE LedgerStep
    BY <2>9 DEF Renew, RenewSkipped, RenewRead
  <2>10. ASSUME Tick \/ SourceChanges PROVE LedgerStep
    BY <2>10 DEF Tick, SourceChanges, Ledger!LedgerNext, Ledger!Evolve
  <2>11. ASSUME NEW v \in Reviewers, ReviewLock(v) \/ ReviewUnlock(v) PROVE LedgerStep
    BY <2>11 DEF ReviewLock, ReviewUnlock
  <2>12. CASE UNCHANGED vars
    BY <2>12 DEF vars
  <2>13. QED
    BY <2>1, <2>2, <2>3, <2>4, <2>5, <2>6, <2>7, <2>8, <2>9, <2>10, <2>11, <2>12
       DEF Next, QueueStep, WorkerStep
<1>3. QED
  BY Invariance, <1>1, <1>2, PTL DEF Spec, LedgerImplemented, Ledger!LedgerSpec

----------------------------------------------------------------------------
(* The findings. The composition is a check queue, so the queue's inductive *)
(* invariant is available.                                                  *)

\* The composed system takes only steps of the check queue, so every theorem
\* about CheckQueue holds of it.
THEOREM QualityIsQueue == QualitySpec => Spec
<1>1. QualityInit => Init
  BY DEF QualityInit
<1>2. [QualityNext]_qualityVars => [Next]_vars
  BY DEF QualityNext, qualityVars, Next, WorldChanges, CommitFindings, Review,
     SnoozeRunsOut, QueueStep
<1>3. QED
  BY <1>1, <1>2, PTL DEF QualitySpec, Spec

\* The version that last showed a finding's problem did show it, and no
\* finding was seen later than the findings stored.
SeenInWorld ==
    \A f \in Findings :
        /\ seen[f] <= stored
        /\ table[f].status # "none" => world[seen[f]][f] \in Evidence

QInv ==
    /\ QualityTypeOK
    /\ TableMatchesLastRun
    /\ LogMatchesTable
    /\ SeenInWorld

USE EvidenceAssumption, ViewsAssumption, MaxSourceAssumption

\* persist_results keeps the shape of a row.
LEMMA RecheckType ==
    ASSUME NEW row \in Row, NEW view \in Views
    PROVE  Recheck(row, view) \in Row
  BY DEF Recheck, Row, Views, FindingStatuses, Handled

\* After persist_results a row shows exactly what the scan saw of it.
LEMMA RecheckShows ==
    ASSUME NEW row \in Row, NEW view \in Views
    PROVE  /\ view \in Evidence =>
                /\ Recheck(row, view).status \notin {"none", "resolved"}
                /\ Recheck(row, view).evidence = view
           /\ view = "fine" => Recheck(row, view).status \in {"none", "resolved"}
  BY DEF Recheck, Reopens, Row, Views, FindingStatuses, Handled

\* The event log is written exactly when the status of a row changes.
LEMMA RecheckLogs ==
    ASSUME NEW row \in Row, NEW view \in Views, ~EventWritten(row, view)
    PROVE  Recheck(row, view).status = row.status
  BY DEF Recheck, EventWritten, Reopens, Row, Views, FindingStatuses, Handled

\* The snapshot a committing worker holds lies between what is stored and now.
LEMMA CommitSnapshot ==
    ASSUME IInv, NEW w \in Workers, Commit(w)
    PROVE  /\ snap[w] \in 0..MaxSource
           /\ stored <= snap[w]
           /\ stored' = snap[w]
  BY DEF IInv, TypeOK, Commit, PersistenceFenced, SnapshotsFresh, Owns

LEMMA QualityInitInv == QualityInit => QInv
<1> SUFFICES ASSUME QualityInit PROVE QInv
  OBVIOUS
<1>1. TypeOK
  <2>1. Init
    BY DEF QualityInit
  <2>2. QED
    BY <2>1, InitType
<1>2. stored = 0 /\ world \in [0..MaxSource -> [Findings -> Views]]
  BY DEF QualityInit, Init
<1>3. \A f \in Findings :
        \/ world[0][f] = "fine" /\ table[f] = NoRow
        \/ /\ world[0][f] \in Evidence
           /\ table[f] = [status |-> "ignored", evidence |-> world[0][f], until |-> "null"]
  <2>1. world[0] \in [Findings -> Views]
    BY <1>2
  <2>2. \A f \in Findings : world[0][f] \in Evidence \cup {"fine"}
    BY <2>1 DEF QualityInit, Views
  <2>3. \A f \in Findings : table[f] =
          IF world[0][f] = "fine" THEN NoRow
          ELSE [status |-> "ignored", evidence |-> world[0][f], until |-> "null"]
    BY DEF QualityInit
  <2>4. QED
    BY <2>2, <2>3
<1>4. table \in [Findings -> Row]
  <2>1. \A f \in Findings : table[f] \in Row
    <3>1. NoRow \in Row
      BY DEF Row, NoRow, FindingStatuses
    <3>2. \A e \in Evidence :
            [status |-> "ignored", evidence |-> e, until |-> "null"] \in Row
      BY DEF Row, FindingStatuses, Handled
    <3>3. QED
      BY <3>1, <3>2, <1>3
  <2>2. QED
    BY <2>1 DEF QualityInit
<1>5. TableMatchesLastRun /\ SeenInWorld
  BY <1>2, <1>3 DEF TableMatchesLastRun, SeenInWorld, NoRow, QualityInit
<1>6. logged = [f \in Findings |-> table[f].status] /\ seen = [f \in Findings |-> 0]
  BY DEF QualityInit
<1>7. logged \in [Findings -> FindingStatuses]
  BY <1>4, <1>6 DEF Row
<1>8. QED
  BY <1>1, <1>2, <1>4, <1>5, <1>6, <1>7 DEF QInv, QualityTypeOK, LogMatchesTable

-----------------------------------------------------------------------------
(* The inductive step: one lemma per kind of step that is not the queue's *)

LEMMA CommitKeeps ==
    ASSUME IInv, QInv, NEW w \in Workers, CommitFindings(w)
    PROVE  /\ table' \in [Findings -> Row]
           /\ logged' \in [Findings -> FindingStatuses]
           /\ seen' \in [Findings -> 0..MaxSource]
           /\ TableMatchesLastRun' /\ LogMatchesTable' /\ SeenInWorld'
<1> DEFINE view == world[snap[w]]
<1>1. snap[w] \in 0..MaxSource /\ stored <= snap[w] /\ stored' = snap[w]
  BY CommitSnapshot DEF CommitFindings
<1>2. view \in [Findings -> Views] /\ UNCHANGED world
  BY <1>1 DEF QInv, QualityTypeOK, CommitFindings
<1>3. /\ table' = [f \in Findings |-> Recheck(table[f], view[f])]
      /\ logged' = [f \in Findings |->
                      IF EventWritten(table[f], view[f])
                      THEN Recheck(table[f], view[f]).status ELSE logged[f]]
      /\ seen' = [f \in Findings |-> IF view[f] \in Evidence THEN snap[w] ELSE seen[f]]
  BY DEF CommitFindings
<1>4. \A f \in Findings : view[f] \in Views /\ table[f] \in Row /\ Recheck(table[f], view[f]) \in Row
  BY <1>2, RecheckType DEF QInv, QualityTypeOK
<1>5. table' \in [Findings -> Row]
  BY <1>3, <1>4
<1>6. LogMatchesTable'
  <2>1. \A f \in Findings : logged[f] = table[f].status
    BY DEF QInv, LogMatchesTable
  <2>2. \A f \in Findings : ~EventWritten(table[f], view[f])
          => Recheck(table[f], view[f]).status = table[f].status
    BY <1>4, RecheckLogs
  <2> HIDE DEF view
  <2>3. QED
    BY <1>3, <2>1, <2>2 DEF LogMatchesTable
<1>7. logged' \in [Findings -> FindingStatuses]
  <2>1. \A f \in Findings : table'[f].status \in FindingStatuses
    BY <1>5 DEF Row
  <2>2. \A f \in Findings : logged'[f] = table'[f].status
    BY <1>6 DEF LogMatchesTable
  <2> HIDE DEF view
  <2>3. QED
    BY <1>3, <2>1, <2>2
<1>8. seen' \in [Findings -> 0..MaxSource]
  BY <1>1, <1>3 DEF QInv, QualityTypeOK
<1>9. TableMatchesLastRun'
  <2>1. \A f \in Findings :
          /\ view[f] \in Evidence =>
               /\ table'[f].status \notin {"none", "resolved"}
               /\ table'[f].evidence = view[f]
          /\ view[f] = "fine" => table'[f].status \in {"none", "resolved"}
    BY <1>3, <1>4, RecheckShows
  <2>2. world'[stored'] = view
    BY <1>1, <1>2
  <2> HIDE DEF view
  <2>3. QED
    BY <2>1, <2>2 DEF TableMatchesLastRun
<1>10. SeenInWorld'
  <2> SUFFICES ASSUME NEW f \in Findings
      PROVE  /\ seen'[f] <= stored'
             /\ table'[f].status # "none" => world'[seen'[f]][f] \in Evidence
    BY DEF SeenInWorld
  <2>1. seen[f] \in 0..MaxSource /\ seen[f] <= stored /\ stored \in Nat
    BY DEF QInv, QualityTypeOK, SeenInWorld, TypeOK
  <2>2. table'[f].status # "none" /\ view[f] \notin Evidence => table[f].status # "none"
    BY <1>3, <1>4 DEF Recheck
  <2>3. table[f].status # "none" => world[seen[f]][f] \in Evidence
    BY DEF QInv, SeenInWorld
  <2>4. CASE view[f] \in Evidence
    BY <2>4, <1>1, <1>2, <1>3
  <2>5. CASE view[f] \notin Evidence
    <3>1. seen'[f] = seen[f]
      BY <1>3, <2>5
    <3>2. QED
      BY <3>1, <2>1, <2>2, <2>3, <2>5, <1>1, <1>2
  <2>6. QED
    BY <2>4, <2>5
<1>11. QED
  BY <1>5, <1>6, <1>7, <1>8, <1>9, <1>10

LEMMA ReviewKeeps ==
    ASSUME QInv, NEW v \in Reviewers, NEW f \in Findings, NEW t \in ReviewTargets,
           Review(v, f, t)
    PROVE  QInv'
<1>1. table[f] \in Row /\ Reviewed(table[f], t) \in Row
  BY DEF QInv, QualityTypeOK, Reviewed, Row, ReviewTargets, FindingStatuses, Handled
<1>2. /\ Reviewed(table[f], t).status = t /\ t \notin {"none", "resolved"}
      /\ Reviewed(table[f], t).evidence = table[f].evidence
  BY <1>1 DEF Reviewed, Row, ReviewTargets
<1>3. t \in FindingStatuses
  BY DEF ReviewTargets, FindingStatuses, Handled
<1>4. QualityTypeOK'
  <2>1. TypeOK'
    BY DEF QInv, QualityTypeOK, Review, vars, TypeOK
  <2>2. QED
    BY <1>1, <1>3, <2>1 DEF QInv, QualityTypeOK, Review
<1>5. stored' = stored /\ world' = world /\ seen' = seen
  BY DEF Review, vars
<1>6. TableMatchesLastRun' /\ SeenInWorld'
  BY <1>2, <1>5 DEF QInv, QualityTypeOK, TableMatchesLastRun, SeenInWorld, Review
<1>7. LogMatchesTable'
  BY <1>2 DEF QInv, QualityTypeOK, LogMatchesTable, Review
<1>8. QED
  BY <1>4, <1>6, <1>7 DEF QInv

LEMMA SnoozeKeeps ==
    ASSUME QInv, NEW f \in Findings, SnoozeRunsOut(f)
    PROVE  QInv'
<1> DEFINE row == [table[f] EXCEPT !.until = "past"]
<1>1. row \in Row /\ row.status = table[f].status /\ row.evidence = table[f].evidence
  BY DEF QInv, QualityTypeOK, Row
<1>2. table' = [table EXCEPT ![f] = row] /\ UNCHANGED <<stored, world, logged, seen>>
  BY DEF SnoozeRunsOut, vars
<1>3. TypeOK'
  BY DEF QInv, QualityTypeOK, SnoozeRunsOut, vars, TypeOK
<1> HIDE DEF row
<1>4. QED
  BY <1>1, <1>2, <1>3 DEF QInv, QualityTypeOK, TableMatchesLastRun, LogMatchesTable,
     SeenInWorld

LEMMA WorldKeeps ==
    ASSUME IInv, QInv, WorldChanges
    PROVE  /\ world' \in [0..MaxSource -> [Findings -> Views]]
           /\ TableMatchesLastRun' /\ LogMatchesTable' /\ SeenInWorld'
<1>1. PICK now \in [Findings -> Views] :
        world' = [v \in 0..MaxSource |-> IF v > source THEN now ELSE world[v]]
  BY DEF WorldChanges
<1>2. stored' = stored /\ UNCHANGED <<table, logged, seen>>
  BY DEF WorldChanges, SourceChanges, findingVars
<1>3. stored \in 0..MaxSource /\ source \in 0..MaxSource /\ stored <= source
  BY DEF IInv, TypeOK, SnapshotsFresh
<1>4. world'[stored'] = world[stored]
  BY <1>1, <1>2, <1>3
<1>5. \A f \in Findings : seen[f] \in 0..MaxSource /\ seen[f] <= stored
  BY DEF QInv, QualityTypeOK, SeenInWorld
<1>6. \A f \in Findings : world'[seen[f]] = world[seen[f]]
  BY <1>1, <1>3, <1>5
<1>7. world' \in [0..MaxSource -> [Findings -> Views]]
  BY <1>1 DEF QInv, QualityTypeOK
<1>8. TableMatchesLastRun' /\ LogMatchesTable'
  BY <1>2, <1>4 DEF QInv, TableMatchesLastRun, LogMatchesTable
<1>9. SeenInWorld'
  BY <1>2, <1>5, <1>6 DEF QInv, SeenInWorld
<1>10. QED
  BY <1>7, <1>8, <1>9

LEMMA QualityNextInv == IInv /\ QInv /\ [QualityNext]_qualityVars => QInv'
<1> SUFFICES ASSUME IInv, QInv, [QualityNext]_qualityVars PROVE QInv'
  OBVIOUS
<1>0. TypeOK'
  <2>1. [Next]_vars
    BY DEF QualityNext, qualityVars, Next, WorldChanges, CommitFindings, Review,
       SnoozeRunsOut
  <2>2. QED
    BY <2>1, NextType DEF QInv, QualityTypeOK
<1>1. CASE QueueStep /\ UNCHANGED <<world, findingVars>>
  <2>1. stored' = stored
    BY <1>1 DEF QueueStep, WorkerStep, Enqueue, Reap, ReapExpired, Claim, BeginScan,
       EndScan, TakeLock, Fence, Abort, FailJob, Renew, RenewSkipped, RenewRead,
       Crash, Tick, ReviewLock, ReviewUnlock, workerVars, queueVars
  <2>2. QED
    BY <1>0, <1>1, <2>1 DEF QInv, QualityTypeOK, TableMatchesLastRun, LogMatchesTable,
       SeenInWorld, findingVars
<1>2. CASE WorldChanges
  BY <1>0, <1>2, WorldKeeps DEF QInv, QualityTypeOK, WorldChanges, findingVars
<1>3. ASSUME NEW w \in Workers, CommitFindings(w) PROVE QInv'
  BY <1>0, <1>3, CommitKeeps DEF QInv, QualityTypeOK, CommitFindings
<1>4. ASSUME NEW v \in Reviewers, NEW f \in Findings, NEW t \in ReviewTargets,
             Review(v, f, t) PROVE QInv'
  BY <1>4, ReviewKeeps
<1>5. ASSUME NEW f \in Findings, SnoozeRunsOut(f) PROVE QInv'
  BY <1>5, SnoozeKeeps
<1>6. CASE UNCHANGED qualityVars
  BY <1>0, <1>6 DEF qualityVars, vars, QInv, QualityTypeOK, TableMatchesLastRun,
     LogMatchesTable, SeenInWorld
<1>7. QED
  BY <1>1, <1>2, <1>3, <1>4, <1>5, <1>6 DEF QualityNext

-----------------------------------------------------------------------------
\* The inductive invariant of the composition, on top of the queue's.
THEOREM QualityInvariance == QualitySpec => [](IInv /\ QInv)
<1>1. QualitySpec => []IInv
  BY QualityIsQueue, Invariance, PTL
<1>2. QualitySpec => []QInv
  BY <1>1, QualityInitInv, QualityNextInv, PTL DEF QualitySpec
<1>3. QED
  BY <1>1, <1>2, PTL

\* The finding table shows what the latest successful run saw
\* (persist_results, execute_check, review).
THEOREM TableCorrect == QualitySpec => []TableMatchesLastRun
<1>1. QInv => TableMatchesLastRun
  BY DEF QInv
<1>2. QED
  BY QualityInvariance, <1>1, PTL

\* The event log never lags behind the table (finding_event_values).
THEOREM LogCorrect == QualitySpec => []LogMatchesTable
<1>1. QInv => LogMatchesTable
  BY DEF QInv
<1>2. QED
  BY QualityInvariance, <1>1, PTL

\* What a human decided ends only by a review, by proof, by the end of the
\* snooze or by other evidence (persist_results, review).
THEOREM DecisionsKept == QualitySpec => DecisionsLast
<1> DEFINE Kept == \A f \in Findings :
        table[f].status \in Handled /\ table'[f].status # table[f].status =>
            \/ lock \in Reviewers
            \/ table'[f].status = "resolved"
            \/ table[f].status = "snoozed" /\ table[f].until = "past"
            \/ /\ table[f].status \in {"exception", "ignored"}
               /\ table'[f].evidence # table[f].evidence
<1>1. IInv /\ QInv /\ [QualityNext]_qualityVars => [Kept]_qualityVars
  <2> SUFFICES ASSUME IInv, QInv, QualityNext PROVE Kept
    OBVIOUS
  <2>1. CASE UNCHANGED table
    BY <2>1
  <2>2. ASSUME NEW w \in Workers, CommitFindings(w) PROVE Kept
    <3> SUFFICES ASSUME NEW f \in Findings, table[f].status \in Handled,
                        table'[f].status # table[f].status,
                        table'[f].status # "resolved"
                 PROVE  \/ table[f].status = "snoozed" /\ table[f].until = "past"
                        \/ /\ table[f].status \in {"exception", "ignored"}
                           /\ table'[f].evidence # table[f].evidence
      OBVIOUS
    <3>1. PICK view \in Views : table'[f] = Recheck(table[f], view)
      <4>1. snap[w] \in 0..MaxSource
        BY <2>2, CommitSnapshot DEF CommitFindings
      <4>2. world[snap[w]][f] \in Views
        BY <4>1 DEF QInv, QualityTypeOK
      <4>3. table'[f] = Recheck(table[f], world[snap[w]][f])
        BY <2>2 DEF CommitFindings
      <4>4. QED
        BY <4>2, <4>3
    <3>2. table[f] \in Row
      BY DEF QInv, QualityTypeOK
    <3>3. QED
      BY <3>1, <3>2 DEF Recheck, Reopens, Row, Views, FindingStatuses, Handled
  <2>3. ASSUME NEW v \in Reviewers, NEW f \in Findings, NEW t \in ReviewTargets,
               Review(v, f, t) PROVE Kept
    BY <2>3 DEF Review
  <2>4. ASSUME NEW f \in Findings, SnoozeRunsOut(f) PROVE Kept
    BY <2>4 DEF SnoozeRunsOut, QInv, QualityTypeOK, Row
  <2>5. QED
    BY <2>1, <2>2, <2>3, <2>4 DEF QualityNext, WorldChanges, findingVars
<1>2. QED
  BY QualityInvariance, <1>1, PTL DEF QualitySpec, DecisionsLast

\* A finding is resolved only by a covering scan newer than the last that saw
\* it, and reopens only when it is seen again (persist_results, review).
THEOREM ResolvedByProof == QualitySpec => ResolvedByNewerProof
<1> DEFINE Proved == \A f \in Findings :
        /\ table[f].status # "resolved" /\ table'[f].status = "resolved" =>
             /\ world[stored'][f] = "fine"
             /\ stored' > seen[f]
        /\ table[f].status = "resolved" /\ table'[f].status # "resolved" =>
             world[stored'][f] \in Evidence /\ stored' > stored
<1>1. IInv /\ QInv /\ [QualityNext]_qualityVars => [Proved]_qualityVars
  <2> SUFFICES ASSUME IInv, QInv, QualityNext PROVE Proved
    OBVIOUS
  <2>1. CASE UNCHANGED table
    BY <2>1
  <2>2. ASSUME NEW w \in Workers, CommitFindings(w), NEW f \in Findings
        PROVE  /\ table[f].status # "resolved" /\ table'[f].status = "resolved" =>
                    /\ world[stored'][f] = "fine"
                    /\ stored' > seen[f]
               /\ table[f].status = "resolved" /\ table'[f].status # "resolved" =>
                    world[stored'][f] \in Evidence /\ stored' > stored
    <3>1. snap[w] \in 0..MaxSource /\ stored <= snap[w] /\ stored' = snap[w]
      BY <2>2, CommitSnapshot DEF CommitFindings
    <3>2. /\ table'[f] = Recheck(table[f], world[stored'][f])
          /\ table[f] \in Row /\ world[stored'][f] \in Views
      BY <2>2, <3>1 DEF CommitFindings, QInv, QualityTypeOK
    <3>3. /\ seen[f] \in 0..MaxSource /\ seen[f] <= stored /\ stored \in 0..MaxSource
          /\ table[f].status # "none" => world[seen[f]][f] \in Evidence
          /\ world[stored][f] \in Evidence => table[f].status # "resolved"
      BY DEF QInv, QualityTypeOK, SeenInWorld, TableMatchesLastRun, IInv, TypeOK
    <3>4. ASSUME table[f].status # "resolved", table'[f].status = "resolved"
          PROVE  /\ world[stored'][f] = "fine"
                 /\ stored' > seen[f]
      <4>1. world[stored'][f] = "fine" /\ table[f].status # "none"
        BY <3>2, <3>4 DEF Recheck, Reopens, Row, Views, FindingStatuses, Handled
      <4>2. stored' # seen[f]
        BY <4>1, <3>3
      <4>3. QED
        BY <4>1, <4>2, <3>1, <3>3
    <3>5. ASSUME table[f].status = "resolved", table'[f].status # "resolved"
          PROVE  world[stored'][f] \in Evidence /\ stored' > stored
      <4>1. world[stored'][f] \in Evidence
        BY <3>2, <3>5 DEF Recheck, Row, Views
      <4>2. stored' # stored
        BY <4>1, <3>3, <3>5
      <4>3. QED
        BY <4>1, <4>2, <3>1, <3>3
    <3>6. QED
      BY <3>4, <3>5
  <2>3. ASSUME NEW v \in Reviewers, NEW f \in Findings, NEW t \in ReviewTargets,
               Review(v, f, t) PROVE Proved
    BY <2>3 DEF Review, Reviewed, ReviewTargets, QInv, QualityTypeOK, Row
  <2>4. ASSUME NEW f \in Findings, SnoozeRunsOut(f) PROVE Proved
    BY <2>4 DEF SnoozeRunsOut, QInv, QualityTypeOK, Row
  <2>5. QED
    BY <2>1, <2>2, <2>3, <2>4 DEF QualityNext, WorldChanges, findingVars
<1>2. QED
  BY QualityInvariance, <1>1, PTL DEF QualitySpec, ResolvedByNewerProof
=============================================================================
