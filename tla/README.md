# Kulturbytes Admin: TLA+ models, checks and proofs

`uranus-admin` is the administration application of the Uranus event platform: a
FastAPI backend, a Nuxt browser application with a forwarding proxy, four worker
processes, and the Ansible roles that install them. It reads the Uranus *source*
database and never writes to it; everything it decides itself is kept in a
PostgreSQL schema of its own, `admin`. Almost all of what can go wrong lies
between those two: the source changes while it is being looked at, several
processes and several people write the same `admin` rows, workers crash or lose
their lease in the middle of an operation, and mail servers, geocoders, web
servers and browsers answer late or not at all.

The modules here model those protocols, action by action from the code; TLC checks
them on small instances, and TLAPS proves the theorems of section 5 for every number of runs,
workers, administrators, documents and so on.

Paths of Python files are relative to `backend/app/`, of TypeScript files to
`frontend/app/` (the console's proxy, `ws.ts`, is below `frontend/server/`), and of
documents to `backend/`.

## 1. The system

```
             source database (read only, changes at any time)
      ┌───────────┬──────────────┬───────────────┬─────────────┐
 check_worker  notification_   geocode_       url_check_    HTTP backend ── WebSocket ── proxy ── browser
      │        worker          worker         worker           │   (API, SQL console)
      │           │  └─ SMTP      │ └─ Nominatim  │ └─ the web     │
      └───────────┴──────── admin schema (PostgreSQL) ────────────┘
```

Processes share nothing but the `admin` schema, and coordinate in four ways:
row locks (`FOR UPDATE`, `SKIP LOCKED`), advisory locks, leases (`worker_id` and
`lease_until` on a claimed row), and unique indexes. External calls are never made
inside a transaction, so each of them lies between a *claim* and a *fenced* write
that looks again whether the claim still stands.

### Inventory

| component | state | operations | what is hard | what makes it correct | here |
|---|---|---|---|---|---|
| Check queue (`services/checks.py`, `check_worker.py`) | `check_run` rows, advisory locks, each worker's job and heartbeat | enqueue, claim with reaping, renew, persist under a fence, fail | leases that run out under a worker, a heartbeat against the worker's own row lock, crashes | one active run; only the owner persists; findings never go back; runs end | `CheckQueue`, `CheckLedger`, proofs |
| Finding table and review (`services/checks.py`, `services/quality/engine.py`) | `finding`, `finding_event` | `persist_results`, `review`, snoozes | reviews and runs decide about one row from different moments | the table is what the last run saw; decisions yield only to proof; the log keeps up | `FindingTable`, `QualityChecks`, proofs |
| Assignments and inbox (`services/assignments.py`, `inbox.py`) | `assignment` with versions and events | create, update, complete, reopen, snooze, list | optimistic versions, creations that looked before they locked, reopening against creating | one responsible assignment per task; nothing hidden for ever; the log ends in the row | `Assignments`, `TaskOwnership`, proofs |
| Notifications (`notification_worker.py`, `repositories/notifications.py`, `services/notifications/`) | `notification`, `notification_delivery` | collect, synchronize, claim within a daily budget, recheck, send, finish, manual retry | a history read without locks, an ambiguous SMTP outcome, budgets | no overlap, no repeated mail, sent history stays, daily cap, everything settles | `NotificationDelivery`, `NotificationCap`, proofs |
| Geocode queue (`geocode_worker.py`, `repositories/geocode.py`) | `geocode_request`, `geocode_candidate` | reconcile, discover, claim, two rereads, attempt, finish, retry, read | addresses change while the provider is asked | shown suggestions fit the address; candidates are immutable; requests settle | `GeocodeQueue`, proofs |
| URL checks (`url_check_worker.py`, `services/url_reachability.py`) | `url_check`, the `url_unreachable` findings | cycle, discover, claim, probe, finish | URLs change between failures; budgets and host locks read before an await | two failures of one URL warn, a success clears, URLs are observed again | `UrlChecks`, proofs |
| Sessions and accounts (`auth/service.py`, `auth/manage.py`, `auth/maintenance.py`) | `auth_account`, `auth_session` | login, identity and heartbeat, logout, management, retention | a slow password check and slow requests against management | only current credentials; dead sessions stay dead; used ones live | `AuthSessions`, proofs |
| SQL console (`api/sql_console.py`, `sql_console/runtime.py`, `composables/useSqlConsole.ts`, `ws.ts`) | page, connection handler, query tasks, slots | execute, ack, cancel, deadline, disconnect, shutdown, timers | three event loops and a network, each step between two awaits | whole results, no orphaned query, a page that ends | `SqlConsole`, proofs |
| Lists (`repositories/timeline.py`, `activity.py`, findings in `services/checks.py`) | rows that move within their order | page by cursor | rows that change, or come, between two pages; two databases | what does not change is listed exactly once | `CursorPages`, proofs |
| Research planner (`research/wire`, `research/normalize*.py`, `research/capabilities.py`, `services/research_plan_execution.py`) | none | translate a plan of one of 13 contracts, gate it, choose its query | a field of the plan that the chosen query does not consume | nothing the question said is dropped silently | `ResearchPlans` |
| Resolution of words (`repositories/research_resolution.py`) | cached boundaries and areas | places, areas, names, types one after the other | several snapshots, imports between them, fallbacks | what is executed means what was said, or the user is asked | `PlanResolution`, proofs |
| Conversations (`research/conversation_state.py`, `services/research_conversational.py`, `research/conversation.py`) | bounded process-local turns with expiry; summaries, facts, a pending question | turn, evict, remember, replay | eviction while turns wait; what a turn leaves to the next under each contract | limits hold, busy turns survive, context follows the question | `Conversations`, `ResearchTurns`, proofs |
| Semantic search (`services/semantic_search.py`) | two snapshots and an index that lags | retrieve, rank, cut, page | texts and dates long gone | every shown hit matches in the second snapshot; the best are shown | `SemanticSearch`, proofs |
| Taxonomy (`services/taxonomy_resolution.py`, `research/taxonomy*.py`) | an external collection and its calibration | rebuild, calibrate, look up | a request reads a collection that is being rebuilt | an accepted entry is the one the reviewed cases allow | `TaxonomyIndex`, proofs |
| Vector index (`research/vector_sync.py`) | external vector store | plan, upsert, relabel, delete | interruption anywhere, a source that goes on changing | a run that ends mirrors its snapshot; documents are found in whole | `VectorSync`, proofs |
| Research areas (`research/areas.py`, `administrative_areas.py`, `population.py`) | `research_area` and populations | three imports under one lock | boundaries replaced, keys passed on, dates | areas of a level are disjoint; a population fits its key | `AreaImport`, proofs |
| Research suggestions (`repositories/research_suggestions.py`, `services/research_learning.py`) | suggestions, receipts, counters | impression, selection, learning | concurrent executions with one receipt | everything counts once | `SuggestionLearning`, proofs |
| Deployment: console boundary, admin schema, activation, release files (`ansible/`) | catalogs, a migration process, a host's files and units, the controller's files | provision and verify; bootstrap and upgrade; activate and recover; package and deploy | catalog snapshots older than the lock; a migration that outlives its controller; any task failing; several files written one by one | see section 3 | `ConsoleBoundary`, `AdminDatabase`, `Activation`, `ReleaseControl`, proofs |
| Login throttle (`auth/service.py`) | fixed windows per source, login and everyone | count an attempt | an attempt at a window's boundary | no more attempts than the limit per window | one statement per window, not modelled |
| Quality rules, source readers, other read models | none | pure functions and read-only SQL of one snapshot | - | - | their verdict is data (`world` in `QualityChecks`) |
| Geographic scopes | boundaries | geometry on read | - | - | spatial data is out of TLC's reach |
| Nominatim client, reachability probe, mail composition | none | one external call, one rendering | - | - | any answer they can give is a choice in the modules that call them |
| Frontend stores and proxy | one page's caches and revisions | load, invalidate | late answers of an older session | no data of another session is shown | only the console's page is modelled |
| SQL diagnostics and provenance, wiring, configuration, schema contract, encoder | none | registered statements, start-up checks | - | - | no shared state |

`PROJECT.json` lists the components with their files, and under `hazards` every
place in the code where an interleaving, a crash, a timeout or a boundary bites, with
the properties that watch it, or why none does.

## 2. Conventions of the models

* **One action is one atomic step of the code**: a database transaction, or what an
  event loop runs between two awaits. Where the code reads, awaits and then writes,
  there are two actions and a variable that carries what was read (`snap`, `seen`,
  `plan`, `mine`, `target`). What a transaction only reads of rows it did not lock is
  such a carried value too.
* **A lease is the time it has left**: `lease[r] = 0` is "NULL or past", a claim or a
  renewal sets it to `Lease`, `Tick` lowers all of them. No clock is needed, and
  the state space stays finite without bounding time.
* **Retry delays** are a flag (`wait`, `due`) that an action sets when the delay is over.
* **Data is reduced to what decisions compare**: a scan is the version of the
  source it saw, an address is a number, a mail is the stage of each notification it
  reports, a URL is a model value, a batch of rows is its number.
* **Crashes** drop a process's local state and its locks; rows keep what was committed.
* **Histories** (`seen` and `world` in `QualityChecks`, `observed`, `epoch`, `opened`,
  `used`, `replies`, `mailed`, `mirrored`, `offered`, `removed`) record what happened, and are
  read by properties only.
* Operators commented `Mutant:` are what a plausible bug would make of the definition
  that follows them. No specification uses them; each shows that the property it is
  listed with in `PROJECT.json` can fail.

## 3. The modules

### CheckQueue, CheckLedger

A run is a row of `check_run`. `Enqueue` is `enqueue_check`; `Claim` and `Reap` are
`claim_check`, which first fails every expired run (waiting for rows that are
locked) and then claims the oldest queued one; `BeginScan` ... `Commit` are
`execute_check`: the REPEATABLE READ snapshot (`snap`), the rules, the advisory lock
`LOCK_KEY` (`lock`), `SELECT ... FOR UPDATE` of the owned run (`Fence`), and the commit
of findings and success together. `Renew`, `RenewSkipped`, `RenewRead` are the heartbeat
`renew_lease`, which skips a locked row and then has to tell its own persistence from
a lost lease. `Abort` is every way in which `execute_check` fails, `FailJob` the
cleanup after it, which is a no-op once the run is no longer owned. `ReviewLock` is
the review's session lock. The row lock of `execute_check` is held exactly while
`pc[w] = "persisting"`; `QUEUE_LOCK_KEY` makes enqueueing and claiming atomic.

`CheckLedger` is what callers are promised: runs one at a time, each ended once, and
findings that change only with a success, to a view between the one shown and the
present. `CheckQueue` implements it with `status`, `source` and `stored` as they are.

### FindingTable, QualityChecks

`FindingTable` holds what `persist_results` and `review` make of a row: `Recheck`
(insert, reopen, resolve), `EventWritten`, `Reviewed`. `QualityChecks` EXTENDS
`CheckQueue`: `world[v]` says what version `v` of the source shows of each finding,
`CommitFindings` is `Commit` with `persist_results` applied to the rows *as they are at
the commit*, `Review` is a review under the lock, `SnoozeRunsOut` is time. "gone" is an
entity the scan did not cover: such findings keep their status.

### Assignments, TaskOwnership

`TakeIn` is what a creation does before it has its task's lock (the task exists, is open, and
nobody holds it), `Assign` what it does under it, with the two partial unique indexes as the
last word. A finding with an exception, or an ignored one, can still be assigned but is no
longer listed by itself; `standing` tells such a task (`"decided"`) from an open and a closed
one, and `Assignable` and `AwaitsSomebody` are the two conditions. `FillForm` and `Revise` are a
browser that loads an assignment and submits it under the version it loaded; `Revise` locks the
row, not the task, so a reopening can meet a creation, and one of them fails at the index.
Snoozes run out (`Expire`), tasks change their standing, administrators are switched off at any
time. `TaskOwnership` is the promise: a task gets a responsible assignment only while it has
none, and loses it only by that assignment's own end.

### NotificationDelivery, NotificationCap

The mails of one organization to one recipient. `Collect` reads the evidence,
`ReadHistory` takes the organization's lock and reads the deliveries without locking
them, `Plan` writes what was decided from that history: it cancels stale intents by
id and queues the batches that no unique index refuses. `Claim` examines due rows in
an arbitrary order, gives up exhausted ones, defers those over budget, and claims one.
`Recheck` (new evidence), `Revalidate` (against the rows as they are then), `DropObsolete`,
`StartSending`, `Heartbeat`, `Smtp`, `Break` and `Finish` are
the delivery, with every fence as the code has it (the cancellation of an obsolete
intent asks for the worker only). `Retry` is an administrator's retry of a permanent
failure.

`known` holds the `notification` rows: their status and the *episode* of their payload. A plan
rewrites them (`Synchronized`): a notification that had ended and comes back starts the next
episode. `Reports` is what a mail would say of each row, its episode and its stage, and an item is
due (`Eligible`) for the first mail of an episode, at whatever stage, or for an escalation within
one. The stage may also fall within an episode (a date that is moved back). `MailsEscalate`
compares two mails sent one right after the other: a planned second one is `Later`, of a later
episode, or of the same and at a later stage. A retry of an old failure may report an earlier
stage again, and the stage mailed before it is then due once more.

`NotificationCap` adds what the recipient sees: `mailed` is what SMTP accepted today,
`lost` that a lease ran out on a claim of today, `mistaken` that an accepted mail was
recorded as a failure. `SingleSpec` starts a pass only when the one before has ended, as the
systemd timer does (`OneAtWork`).

### GeocodeQueue

A pass holds the worker lock. `Reconcile`, `Adopt` and `Discover` bring the requests in
line with three source reads taken at different times; `Claim`; `Check` and `Recheck`
are the rereads before and after the provider is asked, whose outcomes `Obsolete` and
`Changed` are steps of their own; `Ask` is the fenced `begin_attempt` with any answer;
`Finish` the fenced result. Generations are not counted: `fresh[w]` says whether the
generation that `w` claimed is still the current one, and `suggestion` holds the
current generation's candidates. `Shown` is what `enrich()` returns to a reader.

### UrlChecks

`BeginCycle` takes the snapshot, `Discover` writes it to `url_check` later; then each
field has a chain: `TakeSlot` (the semaphore), `Enter` (the host's lock, then the
budget), `Claim`, `Finish` with any classified answer, `Pause`. The finding of a field is
a `FindingTable` row whose evidence is the URL it was detected for. `Review` is the
review of such a finding. `observed` is the history of recorded observations.

### AuthSessions

`LoginRead`, `LoginVerify`, `LoginRecheck`, `LoginInsert` are `login()`, which verifies the
password outside any transaction and looks at the account again before it inserts the
session. `Begin`, `Identify`, `Beat` are `session_identity()`: a request takes its `now`
before it reaches the database, so slow requests carry old times. `Manage` is
`manage_account`, `Cleanup` the retention job, `Revoke` a logout.

### SqlConsole

The page (`Execute` to `OnClose`), the connection handler of each socket
(`OnDisconnect` to `IdleTimeout`) and the query task (`TaskRows` to `Report`), with
frames in flight as two sequences per connection. `Full` is the slot limit. Python's
task cancellation is modelled by where the task is (`Cancelled`): a created task never
starts, a waiting query is rolled back, a rollback is cut short, a verdict that is
being sent may stay unsent. The page has a timer it can clear and, when two
executions overlap, one that it has forgotten. `Slots` is `sql_console_max_connections`.

### CursorPages

A walk through a list that is not a snapshot: `ReadRows` reads what comes after the cursor,
from each database at its own time, `ShowPage` merges, cuts and makes the next cursor,
`Touch` inserts, moves or removes rows in between. Timeline, activity (whose cursor carries
its window) and the findings of a scope are three values of `stream`.

### ResearchPlans, PlanResolution, ResearchTurns

`ResearchPlans` takes any plan the configured contract lets a planner say (`Plan`), translates
it (`Normalise`), and asks the gates; `Executes` is the query family that would run, of which
the module knows what it consumes. Its one property compares what was said with what is
consumed. `PlanResolution` resolves the words of such a plan, in the order and with the
snapshots of the code. `ResearchTurns` follows one conversation: which contract a request is
planned with, what context it is given, what it leaves to the next.

### Conversations

The store itself, with several requests at once: `Start` and `Continue` expire, evict and
enter a conversation in one go, `Reply`, `Research`, `Answer` and `TurnFails` are what may
happen while others run.

### SemanticSearch, TaxonomyIndex, VectorSync

`ReadEligible`, `Rank`, `Rehydrate` are a search over two snapshots of the source; the index
answers with any evidence. `VectorSync` is the job that keeps such an index: `StartSync` plans
from one snapshot and the points it finds, `Embed`, `Stamp`, `Delete` are its requests, `CutOff`
can come between any two. `TaxonomyIndex` is the small collection of types and genres, its
rebuild, its calibration (`Measure`, `Calibrate`) and the reads of a request that asks what a
word means. The request scrolls the whole collection and compares it (`ScrollOn`), but the query
after that returns `Limit` points of a kind, six in the code (`Hits`: the nearest, and of
equally near ones any), and only those are validated (`Ask`). `proposal.hidden` records that a
point which was close to the word when it was scrolled has been rewritten since and is not among
them.

### SuggestionLearning, AreaImport

`Show` and `Choose` lock a suggestion and are written by `Report`; `Execute` locks it for
`Learn`, unless `GiveUpWriting` comes first. `AreaImport` has one action per import for planning
under the lock and one for applying what was planned.

### ConsoleBoundary, AdminDatabase, Activation, ReleaseControl

The four protocols of the deployment. `ConsoleBoundary` models what PostgreSQL lets a
transaction see of catalogs that others change: queries see the snapshot, privilege functions
and writes the newest version. `AdminDatabase` separates the module, which can time out or
die, from the migration it started, which then goes on alone. `Activation` is the playbook task
by task, with its rescue, its lost connections and the attempt after that. `ReleaseControl` is
the controller: packaging and deploying under one lock file, the files edited by hand.

## 4. The runs

Parts that share no state are checked side by side in one run: in each behaviour one of them
moves, and the others rest in one of their initial states. This is sound (each part's
behaviours are all there, and no part's properties depend on another's variables) and shows the
same as a run of its own, at the cost of the sum of the state spaces.

| run | parts and instance | states | shows |
|---|---|---|---|
| `worker_queues` | check queue: 2 runs, 2 workers, 1 reviewer, lease 2, 2 source changes; geocode queue: 1 entity, 3 addresses, 2 workers, 3 faults; fair | 111 k | `PersistenceFenced`, `LostLeaseIsFinal`, `LedgerImplemented`, `QueuedRunsEnd`; `ShownFitsSource`, `Settles` |
| `findings` | quality checks: lease 1, one finding with two kinds of evidence; assignments: 1 task, 2 assignments, 2 administrators, 2 forms | 1.02 M | `TableMatchesLastRun`, `DecisionsLast`, `ResolvedByNewerProof`; `InboxAccounts`, `OwnershipImplemented` |
| `notification_delivery` | 2 workers at once on 1 notification with 2 stages and 2 episodes; workers one after the other on 2 notifications under a cap of 1; 2 deliveries | 1.71 M | `OneDelivery`, `MailsEscalate`, `CapWhileLeasesHold` |
| `notification_live` | 1 worker, 1 notification with 2 stages and 2 episodes, fair | 206 k | `OutstandingSettles` |
| `notification_cap_crash` | 1 worker, 2 notifications | - | violated: `DailyCap` |
| `notification_history` | 2 workers, 1 notification, 1 delivery | - | violated: `SentHistoryImmutable` |
| `url_checks` | 1 field, 2 URLs, 2 workers, 1 fault, fair | 411 k | `FindingsFollowAnswers`, `Observes` |
| `sql_console` | 2 queries, 2 batches, 2 session checks, 1 slot, fair | 1.13 M | `CompletedShowsAll`, `NoOrphan`, `BusyEnds` |
| `administration` | sessions, lists, and the jobs and protocols of the deployment | 1.16 M | `KeptAlive`, `AcceptedIsCurrent`, `DeadStays`; `UnchangedOnce`; `DoneBoundaryHolds`; `CreateIsTemporary`; `EndsWhole`, `MaintenanceCovers`; `PinsAgree`; `IndexMirrors`, `StaysWhole`; `AreasDisjoint`, `PopulationFits` |
| `research` | planner, resolution, turns, store of conversations, search, taxonomy, suggestions | 1.13 M | `NothingDropped`; `MeansWhatWasSaid`; `ContextFollows`; `ConversationKept`; `AnswersHold`; `ReviewedAnswers`; `LearnedOnce` |
| `research_memory` | turns under contract v13, 2 requests | - | violated: `NoStaleSelection` |
| `research_fallback` | resolution of plans of 2 words | - | violated: `FallbackNeverExecutes` |

Every run sets `CHECK_DEADLOCK FALSE`: the bounds on rows, versions, requests or the clock let
the instance come to an end where the system would go on.

### What the bounds mean and why they are enough

* `Runs`: only one run is ever active; a second one is what a reaper makes room for. Two
  workers are the one that lost its lease and the one that took over.
* `Lease`: 1 distinguishes live from expired; 2 is used for the check queue, where a renewal
  of a lease that is neither new nor expired matters.
* `MaxSource`: two changes give a scan that is older than another and one that is newer. The
  three addresses of the geocode queue are the one claimed, the one read again and the one
  the reader sees; an address may come back.
* `MaxFaults`: a lease outlives an evaluation unless something is wrong, so crashes and
  overruns are counted together and bounded. Without the bound liveness would need an
  assumption that faults stop. Three (one) of them hand one row from worker to worker and back.
* `MaxDeliveries`, `MaxStage`, `MaxEpisode`: a mail and its escalation, or a failure and its retry,
  or a mail and the one of the next episode, at any stage. The bound on episodes stops the source
  from bringing an event back; stale evidence may still start one more.
  `MaxAttempts` 2 gives one repeated attempt and one given up. `Cap` 1 is the smallest
  budget, spent by one mail. The part with the cap lets no two workers work at once, as the
  systemd timer does; with two, `SentHistoryImmutable` fails (`notification_history`).
* Assignments: two holders, and two forms filled from different versions, are what a conflict
  takes; `MaxRevision` 3 allows an end and a reopening.
* `Heartbeat < Idle <= Lifetime` (1, 2, 3 with a clock of 4) is what `config.py` demands; the
  clock passes every limit of a session created at once.
* Console: `MaxRequests` 2 and `MaxChecks` 2, since the second query is the one that can meet
  what the first left behind; `Slots` 1 lets them compete.
* Deployment: two runs with different passwords and one change of the catalogs by others; two
  controllers, one change and one lost cleanup; two attempts of which one may break, one unit
  down at first, one intervention by the operator; two operators and one edit by hand.
* `CursorPages`: three rows and pages of one, so that one row lies before, one at and one
  behind the cursor; one touch.
* Vector index: two documents with two texts, three edits: one before, one in and one between
  two runs. Areas: three relations on two parcels of land, two keys and two dates.
* Research: contracts v3, v6, v8, v9 and v12 stand for the 13 (v5, v10 and v11 lie
  between their neighbours, v13 wraps v12's plan), with a vocabulary that has one member of each
  kind the translation tells apart. One conversation of three requests, of which two are
  remembered; a store of two conversations with three handles. Of three events one has two
  dates. A taxonomy of one type and three genres with one job (within the eight seconds a request
  has, the jobs' lock allows one rebuild), `Limit` 2 so that a kind has more entries than a query
  returns, and `UpsertBatch` 1, so that a request meets a half-written collection. Two words: one
  near to one genre, one near to several.
* Symmetry is used in runs without liveness only. Where parts run side by side, one
  permutation exchanges members of one set of *each* part, since only one of them moves; values
  in which the state of a resting part is asymmetric are left alone.
* The views of `administration` and `notification_delivery` leave out what no later step and no
  property reads: the lease of a row that is not being sent, the attempts and delays of one
  that ended, the anchors of a cancelled one; the transaction of a provisioning run that has
  none; the flags of an activation that ended. Each module's guards show it.

### Fairness

* Check queue: time passes, a worker's next step is taken, a scan ends (statement
  timeouts), workers poll (`Reap`, `Claim`), a review ends. Strong fairness that *some* worker
  gets the lock: PostgreSQL queues waiters of an advisory lock, and reviews only *try* it.
  Heartbeats are not assumed to happen. The fairness of a queue is asked only where it moves.
* Geocode queue: passes start, proceed and end; leases and delays run out. Strong fairness that
  *some* worker claims a request: a pass may end after any number of claims (the batch
  size), but a due request is not left out of every pass (it is the oldest at some time).
* `notification_live`: a pass is started again by its systemd timer and proceeds; days and
  retry delays pass. `ReadHistory`, `Plan` and `Claim` are strongly fair: a pass that
  crashes starts over from `Collect`, and crashes do not hit the same step for ever.
  Nothing is assumed of SMTP or of the source.
* `url_checks`: cycles start every minute, chains proceed, leases run out, rows come due.
* `sql_console`: only the page's session checks are answered and its timers fire. Neither
  server nor network has to do anything.

## 5. What is proved

The modules named `...Proofs` are checked by TLAPS for arbitrary sets of runs, workers,
administrators, documents and so on, from the assumptions stated in the modules: bounds are
numbers, null values are distinct from the sets they extend, workers and reviewers are
disjoint. Sets are assumed finite only where the code counts or takes a greatest one: the
identifiers of areas, the rows of lists, the entries and reviewed cases of the taxonomy. Where a
property counts (`LearnedOnce`, `ConversationKept`, the hits of a search) the state itself is
shown to be finite. None of the properties is inductive as it stands; each proof has a strengthened
invariant that TLC checked first, a lemma per action that it is preserved, and a last step that
the property follows.

**Check queue.** The properties of the run are not inductive. `PersistenceFenced` says
that a worker in its final transaction owns its run, but what keeps it so is that
nobody can reap a run while its row is locked, that a run's lease cannot be lost *and*
the run still running under another owner, and that the lock is really held in the
places where the code believes it. The inductive invariant is

    IInv == TypeOK /\ JobsMatch /\ ClaimsMatch /\ LockHeld /\ SnapshotsFresh
            /\ OneActiveRun /\ PersistenceFenced /\ LostLeaseIsFinal

`JobsMatch` ties a worker's place to its job and heartbeat, `ClaimsMatch` a run's status
to its owner and lease, `LockHeld` the advisory lock to the places inside it, and
`SnapshotsFresh` a worker's snapshot to what is stored. The last one carries
`FindingsMoveForward`: only the one active run can commit, and its owner takes the snapshot
after the claim, so nobody stores a newer view before this run has ended. Each of the actions is
one step of the proof of `Invariance`; the action properties `EndedStays` and
`FindingsForward` and the refinement `LedgerRefinement` follow from the invariant, with one
step per action that maps to a ledger action and stuttering for the others.

**Findings.** `QualityIsQueue` shows that the composition's behaviours are behaviours of
the queue, so all theorems above hold of it. Its inductive invariant
`QInv == QualityTypeOK /\ TableMatchesLastRun /\ LogMatchesTable /\ SeenInWorld` needs the
queue's: what the stored version of the source shows must not change after the run that
stored it, which holds because snapshots never come from the future (`stored <= source`)
and the source only adds versions. `SeenInWorld` says that the latest detection of a listed
finding is not newer than the stored version, and really shows the problem; with the
queue's `SnapshotsFresh` it gives `ResolvedByProof`: a scan that finds the entity in order
cannot be the version of the detection, so it is a later one.

**Assignments.** `AssignmentsInv` adds to the types `OneHolder` (the unique index: no two active
assignments of one task), `FormsOfRows` (a form was filled from a row, whose version has not
gone back since) and `RowsLogged` (the events of a row count its versions and end in it).
`InboxCorrect` and the refinement `OwnershipCorrect` follow; in the latter a creation that
looked long ago and a reopening map to the same abstract step, *take*, which is enabled because
the index refused everything else.

**Geocode queue.** `GeocodeInv` is the types, `OnePass` (the worker lock), `Answers` (a result exists
just where it is used), `ClaimsFit` (a worker that still owns its claim, and whose generation is
the current one, asks about the fingerprint in the row) and `RequestsFit` (candidates are
of the row's fingerprint). `SuggestionsFit` and `CandidatesNeverReplaced` follow.

**Notifications.** A plan is written from a history that others have changed since: rows it read
as queued may be claimed, sent, cancelled or given up by then. `MailsInv` therefore says of a
plan that is about to be written (`PlansFit`) what survives all of that: what it cancels nobody
follows, and what it inserts overlaps with no outstanding row that it does not cancel, and still
follows the last mail sent (`Follows`), though that mail's row may have ended meanwhile.
`Anchored` says the same of the rows themselves: an outstanding or sent delivery that was
planned reports more (`Later`) than the last mail sent before it, which is its anchor. That a
recurrence gets a later episode than every mail sent before it is a second invariant,
`EpisodesFit`: no mail, planned or sent, is about an episode beyond that of the notification's
row, and no plan takes a row's episode back, whatever evidence it was made from, because plans
are made one at a time. With `RanksFit` (the order of `sent_at` is strict), `NoOverlap` and
`OneSuccessor`, `DeliveredOnce` and `MailsCorrect` follow. That the batches of a plan go to
distinct rows is a lemma of its own (`BatchRows`, a counting argument), and that there is a last
mail is proved by the least counterexample (`LeastOf`). The cap is proved of `SingleSpec`:
`CapInv` adds that a row is claimed by the one worker at work (`JobsHeld`), that a plan cancels
no claimed row (`StaleStill`, where a second worker would break it), that the counted rows keep
within the budget (`BudgetKept`), and that they contain what was mailed (`MailedFits`).

**Sessions.** `AuthInv` = `TypeOK`, `NothingYet` (before there is an account there is nothing else),
`VersionsTell` (the account's version counts its changes, and a session's version says which
account its password was verified against), `TimesPassed`, `RequestsFit` and `UsesFit` (the
times a slow request carries are those of its own start) and `KeptAlive`. `AcceptedSessionsCurrent`,
`DeadSessionsStay` and `SeenNeverBack` are action properties under it.

**URL checks.** `UrlsInv` is the types, `RowsHoldUrls` (only a row with a URL is due or claimed),
`StreaksFit` (a row that counts failures counts answers about the URL it has now) and
`SuccessesFit` (a success leaves no finding open). An answer that comes late is fenced by the
claim; `RecordedAnswer` says what one that counts does to row and finding, and
`FindingsCorrect` is an action property under it.

**Lists.** `PagesInv` splits the rows that nobody touched at the cursor: those up to it have been
shown and no others (`ShownSoFar`). `ReadFits` says of a page in the making that, of what was read,
either every such row behind the cursor is there, or more than a page of rows that come before it;
that the first of them are a page is a fact about finite ordered sets, proved as lemmas.

**SQL console.** `SqlInv` is the types, `Fresh` (queries not yet begun have left nothing anywhere),
`SentOnce` (an execution is on its way at most once), `AnsweredSoFar` (a running query has sent
just the batches it counts), `RowsSent` (what is on its way to the page was sent, each batch once)
and `PageFits` (of its query the page has acknowledged only what it shows, the next batch follows
the last one, and a query past an acknowledgement has everything shown). Most steps are *quiet*: they
touch no frame of a query, and one lemma covers them; every other action has a lemma of its own.

**Admin database.** `CreateInv` = types, `BootstrapPlaces` (only a bootstrap is where CREATE is
granted or taken back) and the property. `AloneInv` = types, `LockHeld` and `WaitedFor` (a
migration runs either for the controller inside the module or as an orphan). `OneMigration` states
what holds of the sentence in section 6.

**Console boundary.** A run plans from a snapshot that is older than its lock, so the catalogs it
writes to need not be those it read. `BoundaryInv` says what survives: one run provisions at a time
(`OneProvisions`); what a run has neither written nor seen others change is as in its snapshot
(`SnapshotsFollowed`); a reader is created once, by a run that found none (`ReaderKept`, from the
assumption `PasswordsSet`, that no password is the mark of a missing reader); a plan, and
what it wrote, moves rights only where it saw them at PUBLIC (`RightsPlanned`), the inspection
before the commit finds them with the approved roles (`RightsMoved`), and what ends has been found
closed (`VerifiedClosed`). `RightsStayKept` is an action property that no run lists.

**Activation and release files.** `ActivationInv` has one conjunct per kind of state: files
(`FilesInv`), services (`AppsKept`, `RunsFit`), the timer, what systemd and nginx have loaded
(`LoadsKept`, `ProxyKept`), the release pointer, the marker, and whether the proxy honours it
(`ProxyHonours`). Each says at which task of the playbook, and under which of the flags the rescue
goes by, its part is still as the snapshot has it and from which task on it is as the release
wants it. `AttemptsEndWhole` and `SiteStaysCovered` are read off where attempts end. `PinsStayAgreed`
follows packaging and deployment over one lock file: what a run verified stays what it packaged.

**Research stores.** Vector index: `VectorsInv` says of a run under way that its plan is of
documents it covers (`WorkFits`), that what it wrote already is what it desires (`WrittenFits`) and
that what is offered has been written before old chunks go (`OfferFits`). Areas: `AreasInv` =
`AreasFit`, `OneImport` (plans are made and applied under one lock), `PlansFit` (a plan leaves
areas disjoint, given the store it was made for, and that store has not changed), `CountsFit`,
`AreasDisjoint`; the theorem about populations needs that keys in a plan come from the areas
it leaves. Suggestions: `LearningInv` ties each writer to what it locked and read, so that the row
lock makes counting a receipt and storing it one step. Conversations: `ConversationsInv` says that
busy conversations are those of the turns under way, one each (`OneTurnEach`, `BusyWithTurn`), and
that handles are never reused; from it and the limits at `Start` the theorem follows.

**Plans.** `PlansInv` says that a planner's answer speaks its contract's language and that the
backend's plan for it is `Faithful`: it says all that the answer says (`Says`), and if it passes the
gate, the family that is tried first for it shows what was asked for (`Answers`). Its three lemmas
are the three translations. `DirectFaithful` needs that the older contracts group by one dimension
and name one area at most, so that neither cells nor boundaries, which such a plan knows nothing
of, are ever chosen for it; `AdministrativeFaithful` that v8 orders and limits areas only; and
`ModernFaithful` goes through the kinds of questions, which `KindsApart` shows to exclude one
another, up to the limits and orders that a count or a comparison would lose and the language
forbids. The families then only have to apply every constraint (`AnsweredInFull`); for a comparison
that is the gate's condition that no target stands in for a constraint. The vocabulary is arbitrary
within the contracts' (`PlanVocabulary`), the names are any set.

**Turns.** `TurnsInv` says by place what `ContextFollows` says of suffixes (`SuffixOf`): a summary
at a place from the end is of the question answered at that place from the end. A question gets
the number of its request and is answered before the next (`AnsweredFit`), so that what is pending
is newer than every answer (`Newer`); `RestFits` says that only v13 leaves anything but summaries.
`RememberFits` is the step all answers share: appending the summary and cutting the oldest
preserves the suffix, for any number of turns remembered.

**Semantic search.** `SearchInv` keeps hits among the events found eligible and the properties of
the answer once there is one; the work is in `Rehydrate`. `ItemFits` follows one item from a hit to
the second snapshot, `ShownDateMatches` needs that among the matching dates there is an earliest, and
`PageShowsBest` that among finitely many items there is a best, which the cut of weak items never
removes. Both are proved from the well-foundedness of the naturals.

**Resolution.** `ResolutionInv` = `FoundAreasFit`, `MomentsFit` (the snapshot read is one of those
there were), `StageFits` (which words are left at which stage) and `VenuesFit`. The lemma `StepInv`
is what all lookups share: a step that finds what it was asked for keeps the answer so far.

**Taxonomy.** The first half is about calibration alone: the thresholds it weighs are numbers, finitely
many, the highest option lies above every wrong score, so a policy decides every reviewed case on
the vocabulary it was measured on (`CalibratedDecides`). The second is about time. While a request
scrolls and asks, `TaxonomyInv` says of each point that it is as the request read it from the source
(`AsRead`), or that the job of this request has replaced it by one of another vocabulary
(`Overwritten`), which the page shows or which stays so (`Lasts`). What a query returns is `Limit`
points at most. `NearestDecide` shows that this makes no difference to the decision as long as
what lies beyond is as it was read: two points already tell several from one (`SaysAs`). A point
close to the word that was overwritten in the meantime is either returned, and the
request ends unresolved, or `hidden`. `ReviewedAnswers` is stated for requests in which nothing was
hidden, since it fails otherwise (section 6), and `AnswersWithinLimit` gives it without that
proviso for vocabularies with no more entries of a kind than the limit: there nothing is ever hidden
(`NothingHidden`). `OneJob` states the two hypotheses:
one index job meets a request, and its stale points go with one delete request. With two jobs, or
with a deletion in several requests, a runner-up can disappear between two pages (section 6).

| theorem | states |
|---|---|
| `TypeCorrect`, `OneActive`, `Fenced`, `LostIsFinal` | the invariants of the check queue |
| `EndedStays`, `FindingsForward` | its action properties |
| `LedgerRefinement` | `CheckQueue` implements `CheckLedger` |
| `QualityIsQueue` | `QualityChecks` implements `CheckQueue` |
| `TableCorrect`, `LogCorrect` | the table is what the latest success saw, the log shows the table |
| `DecisionsKept`, `ResolvedByProof` | what may end a human decision, and a finding |
| `AssignmentsTypeCorrect`, `InboxCorrect` | the invariants of assignments |
| `OwnershipCorrect` | `Assignments` implements `TaskOwnership` |
| `GeocodeTypeCorrect`, `SuggestionsFit`, `CandidatesNeverReplaced` | what is shown fits the address; candidates are immutable |
| `MailsTypeCorrect`, `DeliveredOnce`, `MailsCorrect`, `EndedMailsStay` | deliveries do not overlap, retries form a chain, stages rise within an episode and episodes follow one another, ends are final |
| `CapIsDelivery`, `CapKept` | passes that follow one another are deliveries, and keep the daily cap |
| `SessionsTypeCorrect`, `SessionsKept`, `AcceptedSessionsCurrent`, `DeadSessionsStay`, `SeenNeverBack` | sessions |
| `UrlsTypeCorrect`, `FindingsCorrect` | reachability findings follow the answers |
| `WalkShowsOnce` | lists show once what does not change |
| `SqlTypeCorrect`, `ResultsWhole`, `NoQueryOrphaned` | the SQL console: whole results, no orphaned query |
| `BoundaryTypeCorrect`, `BoundaryHolds`, `RightsStayKept` | the console's database boundary |
| `ActivationTypeCorrect`, `AttemptsEndWhole`, `SiteStaysCovered` | activation, recovery, maintenance |
| `ReleaseTypeCorrect`, `PinsStayAgreed` | pins of package and deployment |
| `DatabaseTypeCorrect`, `CreateTakenBack`, `OneMigration` | the admin schema's installation |
| `IndexCorrect`, `DocumentsStayWhole` | the vector index |
| `AreasStayDisjoint`, `PopulationCorrect` | the area store |
| `CountedOnce`, `ConversationsStay` | suggestions, conversations |
| `NothingIsDropped` | an executed plan shows all that was asked for |
| `ContextStays` | what a conversation hands on follows its questions |
| `SearchAnswersHold` | what a search shows holds, and is the best |
| `PlansMeanWhatWasSaid` | what is executed means what was said |
| `AnswersAsReviewed` | taxonomy answers are the reviewed ones, under `OneJob`, unless a runner-up was hidden |
| `AnswersWithinLimit` | under `OneJob` and with no more entries of a kind than a query returns, none ever is |

**Model-checked only.** Liveness (`QueuedRunsEnd`, `OutstandingSettles`, `Settles`,
`Observes`, `BusyEnds`) needs ENABLED and fairness, which the prover does not handle. What a
recursive definition computes for every input needs induction over data, which is out of its reach
too; the facts about least and greatest numbers come from well-foundedness instead. Every safety
property that a passing run checks is a theorem. No module declares a RECURSIVE operator.

## 6. Where the code and its documentation disagree

Four runs end in a violation, on purpose:

* **`notification_history`: sent history may change.** `docs/notifications.md:129`
  says "Sent history is immutable", and the comment at
  `repositories/notifications.py:144` that historical mail is never mutated. `synchronize`
  reads the history without row locks and cancels stale intents by id alone. If another
  worker claims and sends a delivery in between, the sent row becomes `cancelled`. It
  takes two workers at a time; the deployed timer runs one, and with workers
  that follow one another the history is immutable.
* **`notification_cap_crash`: the daily cap after a crash.** The comment at
  `repositories/notifications.py:281` says that ambiguous expired leases count, "preserving
  the daily cap after a process crash". They count only while the row is `sending`: once
  it is claimed again and then cancelled, failed or given up, the mail that was
  accepted no longer counts, and one more is sent. `CapWhileLeasesHold` is what does hold.
* **`research_memory`: a selection survives a question asked back.** `NoStaleSelection` states what
  the code next to it says of research that is asked back about and cannot be summarised; under
  contract v13 a later question can go on from the selection before it.
* **`research_fallback`: a fallback executes.** The comment at
  `repositories/research_resolution.py:450` says that a contradictory parent found by the global
  fallback never reaches execution. With taxonomy thresholds configured the global lookup reads the
  types too. A genre word that it finds as another *type* is added to the types, and the conflict
  check, which looks at genres only (442-482), lets the plan pass with both.

Further differences, met while modelling, without a run of their own:

* `docs/development.md:937` says at most `URL_CHECK_BATCH_SIZE` URLs are processed per
  cycle. The budget is read before an awaited claim and counted after it
  (`url_check_worker.py:233`), so concurrent chains overrun it.
* `docs/development.md:939` says one chain per host. The lock is chosen by the cycle's
  snapshot (`url_check_worker.py:225`), the URL asked is the row's. With one worker they agree; a
  second worker with a newer snapshot may change the row in between.
* A console query cancelled during its session check is sent after all when the user
  starts another one, because both calls then see the status `Running`
  (`useSqlConsole.ts:74`), and the second query gets `busy`.
* An acknowledgement that crosses the deadline is a protocol violation to the handler
  (`api/sql_console.py:90`): the connection is closed and the verdict is lost.
* A watchdog timer forgotten by overlapping executions may end a later query.
* `ansible/README.md:248` says a session lock prevents parallel upgrades. A migration whose module
  timed out goes on without the lock, beside the next one; and the second task that takes CREATE
  back runs without the lock, and can take it in the middle of another's migration.
* `docs/sql-console-infrastructure.md:278` relies on the inspection before the commit. A snapshot
  older than the lock lets `inspect_temp` unite two versions of the database's ACL, and a role
  that just lost TEMP counts as having it. `RightsKept` states what holds.
* `docs/research-grouping.md:103` and the comment at `research/normalize_v9.py:166` say that a rank
  without a criterion asks back. From v10 on the plan is refused as unsupported (422);
  `tests/test_research_v9_adapter.py:784` covers v9 only.
* A v12 comparison that needs the caller's place, is "nearby" and names no metric ends as a 502.
* A list without an order is ascending from a cached area, and descending when its boundary is
  executed; events without a date are counted, but never listed chronologically.
* `tests/test_research_v13.py:395` shows that a clarification does not replay stale facts for
  conversation acts only.
* The comment at `services/taxonomy_resolution.py:58` that an interrupted rebuild hides no runner-up
  fails if two index jobs meet one request. With more than six entries of a kind one job is enough:
  between the scroll and the query it rewrites a runner-up with a label far from the word, the
  query returns six others (`research/taxonomy_transport.py:79`), all of them still valid, and the
  winner looks unique. `ReviewedAnswers` says so with its proviso on `hidden`.
* `docs/notifications.md:116` counts one more episode per reopening. With two workers at a time, old
  evidence that an event has ended can end its row again after it came back; the next pass starts
  a second episode of one recurrence and mails again. Episodes only grow, so `MailsEscalate` holds.

## 7. What is not modelled

Besides the components of section 1: wall clocks and their skew (times are order and
leases), the order in which claims examine rows, message texts, the priority of
findings, digests and reminders, the kind of a URL failure, roles, SQL policy and result
serialization, the proxy's own authentication. Database failures appear as `Abort`, `Break`,
`Crash` and the like; PostgreSQL itself is assumed to do what it documents about locks,
snapshots and commits. In particular:

* `Activation`: notification management, the tunnel and the geocoder stay at their defaults;
  with the maintenance page disabled nothing is promised. An attempt that finds its
  files in place reloads nothing, so `EndsWhole` asks that systemd had loaded what was
  installed. A marker the operator sets during a deployment is removed at its end.
* `NotificationDelivery`: digests and reminders. An item is due for a first mail of its episode or
  for an escalation. Why an event ended or is suppressed (published, past, removed, outside the window,
  a capability or a recipient lost) is one choice of evidence; retention is left out.
* `Assignments`: a finding's own snooze and other filters of the lists (`FindingTable` has it).
* `ReleaseControl`: retention, approvals under another path (which take another lock), a hard
  crash between two replacements other than as `torn`. Packaging keeps a confirmation on record.
* `VectorSync` assumes that a request cut off with its run takes effect, or not, before the next run
  reads. `AreaImport` fetches before it locks; provider and catalogue checks are data, one region,
  one file per date.
* `SemanticSearch`: places (the "space" scope of evidence); only the evidence for the earliest
  matching occurrence; two texts stand for up to 50 hits. `CursorPages`: collations, and lists
  paged by offset, which protect nothing.
* `ResearchPlans`: names resolve to what they name; one matter is said besides the core; an
  analytical mismatch is a veto that may or may not come. `ResearchTurns`: one request after the
  other; summaries are cut by their number, not also by their size (8192 bytes), which leaves a
  suffix too; the language and the routes of contracts v4 and v8 end nondeterministically.
* `UrlChecks`: one field in TLC, so the budget of a cycle and the locks of hosts, which are modelled,
  meet no second field there.
* `TaxonomyIndex`: of several plausible entries only that they are several; even scores, more
  than 128 stale entries, ids and exact labels. `PlanResolution`: what a word matches is chosen
  when it is looked up; categories and organizations are resolved as venues are.

## 8. Plan

Built, in this order: the queue with its ledger; the findings on top of it; notifications;
geocoding; URL checks; sessions; the SQL console; assignments; the deployment's protocols; the
research stores; planner, turns, resolution, search and taxonomy; the proofs of section 5.

Worth adding to the model: the login throttle composed with `AuthSessions`; marks; the frontend
stores with the revision guard of `stores/auth.ts`.

Worth proving next, with more modelled: the window of the throttle, and the revision guard.

## 9. Running it

    tlc -workers 2 -config MCWorkerQueues.cfg MCWorkerQueues.tla
    tlapm QualityProofs.tla

The larger runs of section 4 take between one and three minutes; the proofs have about 17500
obligations, discharged by Z3, Zenon and LS4 in up to five minutes a module.
