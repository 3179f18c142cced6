------------------------ MODULE NotificationDelivery ------------------------
(***************************************************************************)
(* The notification mails of one organization to one recipient: a worker   *)
(* pass collects evidence from the source, synchronizes the rows of        *)
(* notification_delivery with it, then claims due rows one by one,         *)
(* revalidates each, hands it to SMTP outside any transaction while a      *)
(* heartbeat renews the lease, and records the outcome under a fence       *)
(* (notification_worker.py, repositories/notifications.py).  An            *)
(* administrator may queue a retry of a permanently failed delivery.       *)
(*                                                                         *)
(* Evidence says of each notification whether its event is active and at   *)
(* which stage, suppressed (outside the window, or not configured) or      *)
(* ended (published, past or removed).  A notification that comes back     *)
(* after it ended is in a new episode, kept in its row.  A delivery's      *)
(* content maps each item of its snapshot to the episode and the stage it  *)
(* reports.                                                                *)
(* Leases are the time left, as in CheckQueue.  today[d] says that         *)
(* sending_at (of a sending row) or sent_at (of a sent row) is in the      *)
(* current local day.  Event mails only: no digests, no reminders.         *)
(***************************************************************************)
EXTENDS Naturals, FiniteSets

CONSTANTS
    Notifications,  \* notification rows of the organization
    MaxDeliveries,  \* bound: rows of notification_delivery
    MaxStage,       \* bound: stages of a notification
    MaxEpisode,     \* bound: an event ends at most so often and comes back
    Workers,        \* notification worker processes
    MaxAttempts,    \* attempts before a failure is permanent
    Cap,            \* notification_max_emails_per_recipient_per_day
    Lease,          \* notification_lease_seconds
    Nobody          \* NULL worker_id

Deliveries == 1..MaxDeliveries
NoJob == 0

\* What detect() finds out about a notification, and what a row keeps of it.
Evidences == [status : {"active"}, stage : 1..MaxStage]
             \cup [status : {"suppressed", "ended"}, stage : {0}]
KnownRows == [status : {"none"}, episode : {0}]
             \cup [status : {"active", "suppressed", "ended"}, episode : Nat]
\* What a snapshot says of a notification; stage 0 if it is not among its ids.
Versions == [episode : Nat, stage : 0..MaxStage]
Contents == [Notifications -> Versions]

ASSUME BoundsAssumption ==
    /\ MaxDeliveries \in Nat
    /\ MaxStage \in Nat
    /\ MaxEpisode \in Nat
    /\ MaxAttempts \in Nat \ {0}
    /\ Cap \in Nat \ {0}
    /\ Lease \in Nat \ {0}
ASSUME NobodyIsNoWorker == Nobody \notin Workers

VARIABLES
    status,    \* notification_delivery.status, "absent" before the insert
    worker,    \* worker_id
    lease,     \* time left until lease_until
    attempts,  \* attempt_count
    wait,      \* what next_attempt_at waits for
    today,     \* sending_at or sent_at lies in the current day
    rank,      \* position in the order of sent_at, 0 if never sent
    content,   \* snapshot
    anchor,    \* the fingerprint's anchors: the mail each item follows, 0 none
    parent,    \* retry_of_delivery_id
    known,     \* the notification rows: status, and episode of the payload
    world,     \* the source, as detect() sees it
    pc, job, seen, plan  \* a worker's place, claimed row, evidence, plan

rowVars == <<status, worker, lease, attempts, wait, today, rank>>
intentVars == <<content, anchor, parent>>
workerVars == <<pc, job, seen, plan>>
vars == <<rowVars, intentVars, known, world, workerVars>>

Outstanding == {"queued", "failed", "sending"}
Terminal == {"sent", "permanent_failure", "cancelled"}
Places == {"idle", "collected", "planned", "claiming", "claimed", "fresh", "valid",
           "obsolete", "sending", "accepted", "refused", "failing"}

NoItem == [episode |-> 0, stage |-> 0]
Nothing == [n \in Notifications |-> NoItem]
Items(c) == {n \in Notifications : c[n].stage # 0}
Unknown == [n \in Notifications |-> [status |-> "none", episode |-> 0]]
Suppressed == [n \in Notifications |-> [status |-> "suppressed", stage |-> 0]]
NoPlan == [known |-> Unknown, stale |-> {}, batches |-> {}]
Rows(S) == {d \in Deliveries : status[d] \in S}

Init ==
    /\ status = [d \in Deliveries |-> "absent"]
    /\ worker = [d \in Deliveries |-> Nobody]
    /\ lease = [d \in Deliveries |-> 0]
    /\ attempts = [d \in Deliveries |-> 0]
    /\ wait = [d \in Deliveries |-> "now"]
    /\ today = [d \in Deliveries |-> FALSE]
    /\ rank = [d \in Deliveries |-> 0]
    /\ content = [d \in Deliveries |-> Nothing]
    /\ anchor = [d \in Deliveries |-> [n \in Notifications |-> 0]]
    /\ parent = [d \in Deliveries |-> 0]
    /\ known = Unknown
    /\ world = Suppressed
    /\ pc = [w \in Workers |-> "idle"]
    /\ job = [w \in Workers |-> NoJob]
    /\ seen = [w \in Workers |-> Suppressed]
    /\ plan = [w \in Workers |-> NoPlan]

Goto(w, p) == pc' = [pc EXCEPT ![w] = p]
\* The evidence a worker collected goes out of scope.
Forget(w) == seen' = [seen EXCEPT ![w] = Suppressed]
-----------------------------------------------------------------------------
(* Planning: collect, then synchronize in one transaction under the        *)
(* organization's advisory lock, held exactly while pc[w] = "planned".     *)

PlanningIdle == \A w \in Workers : pc[w] # "planned"

\* A row as synchronize() rewrites it: the first evidence of an active event
\* makes it, and one that had ended and is no longer so starts an episode.
Synchronized(row, evidence) ==
    IF row.status = "none"
    THEN IF evidence.status = "active" THEN [status |-> "active", episode |-> 1] ELSE row
    ELSE [status |-> evidence.status,
          episode |-> row.episode
                        + IF row.status = "ended" /\ evidence.status # "ended" THEN 1 ELSE 0]

\* The rows that are active by this evidence, as a mail reports them.
Reports(rows, evidence) ==
    [n \in Notifications |->
        IF rows[n].status # "none" /\ evidence[n].status = "active"
        THEN [episode |-> rows[n].episode, stage |-> evidence[n].stage]
        ELSE NoItem]

\* Are the content's items still what would be reported?
Valid(c, current) == \A n \in Items(c) : current[n] = c[n]

\* The last mail sent about n, 0 if there is none.
LastSent(n) ==
    LET S == {d \in Rows({"sent"}) : n \in Items(content[d])}
    IN  IF S = {} THEN 0 ELSE CHOOSE d \in S : \A e \in S : rank[e] <= rank[d]

\* Mutant: batches forget the mails that were sent.
EligibleAlways(n, current) == n \in Items(current)
\* An item is due for a first mail of its episode, or for an escalation of the
\* last one.
Eligible(n, current) ==
    /\ n \in Items(current)
    /\ LastSent(n) # 0 =>
          LET last == content[LastSent(n)][n]
          IN  current[n].episode > last.episode \/ current[n].stage > last.stage

\* Queued and retried rows whose intent is no longer supported.
StaleIntents(current) ==
    {d \in Rows({"queued", "failed"}) : ~Valid(content[d], current)}

\* Mutant: a delivery being sent does not count as outstanding.
CoveredByQueued(stale) ==
    UNION {Items(content[d]) : d \in Rows({"queued", "failed"}) \ stale}
\* Notifications an outstanding delivery already covers.
Covered(stale) ==
    UNION {Items(content[d]) : d \in Rows(Outstanding) \ stale}

\* One batch per stage of the eligible items, none of which may overlap.
Batches(current, stale) ==
    LET Group(s) == {n \in Notifications : Eligible(n, current) /\ current[n].stage = s}
        Batch(s) ==
            [content |-> [n \in Notifications |->
                            IF n \in Group(s) THEN current[n] ELSE NoItem],
             anchor |-> [n \in Notifications |->
                            IF n \in Group(s) THEN LastSent(n) ELSE 0]]
    IN  {Batch(s) : s \in {t \in 1..MaxStage :
            /\ Group(t) # {}
            /\ Group(t) \cap Covered(stale) = {}}}

\* The unique index on message_fingerprint, cancelled rows excluded.
Conflicts(batch, st) ==
    \E d \in Deliveries :
        /\ st[d] \notin {"absent", "cancelled"}
        /\ parent[d] = 0
        /\ content[d] = batch.content
        /\ anchor[d] = batch.anchor

Collect(w) ==
    /\ pc[w] = "idle"
    /\ seen' = [seen EXCEPT ![w] = world]
    /\ Goto(w, "collected")
    /\ UNCHANGED <<rowVars, intentVars, known, world, job, plan>>

\* The lock is taken, the notifications are rewritten and the delivery history
\* is read, without row locks.
ReadHistory(w) ==
    /\ pc[w] = "collected"
    /\ PlanningIdle
    /\ LET rows == [n \in Notifications |-> Synchronized(known[n], seen[w][n])]
           current == Reports(rows, seen[w])
           stale == StaleIntents(current)
       IN  plan' = [plan EXCEPT ![w] = [known |-> rows, stale |-> stale,
                                        batches |-> Batches(current, stale)]]
    /\ Forget(w)
    /\ Goto(w, "planned")
    /\ UNCHANGED <<rowVars, intentVars, known, world, job>>

\* What the transaction commits: the notifications, stale intents cancelled by
\* id alone, and the batches that meet no unique index, queued in the next free
\* rows.
Plan(w) ==
    /\ pc[w] = "planned"
    /\ LET cancelled == [d \in Deliveries |->
                            IF d \in plan[w].stale THEN "cancelled" ELSE status[d]]
           new == {b \in plan[w].batches : ~Conflicts(b, cancelled)}
           stage(b) == CHOOSE s \in 1..MaxStage : \E n \in Notifications : b.content[n].stage = s
           used == Cardinality({d \in Deliveries : status[d] # "absent"})
           row(b) == used + Cardinality({c \in new : stage(c) <= stage(b)})
           inserted(d) == \E b \in new : row(b) = d
           batch(d) == CHOOSE b \in new : row(b) = d
       IN  /\ status' = [d \in Deliveries |->
                            IF inserted(d) THEN "queued" ELSE cancelled[d]]
           /\ content' = [d \in Deliveries |->
                            IF inserted(d) THEN batch(d).content ELSE content[d]]
           /\ anchor' = [d \in Deliveries |->
                            IF inserted(d) THEN batch(d).anchor ELSE anchor[d]]
    /\ known' = plan[w].known
    /\ plan' = [plan EXCEPT ![w] = NoPlan]
    /\ Goto(w, "claiming")
    /\ UNCHANGED <<worker, lease, attempts, wait, today, rank, parent, world, job, seen>>

\* enqueue_retry: a new delivery of what is left of a permanent failure.  The
\* caller holds the organization's lock from the checks to the insert.
Retry(d) ==
    LET current == Reports(known, world)
        items == {n \in Items(content[d]) \cap Items(current) : known[n].status = "active"}
        new == Cardinality({e \in Deliveries : status[e] # "absent"}) + 1
    IN  /\ PlanningIdle
        /\ status[d] = "permanent_failure"
        /\ \A e \in Deliveries : parent[e] = d => status[e] = "cancelled"
        /\ items # {}
        /\ items \cap Covered({}) = {}
        /\ new \in Deliveries
        /\ status' = [status EXCEPT ![new] = "queued"]
        /\ content' = [content EXCEPT ![new] =
                        [n \in Notifications |-> IF n \in items THEN current[n] ELSE NoItem]]
        /\ parent' = [parent EXCEPT ![new] = d]
        /\ UNCHANGED <<worker, lease, attempts, wait, today, rank, anchor, known,
                       world, workerVars>>
-----------------------------------------------------------------------------
(* Claiming: one transaction under the claim lock.                         *)

\* Mutant: deliveries of a crashed worker are not claimed again.
DueWaiting == {d \in Deliveries : status[d] \in {"queued", "failed"} /\ wait[d] = "now"}
DueRows == {d \in Deliveries : \/ status[d] \in {"queued", "failed"} /\ wait[d] = "now"
                               \/ status[d] = "sending" /\ lease[d] = 0}

\* Deliveries that use up today's budget of the recipient.
Counted == {d \in Deliveries : \/ status[d] = "sent" /\ today[d]
                               \/ status[d] = "sending" /\ (lease[d] > 0 \/ today[d])}
\* Mutant: only committed mails use up the budget, not reservations.
BudgetOfSent(d, examined) ==
    Cardinality({e \in Counted \ (examined \cup {d}) : status[e] = "sent"}) >= Cap
BudgetSpent(d, examined) == Cardinality(Counted \ (examined \cup {d})) >= Cap

Exhausted(d) == attempts[d] >= MaxAttempts

\* What becomes of a row that is examined but not claimed.
Settled(d) == IF Exhausted(d) THEN "permanent_failure"
              ELSE IF attempts[d] > 0 THEN "failed" ELSE "queued"

\* Rows are examined in an order given by data this model abstracts, so a set
\* of them is given up or deferred before one is claimed, or all are.
Claim(w) ==
    /\ pc[w] = "claiming"
    /\ \E passed \in SUBSET DueRows, d \in DueRows \cup {NoJob} :
        /\ \A e \in passed : Exhausted(e) \/ BudgetSpent(e, {})
        /\ d = NoJob => passed = DueRows
        /\ d # NoJob => /\ d \notin passed
                        /\ ~Exhausted(d)
                        /\ ~BudgetSpent(d, passed)
        /\ status' = [e \in Deliveries |-> IF e = d THEN "sending"
                                           ELSE IF e \in passed THEN Settled(e)
                                           ELSE status[e]]
        /\ worker' = [e \in Deliveries |-> IF e = d THEN w
                                           ELSE IF e \in passed THEN Nobody
                                           ELSE worker[e]]
        /\ lease' = [e \in Deliveries |-> IF e = d THEN Lease ELSE lease[e]]
        /\ attempts' = [e \in Deliveries |-> IF e = d THEN attempts[e] + 1 ELSE attempts[e]]
        /\ wait' = [e \in Deliveries |->
                        IF e \in passed /\ ~Exhausted(e) THEN "tomorrow"
                        ELSE wait[e]]
        /\ today' = [e \in Deliveries |-> IF e = d THEN TRUE
                                          ELSE IF e \in passed THEN FALSE
                                          ELSE today[e]]
        /\ job' = [job EXCEPT ![w] = d]
        /\ Goto(w, IF d = NoJob THEN "idle" ELSE "claimed")
    /\ UNCHANGED <<rank, intentVars, known, world, seen, plan>>
-----------------------------------------------------------------------------
(* Sending.                                                                *)

Owns(w) == LET d == job[w] IN d # NoJob /\ worker[d] = w
\* The fence of every later write: state, worker and live lease.
HoldsLease(w) == Owns(w) /\ status[job[w]] = "sending" /\ lease[job[w]] > 0

Recheck(w) ==
    /\ pc[w] = "claimed"
    /\ seen' = [seen EXCEPT ![w] = world]
    /\ Goto(w, "fresh")
    /\ UNCHANGED <<rowVars, intentVars, known, world, job, plan>>

\* The notification rows are read after the evidence, and refreshed with it.
Revalidate(w) ==
    /\ pc[w] = "fresh"
    /\ Goto(w, IF Valid(content[job[w]], Reports(known, seen[w])) THEN "valid" ELSE "obsolete")
    /\ Forget(w)
    /\ UNCHANGED <<rowVars, intentVars, known, world, job, plan>>

\* The intent is obsolete: cancelled if the row still names this worker.
DropObsolete(w) ==
    /\ pc[w] = "obsolete"
    /\ IF Owns(w)
       THEN /\ status' = [status EXCEPT ![job[w]] = "cancelled"]
            /\ worker' = [worker EXCEPT ![job[w]] = Nobody]
            /\ lease' = [lease EXCEPT ![job[w]] = 0]
            /\ today' = [today EXCEPT ![job[w]] = FALSE]
       ELSE UNCHANGED <<status, worker, lease, today>>
    /\ job' = [job EXCEPT ![w] = NoJob]
    /\ Goto(w, "claiming")
    /\ UNCHANGED <<attempts, wait, rank, intentVars, known, world, seen, plan>>

\* The lease is renewed before SMTP; a lost one ends the attempt, which then
\* cannot be recorded either.  Composition rewrites the mail's wording only.
StartSending(w) ==
    /\ pc[w] = "valid"
    /\ IF HoldsLease(w)
       THEN /\ lease' = [lease EXCEPT ![job[w]] = Lease]
            /\ Goto(w, "sending")
            /\ UNCHANGED job
       ELSE /\ Goto(w, "claiming")
            /\ job' = [job EXCEPT ![w] = NoJob]
            /\ UNCHANGED lease
    /\ UNCHANGED <<status, worker, attempts, wait, today, rank, intentVars, known,
                   world, seen, plan>>

Heartbeat(w) ==
    /\ pc[w] = "sending"
    /\ HoldsLease(w)
    /\ lease' = [lease EXCEPT ![job[w]] = Lease]
    /\ UNCHANGED <<status, worker, attempts, wait, today, rank, intentVars, known,
                   world, workerVars>>

\* The mail is handed over.  "failing" includes an answer that was lost.
Smtp(w) ==
    /\ pc[w] = "sending"
    /\ \E outcome \in {"accepted", "refused", "failing"} :
        Goto(w, outcome)
    /\ UNCHANGED <<rowVars, intentVars, known, world, job, seen, plan>>

\* An exception of the source, the database or the heartbeat, even one after
\* the mail was accepted, is handled as a failed attempt.
Break(w) ==
    /\ pc[w] \in {"claimed", "fresh", "valid", "obsolete", "accepted"}
    /\ Forget(w)
    /\ Goto(w, "failing")
    /\ UNCHANGED <<rowVars, intentVars, known, world, job, plan>>

\* services/notifications/delivery.py: failure() and finish().
Finish(w) ==
    /\ pc[w] \in {"accepted", "refused", "failing"}
    /\ LET d == job[w]
           outcome == IF pc[w] = "accepted" THEN "sent"
                      ELSE IF pc[w] = "refused" \/ attempts[d] >= MaxAttempts
                           THEN "permanent_failure" ELSE "failed"
       IN  IF HoldsLease(w)
           THEN /\ status' = [status EXCEPT ![d] = outcome]
                /\ worker' = [worker EXCEPT ![d] = Nobody]
                /\ lease' = [lease EXCEPT ![d] = 0]
                /\ wait' = [wait EXCEPT ![d] = IF outcome = "failed" THEN "later" ELSE "now"]
                /\ today' = [today EXCEPT ![d] = outcome = "sent"]
                /\ rank' = [rank EXCEPT ![d] =
                        IF outcome = "sent"
                        THEN Cardinality({e \in Deliveries : rank[e] # 0}) + 1 ELSE @]
           ELSE UNCHANGED <<status, worker, lease, wait, today, rank>>
    /\ job' = [job EXCEPT ![w] = NoJob]
    /\ Goto(w, "claiming")
    /\ UNCHANGED <<attempts, intentVars, known, world, seen, plan>>

\* The process dies; its open transaction rolls back and frees its lock.
Crash(w) ==
    /\ pc[w] # "idle"
    /\ Goto(w, "idle")
    /\ job' = [job EXCEPT ![w] = NoJob]
    /\ plan' = [plan EXCEPT ![w] = NoPlan]
    /\ Forget(w)
    /\ UNCHANGED <<rowVars, intentVars, known, world>>
-----------------------------------------------------------------------------
(* The environment.                                                        *)

Tick ==
    /\ \E d \in Deliveries : lease[d] > 0
    /\ lease' = [d \in Deliveries |-> IF lease[d] > 0 THEN lease[d] - 1 ELSE 0]
    /\ UNCHANGED <<status, worker, attempts, wait, today, rank, intentVars, known,
                   world, workerVars>>

\* The delay before the next attempt is over.
RetryDue(d) ==
    /\ wait[d] = "later"
    /\ wait' = [wait EXCEPT ![d] = "now"]
    /\ UNCHANGED <<status, worker, lease, attempts, today, rank, intentVars, known,
                   world, workerVars>>

NewDay ==
    /\ today' = [d \in Deliveries |-> FALSE]
    /\ wait' = [d \in Deliveries |-> IF wait[d] = "tomorrow" THEN "now" ELSE wait[d]]
    /\ UNCHANGED <<status, worker, lease, attempts, rank, intentVars, known, world,
                   workerVars>>

\* The event is edited, published or removed, or its date comes closer.
WorldChanges(n, e) ==
    /\ world[n] # e
    /\ world[n].status = "ended" => known[n].episode < MaxEpisode
    /\ world' = [world EXCEPT ![n] = e]
    /\ UNCHANGED <<rowVars, intentVars, known, workerVars>>

Work(w) == \/ Collect(w) \/ ReadHistory(w) \/ Plan(w) \/ Claim(w)
           \/ Recheck(w) \/ Revalidate(w) \/ DropObsolete(w) \/ StartSending(w)
           \/ Smtp(w) \/ Finish(w)

Next ==
    \/ \E w \in Workers : Work(w) \/ Heartbeat(w) \/ Break(w) \/ Crash(w)
    \/ \E d \in Deliveries : Retry(d) \/ RetryDue(d)
    \/ Tick
    \/ NewDay
    \/ \E n \in Notifications, e \in Evidences : WorldChanges(n, e)

Spec == Init /\ [][Next]_vars

\* Workers poll and proceed (systemd starts a pass again), time goes on, and
\* crashes do not for ever hit before the same step of planning or claiming.
Fairness ==
    /\ \A w \in Workers : /\ WF_vars(Work(w))
                          /\ SF_vars(ReadHistory(w))
                          /\ SF_vars(Plan(w))
                          /\ SF_vars(Claim(w))
    /\ \A d \in Deliveries : WF_vars(RetryDue(d))
    /\ WF_vars(Tick)
    /\ WF_vars(NewDay)
FairSpec == Spec /\ Fairness
-----------------------------------------------------------------------------
(* Properties.                                                             *)

\* Every variable has its type; attempt_count keeps within its check
\* constraint.
TypeOK ==
    /\ status \in [Deliveries -> {"absent"} \cup Outstanding \cup Terminal]
    /\ worker \in [Deliveries -> Workers \cup {Nobody}]
    /\ lease \in [Deliveries -> 0..Lease]
    /\ attempts \in [Deliveries -> 0..MaxAttempts]
    /\ wait \in [Deliveries -> {"now", "later", "tomorrow"}]
    /\ today \in [Deliveries -> BOOLEAN]
    /\ rank \in [Deliveries -> Nat]
    /\ content \in [Deliveries -> Contents]
    /\ anchor \in [Deliveries -> [Notifications -> Deliveries \cup {0}]]
    /\ parent \in [Deliveries -> Deliveries \cup {0}]
    /\ known \in [Notifications -> KnownRows]
    /\ world \in [Notifications -> Evidences]
    /\ pc \in [Workers -> Places]
    /\ job \in [Workers -> Deliveries \cup {NoJob}]
    /\ seen \in [Workers -> [Notifications -> Evidences]]

\* Planners, retries and workers never leave two outstanding deliveries that
\* cover the same notification, although plans are made from a history read
\* before rows were claimed, finished or cancelled by others.
NoOverlap ==
    \A d, e \in Rows(Outstanding) :
        d # e => Items(content[d]) \cap Items(content[e]) = {}

\* A permanent failure has at most one successor that was not cancelled, and
\* stays a permanent failure once it has one.
OneSuccessor ==
    \A d, e \in Deliveries :
        parent[e] = d /\ d # 0 =>
            /\ status[d] = "permanent_failure"
            /\ \A f \in Deliveries :
                    parent[f] = d /\ f # e => "cancelled" \in {status[e], status[f]}

\* A notification is in one outstanding delivery, and a failed one is replaced once.
OneDelivery == NoOverlap /\ OneSuccessor

\* A delivery that reached a terminal state is never outstanding again: no
\* worker whose lease was lost can put a finished mail back in the queue.
TerminalStays ==
    [][\A d \in Rows(Terminal) : status'[d] \in Terminal]_vars

\* Every planned delivery is eventually sent, given up or cancelled, whatever
\* crashes, lost leases and exhausted budgets delay it.
OutstandingSettles ==
    \A d \in Deliveries : status[d] \in Outstanding ~> status[d] \in Terminal

\* docs/notifications.md: "Sent history is immutable".
SentHistoryImmutable ==
    [][\A d \in Rows({"sent"}) : status'[d] = "sent"]_vars

\* A mail says more than another if it is about a later episode of the
\* notification, or about a later stage of the same episode.
Later(v, u) == v.episode > u.episode \/ (v.episode = u.episode /\ v.stage > u.stage)

\* docs/notifications.md: "an escalation when the stage rises", and "a recurring
\* issue is a new semantic occurrence and can send again". Of two mails sent
\* about a notification, one right after the other, a planned second is about a
\* later stage of the same episode or about a later episode, whoever sent,
\* cancelled or retried in between and however old the evidence of the planners.
MailsEscalate ==
    \A d, e \in Rows({"sent"}) : \A n \in Items(content[d]) \cap Items(content[e]) :
        /\ parent[e] = 0
        /\ rank[d] < rank[e]
        /\ \A f \in Rows({"sent"}) :
                n \in Items(content[f]) => rank[f] <= rank[d] \/ rank[e] <= rank[f]
        => Later(content[e][n], content[d][n])
=============================================================================
