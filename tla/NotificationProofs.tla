-------------------------- MODULE NotificationProofs --------------------------
(***************************************************************************)
(* Proofs about the notification mails, for any number of notifications,   *)
(* stages, deliveries and workers, with planners, manual retries and       *)
(* workers interleaved in every order, and about the daily cap, for passes *)
(* that follow one another as the timer starts them.                       *)
(***************************************************************************)
EXTENDS NotificationCap, FiniteSetTheorems, TLAPS

----------------------------------------------------------------------------
(* The inductive invariant.                                                *)

Batch == [content : Contents, anchor : [Notifications -> Deliveries \cup {0}]]
Plans == [known : [Notifications -> KnownRows], stale : SUBSET Deliveries, batches : SUBSET Batch]
PlansTyped == plan \in [Workers -> Plans]

\* Rows are used in order, and one is planned at a time.
RowsInOrder == \E k \in Nat : \A d \in Deliveries : status[d] = "absent" <=> d > k
OnePlanner == \A v, w \in Workers : pc[v] = "planned" /\ pc[w] = "planned" => v = w

\* The order of sent_at is a strict one.
Ranked == {d \in Deliveries : rank[d] # 0}
RanksFit ==
    /\ \A d \in Ranked : status[d] \in {"sent", "cancelled"}
    /\ Rows({"sent"}) \subseteq Ranked
    /\ \A d \in Deliveries : rank[d] <= Cardinality(Ranked)
    /\ \A d, e \in Ranked : rank[d] = rank[e] => d = e

\* A row that names a worker is being sent, or was cancelled by a planner.
OwnersFit ==
    \A d \in Deliveries : /\ worker[d] # Nobody => status[d] \in {"sending", "cancelled"}
                          /\ parent[d] # 0 => status[d] # "absent"

\* Of the mails S, a is the last about n, and reports an earlier episode or an
\* earlier stage than s; 0 if there is none.
About(n, S) == {f \in S : n \in Items(content[f])}
Follows(a, s, n, S) ==
    \/ a = 0 /\ About(n, S) = {}
    \/ /\ a \in About(n, S)
       /\ Later(s, content[a][n])
       /\ \A f \in About(n, S) : rank[f] <= rank[a]

\* The anchors of a planned delivery are the mails sent before it.
Kept == Rows(Outstanding \cup {"sent"})
Before(e) == {f \in Rows({"sent"}) : status[e] = "sent" => rank[f] < rank[e]}
Anchored ==
    \A e \in Kept : parent[e] = 0 =>
        \A n \in Items(content[e]) : Follows(anchor[e][n], content[e][n], n, Before(e))

\* A plan that is about to be written. What it cancels has no successor and is
\* nobody's anchor; what it inserts overlaps with nothing else that stays, and
\* follows what was sent, though both may have been sent meanwhile.
Uniform(b, s) == Items(b.content) # {} /\ \A n \in Items(b.content) : b.content[n].stage = s
StaleFits(w) ==
    \A d \in plan[w].stale :
        /\ status[d] # "absent"
        /\ \A e \in Deliveries : parent[e] # d
        /\ \A e \in Kept, n \in Notifications :
              parent[e] = 0 /\ n \in Items(content[e]) => anchor[e][n] # d
BatchesFit(w) ==
    \A b \in plan[w].batches :
        /\ \E s \in 1..MaxStage : Uniform(b, s)
        /\ \A n \in Items(b.content) :
              Follows(b.anchor[n], b.content[n], n, Rows({"sent"}) \ plan[w].stale)
        /\ \A d \in Rows(Outstanding) \ plan[w].stale :
              Items(b.content) \cap Items(content[d]) = {}
        /\ \A c \in plan[w].batches : b # c =>
              /\ Items(b.content) \cap Items(c.content) = {}
              /\ \A s \in 1..MaxStage : ~ (Uniform(b, s) /\ Uniform(c, s))
PlansFit ==
    \A w \in Workers : IF pc[w] = "planned" THEN StaleFits(w) /\ BatchesFit(w)
                       ELSE plan[w] = NoPlan

DeliveriesInv ==
    /\ RowsInOrder /\ OnePlanner /\ RanksFit /\ OwnersFit
    /\ PlansFit /\ NoOverlap /\ OneSuccessor /\ Anchored
MailsInv == TypeOK /\ PlansTyped /\ DeliveriesInv

\* No mail is about a later episode than the notification's row is in, nor is a
\* planned one, and a plan takes no episode back.
PlanEpisodes(w) ==
    /\ \A n \in Notifications : known[n].episode <= plan[w].known[n].episode
    /\ \A b \in plan[w].batches : \A n \in Items(b.content) :
          b.content[n].episode <= plan[w].known[n].episode
EpisodesFit ==
    /\ \A d \in Deliveries : \A n \in Items(content[d]) : content[d][n].episode <= known[n].episode
    /\ \A w \in Workers : pc[w] = "planned" => PlanEpisodes(w)

----------------------------------------------------------------------------
(* Steps that plan and send nothing.                                       *)

LEMMA StartTypes ==
    /\ NoItem \in Versions /\ Nothing \in Contents /\ Items(Nothing) = {}
    /\ Unknown \in [Notifications -> KnownRows]
    /\ Suppressed \in [Notifications -> Evidences]
    /\ NoPlan \in Plans
<1>1. NoItem \in Versions /\ NoItem.stage = 0
  BY BoundsAssumption DEF NoItem, Versions
<1>2. Nothing \in Contents /\ Items(Nothing) = {}
  BY <1>1 DEF Nothing, Contents, Items
<1>3. Unknown \in [Notifications -> KnownRows]
  BY DEF Unknown, KnownRows
<1>4. Suppressed \in [Notifications -> Evidences]
  BY DEF Suppressed, Evidences
<1>5. NoPlan \in Plans
  BY <1>3 DEF NoPlan, Plans
<1>6. QED
  BY <1>1, <1>2, <1>3, <1>4, <1>5

LEMMA MailsInvInit == Init => MailsInv /\ EpisodesFit
<1> SUFFICES ASSUME Init PROVE MailsInv /\ EpisodesFit
  OBVIOUS
<1> USE DEF Init
<1>1. TypeOK
  BY BoundsAssumption, StartTypes DEF TypeOK, Outstanding, Terminal, Places
<1>2. PlansTyped
  BY StartTypes DEF PlansTyped
<1>3. /\ Rows(Outstanding) = {} /\ Rows({"sent"}) = {} /\ Kept = {} /\ Ranked = {}
  BY DEF Rows, Outstanding, Kept, Ranked
<1>4. RowsInOrder
  <2>1. \A d \in Deliveries : status[d] = "absent" <=> d > 0
    BY BoundsAssumption DEF Deliveries
  <2>2. QED
    BY <2>1 DEF RowsInOrder
<1>5. RanksFit
  <2>1. Cardinality(Ranked) = 0
    BY <1>3, FS_EmptySet
  <2>2. QED
    BY <1>3, <2>1 DEF RanksFit
<1>6. OwnersFit /\ OneSuccessor
  BY DEF OwnersFit, OneSuccessor, Deliveries
<1>7. OnePlanner /\ PlansFit
  BY DEF OnePlanner, PlansFit
<1>8. NoOverlap /\ Anchored
  BY <1>3 DEF NoOverlap, Anchored
<1>9. EpisodesFit
  BY StartTypes DEF EpisodesFit
<1>10. QED
  BY <1>1, <1>2, <1>4, <1>5, <1>6, <1>7, <1>8, <1>9 DEF MailsInv, DeliveriesInv

\* Rows may change among the outstanding ones, and be given up or cancelled.
CalmRows ==
    \A d \in Deliveries : \/ status'[d] = status[d]
                          \/ /\ status[d] \in Outstanding
                             /\ status'[d] \in Outstanding \cup {"permanent_failure", "cancelled"}
\* Planners go on holding their plans, or forget them.
CalmPlans ==
    \A w \in Workers : \/ plan'[w] = plan[w] /\ (pc'[w] = "planned" <=> pc[w] = "planned")
                       \/ plan'[w] = NoPlan /\ pc'[w] # "planned"

LEMMA CalmStep ==
    ASSUME TypeOK, PlansTyped, DeliveriesInv, CalmRows, CalmPlans,
           UNCHANGED <<content, anchor, parent, rank>>
    PROVE  RowsInOrder' /\ OnePlanner' /\ RanksFit' /\ PlansFit' /\ NoOverlap'
           /\ OneSuccessor' /\ Anchored'
<1> USE DEF DeliveriesInv
<1>1. \A d \in Deliveries : /\ status'[d] \in Outstanding => status[d] \in Outstanding
                            /\ status'[d] = "sent" <=> status[d] = "sent"
                            /\ status'[d] = "absent" <=> status[d] = "absent"
                            /\ status[d] \in Terminal => status'[d] = status[d]
  BY DEF CalmRows, Outstanding, Terminal
<1>2. /\ Rows(Outstanding)' \subseteq Rows(Outstanding)
      /\ Rows({"sent"})' = Rows({"sent"})
      /\ Kept' \subseteq Kept
  BY <1>1 DEF Rows, Kept
<1>3. RowsInOrder'
  BY <1>1 DEF RowsInOrder
<1>4. OnePlanner'
  BY DEF OnePlanner, CalmPlans
<1>5. Ranked' = Ranked
  BY DEF Ranked
<1>6. RanksFit'
  BY <1>1, <1>2, <1>5 DEF RanksFit, Ranked, Terminal
<1>7. NoOverlap'
  BY <1>2 DEF NoOverlap
<1>8. OneSuccessor'
  BY <1>1 DEF OneSuccessor, Terminal
<1>10. Anchored'
  <2> SUFFICES ASSUME NEW e \in Kept', parent[e] = 0, NEW n \in Items(content[e])
               PROVE  Follows(anchor[e][n], content[e][n], n, Before(e))'
    BY DEF Anchored
  <2>1. Follows(anchor[e][n], content[e][n], n, Before(e))
    BY <1>2 DEF Anchored
  <2>2. Before(e)' = Before(e)
    BY <1>1, <1>2 DEF Before, Kept, Rows
  <2>3. QED
    BY <2>1, <2>2 DEF Follows, About
<1>11. PlansFit'
  <2> SUFFICES ASSUME NEW w \in Workers
               PROVE  IF pc'[w] = "planned" THEN StaleFits(w)' /\ BatchesFit(w)' ELSE plan'[w] = NoPlan
    BY DEF PlansFit
  <2>1. CASE pc'[w] = "planned"
    <3>1. plan'[w] = plan[w] /\ StaleFits(w) /\ BatchesFit(w)
      BY <2>1 DEF CalmPlans, PlansFit
    <3>2. StaleFits(w)'
      <4>1. plan[w].stale \subseteq Deliveries
        BY DEF PlansTyped, Plans
      <4>2. QED
        BY <3>1, <4>1, <1>1, <1>2 DEF StaleFits
    <3>3. BatchesFit(w)'
      <4> SUFFICES ASSUME NEW b \in plan[w].batches
                   PROVE  /\ \E s \in 1..MaxStage : Uniform(b, s)
                          /\ \A n \in Items(b.content) :
                                Follows(b.anchor[n], b.content[n], n, Rows({"sent"}) \ plan[w].stale)'
                          /\ \A d \in (Rows(Outstanding) \ plan[w].stale)' :
                                Items(b.content) \cap Items(content[d]) = {}
                          /\ \A c \in plan[w].batches : b # c =>
                                /\ Items(b.content) \cap Items(c.content) = {}
                                /\ \A s \in 1..MaxStage : ~ (Uniform(b, s) /\ Uniform(c, s))
        BY <3>1 DEF BatchesFit
      <4>1. \A n \in Items(b.content) :
                Follows(b.anchor[n], b.content[n], n, Rows({"sent"}) \ plan[w].stale)
        BY <3>1 DEF BatchesFit
      <4>2. \A n \in Items(b.content) :
                Follows(b.anchor[n], b.content[n], n, Rows({"sent"}) \ plan[w].stale)'
        BY <4>1, <3>1, <1>2 DEF Follows, About
      <4>3. QED
        BY <4>2, <3>1, <1>2 DEF BatchesFit
    <3>4. QED
      BY <2>1, <3>2, <3>3
  <2>2. CASE pc'[w] # "planned"
    BY <2>2 DEF CalmPlans, PlansFit
  <2>3. QED
    BY <2>1, <2>2
<1>12. QED
  BY <1>3, <1>4, <1>6, <1>7, <1>8, <1>10, <1>11

\* Actions that leave the rows alone, but for their leases and delays.
LEMMA SameRows ==
    ASSUME MailsInv, TypeOK', PlansTyped', CalmPlans,
           UNCHANGED <<status, worker, intentVars, rank>>
    PROVE  MailsInv'
<1> USE DEF MailsInv, intentVars
<1>1. CalmRows
  BY DEF CalmRows
<1>2. OwnersFit'
  BY DEF DeliveriesInv, OwnersFit
<1>3. QED
  BY <1>1, <1>2, CalmStep DEF DeliveriesInv

\* Actions of a worker that move rows on, and no plan.
LEMMA MovedRows ==
    ASSUME MailsInv, TypeOK', CalmRows, OwnersFit', NEW w \in Workers, NEW p \in Places,
           p # "planned", pc[w] # "planned", Goto(w, p),
           UNCHANGED <<intentVars, rank, plan>>
    PROVE  MailsInv'
<1> USE DEF MailsInv, intentVars
<1>1. CalmPlans
  BY DEF CalmPlans, Goto, TypeOK
<1>2. QED
  BY <1>1, CalmStep DEF DeliveriesInv, PlansTyped

LEMMA WaitingInv ==
    ASSUME MailsInv, NEW w \in Workers,
           Collect(w) \/ Recheck(w) \/ Revalidate(w) \/ StartSending(w) \/ Heartbeat(w) \/ Smtp(w) \/ Break(w) \/ Crash(w)
    PROVE  MailsInv'
<1> USE DEF MailsInv, Goto, Forget, rowVars, intentVars, workerVars
<1>1. CalmPlans
  BY DEF CalmPlans, TypeOK, PlansTyped, Collect, Recheck, Revalidate, StartSending, Heartbeat, Smtp, Break, Crash
<1>2. PlansTyped'
  <2>1. NoPlan \in Plans
    BY StartTypes
  <2>2. QED
    BY <2>1 DEF PlansTyped, Collect, Recheck, Revalidate, StartSending, Heartbeat, Smtp, Break, Crash
<1>3. UNCHANGED <<status, worker, intentVars, rank>>
  BY DEF Collect, Recheck, Revalidate, StartSending, Heartbeat, Smtp, Break, Crash
<1>4. pc' \in [Workers -> Places]
  BY DEF TypeOK, Collect, Recheck, Revalidate, StartSending, Heartbeat, Smtp, Break, Crash, Places
<1>5. job' \in [Workers -> Deliveries \cup {NoJob}]
  BY DEF TypeOK, Collect, Recheck, Revalidate, StartSending, Heartbeat, Smtp, Break, Crash
<1>6. seen' \in [Workers -> [Notifications -> Evidences]]
  <2>1. Suppressed \in [Notifications -> Evidences]
    BY StartTypes
  <2>2. QED
    BY <2>1 DEF TypeOK, Collect, Recheck, Revalidate, StartSending, Heartbeat, Smtp, Break, Crash
<1>7. lease' \in [Deliveries -> 0..Lease]
  <2>1. lease' = lease \/ lease' = [lease EXCEPT ![job[w]] = Lease]
    BY DEF Collect, Recheck, Revalidate, StartSending, Heartbeat, Smtp, Break, Crash
  <2>2. Lease \in 0..Lease
    BY BoundsAssumption
  <2>3. QED
    BY <2>1, <2>2 DEF TypeOK
<1>8. TypeOK'
  BY <1>3, <1>4, <1>5, <1>6, <1>7
  DEF TypeOK, Collect, Recheck, Revalidate, StartSending, Heartbeat, Smtp, Break, Crash
<1>9. QED
  BY <1>1, <1>2, <1>3, <1>8, SameRows

LEMMA EnvironmentInv ==
    ASSUME MailsInv,
           \/ Tick \/ NewDay
           \/ \E d \in Deliveries : RetryDue(d)
           \/ \E n \in Notifications, e \in Evidences : WorldChanges(n, e)
    PROVE  MailsInv'
<1> USE DEF MailsInv, rowVars, intentVars, workerVars
<1>1. CalmPlans /\ PlansTyped' /\ UNCHANGED <<status, worker, intentVars, rank>>
  BY DEF CalmPlans, PlansTyped, Tick, NewDay, RetryDue, WorldChanges
<1>2. lease' \in [Deliveries -> 0..Lease]
  BY BoundsAssumption DEF TypeOK, Tick, NewDay, RetryDue, WorldChanges
<1>3. wait' \in [Deliveries -> {"now", "later", "tomorrow"}]
  BY DEF TypeOK, Tick, NewDay, RetryDue, WorldChanges
<1>4. today' \in [Deliveries -> BOOLEAN]
  BY DEF TypeOK, Tick, NewDay, RetryDue, WorldChanges
<1>5. world' \in [Notifications -> Evidences]
  BY DEF TypeOK, Tick, NewDay, RetryDue, WorldChanges
<1>6. UNCHANGED <<attempts, known, pc, job, seen>>
  BY DEF Tick, NewDay, RetryDue, WorldChanges
<1>7. TypeOK'
  BY <1>1, <1>2, <1>3, <1>4, <1>5, <1>6 DEF TypeOK
<1>8. QED
  BY <1>1, <1>7, SameRows

LEMMA ClaimInv ==
    ASSUME MailsInv, NEW w \in Workers, Claim(w)
    PROVE  MailsInv'
<1> USE DEF MailsInv
<1>1. PICK passed \in SUBSET DueRows, d \in DueRows \cup {NoJob} :
        /\ d # NoJob => d \notin passed /\ ~ Exhausted(d)
        /\ status' = [e \in Deliveries |-> IF e = d THEN "sending"
                                           ELSE IF e \in passed THEN Settled(e)
                                           ELSE status[e]]
        /\ worker' = [e \in Deliveries |-> IF e = d THEN w
                                           ELSE IF e \in passed THEN Nobody
                                           ELSE worker[e]]
        /\ lease' = [e \in Deliveries |-> IF e = d THEN Lease ELSE lease[e]]
        /\ attempts' = [e \in Deliveries |-> IF e = d THEN attempts[e] + 1 ELSE attempts[e]]
        /\ wait' = [e \in Deliveries |->
                        IF e \in passed /\ ~Exhausted(e) THEN "tomorrow"
                        ELSE wait[e]]
        /\ today' = [e \in Deliveries |-> IF e = d THEN TRUE
                                          ELSE IF e \in passed THEN FALSE
                                          ELSE today[e]]
        /\ job' = [job EXCEPT ![w] = d]
        /\ Goto(w, IF d = NoJob THEN "idle" ELSE "claimed")
  BY DEF Claim
<1>2. UNCHANGED <<rank, intentVars, known, world, seen, plan>> /\ pc[w] = "claiming"
  BY DEF Claim
<1>3. \A e \in Deliveries : /\ e \in DueRows => status[e] \in Outstanding
                            /\ Settled(e) \in {"permanent_failure", "failed", "queued"}
                            /\ e # NoJob
  BY DEF DueRows, Outstanding, Settled, Deliveries, NoJob
<1>4. CalmRows
  BY <1>1, <1>3 DEF CalmRows, Outstanding, TypeOK
<1>5. OwnersFit'
  BY <1>1, <1>2, <1>3 DEF OwnersFit, DeliveriesInv, TypeOK, Outstanding, intentVars
<1>6. status' \in [Deliveries -> {"absent"} \cup Outstanding \cup Terminal]
  BY <1>1, <1>3 DEF TypeOK, Outstanding, Terminal
<1>7. worker' \in [Deliveries -> Workers \cup {Nobody}]
  BY <1>1 DEF TypeOK
<1>8. lease' \in [Deliveries -> 0..Lease]
  BY <1>1, BoundsAssumption DEF TypeOK
<1>9. attempts' \in [Deliveries -> 0..MaxAttempts]
  <2>1. \A e \in Deliveries : e = d => attempts[e] < MaxAttempts
    BY <1>1, <1>3, BoundsAssumption DEF Exhausted, TypeOK
  <2>2. QED
    BY <1>1, <2>1, BoundsAssumption DEF TypeOK
<1>10. wait' \in [Deliveries -> {"now", "later", "tomorrow"}] /\ today' \in [Deliveries -> BOOLEAN]
  BY <1>1 DEF TypeOK
<1>11. job' \in [Workers -> Deliveries \cup {NoJob}]
  BY <1>1 DEF TypeOK, DueRows
<1>12. pc' \in [Workers -> Places]
  BY <1>1 DEF TypeOK, Goto, Places
<1>13. TypeOK'
  BY <1>2, <1>6, <1>7, <1>8, <1>9, <1>10, <1>11, <1>12 DEF TypeOK, intentVars
<1>14. QED
  BY <1>1, <1>2, <1>4, <1>5, <1>13, MovedRows DEF Places

LEMMA DropObsoleteInv ==
    ASSUME MailsInv, NEW w \in Workers, DropObsolete(w)
    PROVE  MailsInv'
<1> USE DEF MailsInv, NoJob
<1>1. \A d \in Deliveries : worker[d] # Nobody => status[d] \in {"sending", "cancelled"}
  BY DEF DeliveriesInv, OwnersFit
<1>2. Owns(w) => /\ job[w] \in Deliveries
                 /\ status[job[w]] \in {"sending", "cancelled"}
  BY <1>1, NobodyIsNoWorker DEF Owns, TypeOK
<1>3. CalmRows
  BY <1>2 DEF DropObsolete, CalmRows, Outstanding, TypeOK
<1>4. OwnersFit'
  BY <1>1 DEF DropObsolete, OwnersFit, DeliveriesInv, TypeOK, intentVars
<1>5. TypeOK'
  <2>2. status' \in [Deliveries -> {"absent"} \cup Outstanding \cup Terminal]
    BY DEF DropObsolete, TypeOK, Terminal
  <2>3. worker' \in [Deliveries -> Workers \cup {Nobody}]
    BY DEF DropObsolete, TypeOK
  <2>4. lease' \in [Deliveries -> 0..Lease]
    BY BoundsAssumption DEF DropObsolete, TypeOK
  <2>5. today' \in [Deliveries -> BOOLEAN]
    BY DEF DropObsolete, TypeOK
  <2>6. job' \in [Workers -> Deliveries \cup {NoJob}] /\ pc' \in [Workers -> Places]
    BY DEF DropObsolete, TypeOK, Goto, Places
  <2>7. QED
    BY <2>2, <2>3, <2>4, <2>5, <2>6 DEF DropObsolete, TypeOK, intentVars
<1>6. QED
  BY <1>3, <1>4, <1>5, MovedRows DEF DropObsolete, Places

----------------------------------------------------------------------------
(* The end of an attempt.                                                  *)

LEMMA RankedFinite == IsFiniteSet(Ranked) /\ Cardinality(Ranked) \in Nat
<1>1. IsFiniteSet(Deliveries)
  BY BoundsAssumption, FS_Interval DEF Deliveries
<1>2. Ranked \in SUBSET Deliveries
  BY DEF Ranked
<1>3. IsFiniteSet(Ranked)
  BY <1>1, <1>2, FS_Subset
<1>4. QED
  BY <1>3, FS_CardinalityType

\* Recording a mail as sent makes it the last one.
LEMMA SentStep ==
    ASSUME MailsInv, NEW d \in Deliveries, status[d] = "sending",
           status' = [status EXCEPT ![d] = "sent"],
           rank' = [rank EXCEPT ![d] = Cardinality(Ranked) + 1],
           CalmPlans, UNCHANGED <<content, anchor, parent>>
    PROVE  RowsInOrder' /\ OnePlanner' /\ RanksFit' /\ PlansFit' /\ NoOverlap'
           /\ OneSuccessor' /\ Anchored'
<1> USE DEF MailsInv, DeliveriesInv
<1>1. IsFiniteSet(Ranked) /\ Cardinality(Ranked) \in Nat
  BY RankedFinite
<1>2. /\ rank \in [Deliveries -> Nat] /\ status \in [Deliveries -> {"absent"} \cup Outstanding \cup Terminal]
      /\ \A e \in Deliveries \ {d} : status'[e] = status[e] /\ rank'[e] = rank[e]
      /\ status'[d] = "sent" /\ rank'[d] = Cardinality(Ranked) + 1
  BY DEF TypeOK
<1>3. d \notin Ranked /\ rank[d] = 0
  BY DEF RanksFit, Ranked
<1>4. Ranked' = Ranked \cup {d} /\ Cardinality(Ranked') = Cardinality(Ranked) + 1
  <2>1. Ranked' = Ranked \cup {d}
    BY <1>1, <1>2 DEF Ranked
  <2>2. QED
    BY <2>1, <1>1, <1>3, FS_AddElement
<1>5. \A e \in Deliveries : rank[e] <= Cardinality(Ranked)
  BY DEF RanksFit
<1>6. /\ Rows(Outstanding)' = Rows(Outstanding) \ {d}
      /\ Rows({"sent"})' = Rows({"sent"}) \cup {d}
      /\ Kept' = Kept
      /\ d \in Rows(Outstanding) /\ d \notin Rows({"sent"})
  BY <1>2 DEF Rows, Kept, Outstanding
<1>7. RowsInOrder'
  BY <1>2 DEF RowsInOrder
<1>8. OnePlanner'
  BY DEF OnePlanner, CalmPlans
<1>9. RanksFit'
  <2>1. \A e \in Ranked' : status'[e] \in {"sent", "cancelled"}
    BY <1>2, <1>4 DEF RanksFit
  <2>2. Rows({"sent"})' \subseteq Ranked'
    BY <1>4, <1>6 DEF RanksFit
  <2>3. \A e \in Deliveries : rank'[e] <= Cardinality(Ranked')
    BY <1>1, <1>2, <1>4, <1>5
  <2>4. \A e, f \in Ranked' : rank'[e] = rank'[f] => e = f
    BY <1>1, <1>2, <1>4, <1>5 DEF RanksFit, Ranked
  <2>5. QED
    BY <2>1, <2>2, <2>3, <2>4 DEF RanksFit
<1>10. NoOverlap'
  BY <1>6 DEF NoOverlap
<1>11. OneSuccessor'
  BY <1>2 DEF OneSuccessor
<1>12. \A e \in Rows(Outstanding) \ {d} : Items(content[e]) \cap Items(content[d]) = {}
  BY <1>6 DEF NoOverlap
<1>13. Anchored'
  <2> SUFFICES ASSUME NEW e \in Kept, parent[e] = 0, NEW n \in Items(content[e])
               PROVE  Follows(anchor[e][n], content[e][n], n, Before(e))'
    BY <1>6 DEF Anchored
  <2>1. Follows(anchor[e][n], content[e][n], n, Before(e))
    BY DEF Anchored
  <2>2. About(n, Before(e))' = About(n, Before(e)) /\ d \notin About(n, Before(e))
    <3>1. CASE e = d
      BY <3>1, <1>1, <1>2, <1>5, <1>6 DEF About, Before, Rows
    <3>2. CASE e # d /\ status[e] = "sent"
      BY <3>2, <1>1, <1>2, <1>5, <1>6 DEF About, Before, Kept, Rows
    <3>3. CASE e # d /\ status[e] # "sent"
      <4>1. e \in Rows(Outstanding) \ {d}
        BY <3>3 DEF Kept, Rows
      <4>2. n \notin Items(content[d])
        BY <4>1, <1>12
      <4>3. Before(e)' = Before(e) \cup {d}
        BY <3>3, <1>2, <1>6 DEF Before, Kept, Rows
      <4>4. d \notin Before(e)
        BY <1>6 DEF Before
      <4>5. QED
        BY <4>2, <4>3, <4>4 DEF About
    <3>4. QED
      BY <3>1, <3>2, <3>3
  <2>3. About(n, Before(e)) \subseteq Deliveries \ {d}
    BY <2>2 DEF About, Before, Rows
  <2>4. QED
    BY <2>1, <2>2, <2>3, <1>2 DEF Follows
<1>14. PlansFit'
  <2> SUFFICES ASSUME NEW w \in Workers
               PROVE  IF pc'[w] = "planned" THEN StaleFits(w)' /\ BatchesFit(w)' ELSE plan'[w] = NoPlan
    BY DEF PlansFit
  <2>1. CASE pc'[w] = "planned"
    <3>1. plan'[w] = plan[w] /\ StaleFits(w) /\ BatchesFit(w)
      BY <2>1 DEF CalmPlans, PlansFit
    <3>2. StaleFits(w)'
      BY <3>1, <1>2, <1>6 DEF StaleFits
    <3>3. BatchesFit(w)'
      <4> SUFFICES ASSUME NEW b \in plan[w].batches, NEW n \in Items(b.content)
                   PROVE  Follows(b.anchor[n], b.content[n], n, Rows({"sent"}) \ plan[w].stale)'
        BY <3>1, <1>6 DEF BatchesFit
      <4>1. Follows(b.anchor[n], b.content[n], n, Rows({"sent"}) \ plan[w].stale)
        BY <3>1 DEF BatchesFit
      <4>2. d \in plan[w].stale \/ n \notin Items(content[d])
        BY <3>1, <1>6 DEF BatchesFit
      <4>3. About(n, Rows({"sent"}) \ plan[w].stale)' = About(n, Rows({"sent"}) \ plan[w].stale)
        BY <4>2, <3>1, <1>6 DEF About
      <4>4. About(n, Rows({"sent"}) \ plan[w].stale) \subseteq Deliveries \ {d}
        BY <1>6 DEF About, Rows
      <4>5. QED
        BY <4>1, <4>3, <4>4, <1>2 DEF Follows
    <3>4. QED
      BY <2>1, <3>2, <3>3
  <2>2. CASE pc'[w] # "planned"
    BY <2>2 DEF CalmPlans, PlansFit
  <2>3. QED
    BY <2>1, <2>2
<1>15. QED
  BY <1>7, <1>8, <1>9, <1>10, <1>11, <1>13, <1>14

LEMMA FinishInv ==
    ASSUME MailsInv, NEW w \in Workers, Finish(w)
    PROVE  MailsInv'
<1> USE DEF MailsInv
<1> DEFINE d == job[w]
           outcome == IF pc[w] = "accepted" THEN "sent"
                      ELSE IF pc[w] = "refused" \/ attempts[d] >= MaxAttempts
                           THEN "permanent_failure" ELSE "failed"
<1>1. /\ job' = [job EXCEPT ![w] = NoJob] /\ Goto(w, "claiming") /\ pc[w] # "planned"
      /\ UNCHANGED <<attempts, intentVars, known, world, seen, plan>>
  BY DEF Finish
<1>2. PlansTyped' /\ CalmPlans
  BY <1>1 DEF PlansTyped, CalmPlans, Goto, TypeOK
<1>3. job' \in [Workers -> Deliveries \cup {NoJob}] /\ pc' \in [Workers -> Places]
  BY <1>1 DEF TypeOK, Goto, Places
<1>4. CASE ~ HoldsLease(w)
  <2>1. UNCHANGED <<status, worker, lease, wait, today, rank>>
    BY <1>4 DEF Finish
  <2>2. TypeOK'
    BY <2>1, <1>1, <1>3 DEF TypeOK, intentVars
  <2>3. QED
    BY <2>1, <2>2, <1>1, <1>2, SameRows
<1>5. CASE HoldsLease(w)
  <2>1. d \in Deliveries /\ status[d] = "sending"
    BY <1>5 DEF HoldsLease, Owns, TypeOK
  <2>2. /\ status' = [status EXCEPT ![d] = outcome]
        /\ worker' = [worker EXCEPT ![d] = Nobody]
        /\ lease' = [lease EXCEPT ![d] = 0]
        /\ wait' = [wait EXCEPT ![d] = IF outcome = "failed" THEN "later" ELSE "now"]
        /\ today' = [today EXCEPT ![d] = outcome = "sent"]
        /\ rank' = [rank EXCEPT ![d] =
                IF outcome = "sent" THEN Cardinality(Ranked) + 1 ELSE @]
    BY <1>5 DEF Finish, Ranked
  <2>3. outcome \in {"sent", "permanent_failure", "failed"}
    OBVIOUS
  <2> HIDE DEF d, outcome
  <2>4. OwnersFit'
    <3>1. \A e \in Deliveries \ {d} : status'[e] = status[e] /\ worker'[e] = worker[e]
      BY <2>1, <2>2 DEF TypeOK
    <3>2. worker'[d] = Nobody /\ status'[d] # "absent" /\ parent' = parent
      BY <2>1, <2>2, <2>3, <1>1 DEF TypeOK, intentVars
    <3>3. QED
      BY <3>1, <3>2 DEF OwnersFit, DeliveriesInv
  <2>5. Cardinality(Ranked) \in Nat
    BY RankedFinite
  <2>6. TypeOK'
    <3>1. status' \in [Deliveries -> {"absent"} \cup Outstanding \cup Terminal]
      BY <2>2, <2>3 DEF TypeOK, Outstanding, Terminal
    <3>2. worker' \in [Deliveries -> Workers \cup {Nobody}] /\ lease' \in [Deliveries -> 0..Lease]
      BY <2>1, <2>2, BoundsAssumption DEF TypeOK
    <3>3. wait' \in [Deliveries -> {"now", "later", "tomorrow"}] /\ today' \in [Deliveries -> BOOLEAN]
      BY <2>2 DEF TypeOK
    <3>4. rank' \in [Deliveries -> Nat]
      BY <2>1, <2>2, <2>5 DEF TypeOK
    <3>5. QED
      BY <3>1, <3>2, <3>3, <3>4, <1>1, <1>3 DEF TypeOK, intentVars
  <2>7. CASE outcome = "sent"
    <3>1. /\ status' = [status EXCEPT ![d] = "sent"]
          /\ rank' = [rank EXCEPT ![d] = Cardinality(Ranked) + 1]
      BY <2>2, <2>7
    <3>2. QED
      BY <3>1, <2>1, <2>4, <2>6, <1>1, <1>2, SentStep DEF DeliveriesInv, intentVars
  <2>8. CASE outcome # "sent"
    <3>1. rank' = rank
      BY <2>2, <2>8 DEF TypeOK
    <3>2. CalmRows
      BY <2>1, <2>2, <2>3, <2>8 DEF CalmRows, TypeOK, Outstanding
    <3>3. QED
      BY <3>1, <3>2, <2>4, <2>6, <1>1, MovedRows DEF Places
  <2>9. QED
    BY <2>7, <2>8
<1>6. QED
  BY <1>4, <1>5

----------------------------------------------------------------------------
(* Planning.                                                               *)

LEMMA LeastOf == ASSUME NEW T \in SUBSET Nat, T # {} PROVE \E x \in T : \A y \in T : x <= y
<1> DEFINE R == {ss \in Nat \X Nat : ss[1] < ss[2]}
<1>1. IsWellFoundedOn(R, Nat)
  BY NatLessThanWellFounded DEF OpToRel
<1>2. PICK x \in T : \A y \in T : <<y, x>> \notin R
  <2> HIDE DEF R
  <2>1. QED
    BY <1>1, WFMin
<1>3. \A y \in T : x <= y
  <2> TAKE y \in T
  <2>1. <<y, x>> \notin R /\ x \in Nat /\ y \in Nat
    BY <1>2
  <2>2. ~ (y < x)
    BY <2>1
  <2>3. QED
    BY <2>1, <2>2
<1>4. QED
  BY <1>3

\* LastSent picks the last of the mails sent about a notification.
LEMMA LastSentIsLast ==
    ASSUME TypeOK, RanksFit, NEW n \in Notifications
    PROVE  \/ LastSent(n) = 0 /\ About(n, Rows({"sent"})) = {}
           \/ /\ LastSent(n) \in About(n, Rows({"sent"}))
              /\ \A f \in About(n, Rows({"sent"})) : rank[f] <= rank[LastSent(n)]
<1> DEFINE S == {d \in Rows({"sent"}) : n \in Items(content[d])}
           top == Cardinality(Ranked)
           below == {top - rank[d] : d \in S}
<1>1. LastSent(n) = IF S = {} THEN 0 ELSE CHOOSE d \in S : \A e \in S : rank[e] <= rank[d]
  BY DEF LastSent
<1>2. S = About(n, Rows({"sent"})) /\ S \subseteq Deliveries
  BY DEF About, Rows
<1>3. top \in Nat /\ \A d \in S : rank[d] \in Nat /\ rank[d] <= top
  BY <1>2, RankedFinite DEF RanksFit, TypeOK
<1>4. CASE S # {}
  <2>1. below \in SUBSET Nat /\ below # {}
    BY <1>3, <1>4
  <2>2. PICK x \in below : \A y \in below : x <= y
    BY <2>1, LeastOf
  <2>3. PICK d \in S : x = top - rank[d]
    BY <2>2
  <2>4. \A e \in S : rank[e] <= rank[d]
    <3> TAKE e \in S
    <3>1. x <= top - rank[e]
      BY <2>2
    <3>2. QED
      BY <3>1, <2>3, <1>3
  <2> HIDE DEF S
  <2>5. \E c \in S : \A e \in S : rank[e] <= rank[c]
    BY <2>3, <2>4
  <2>6. LastSent(n) \in S /\ \A e \in S : rank[e] <= rank[LastSent(n)]
    BY <1>1, <1>4, <2>5
  <2>7. QED
    BY <2>6, <1>2
<1>5. CASE S = {}
  BY <1>1, <1>2, <1>5
<1>6. QED
  BY <1>4, <1>5

LEMMA SynchronizedRow ==
    ASSUME NEW row \in KnownRows, NEW evidence \in Evidences
    PROVE  /\ Synchronized(row, evidence) \in KnownRows
           /\ row.episode <= Synchronized(row, evidence).episode
<1>1. evidence.status \in {"active", "suppressed", "ended"}
  BY DEF Evidences
<1>2. row.episode \in Nat /\ row.status \in {"none", "active", "suppressed", "ended"}
  BY DEF KnownRows
<1>3. CASE row.status = "none"
  <2>1. [status |-> "active", episode |-> 1] \in KnownRows /\ row.episode = 0
    BY <1>3 DEF KnownRows
  <2>2. CASE evidence.status = "active"
    <3>1. Synchronized(row, evidence) = [status |-> "active", episode |-> 1]
      BY <1>3, <2>2 DEF Synchronized
    <3>2. QED
      BY <2>1, <3>1
  <2>3. CASE evidence.status # "active"
    <3>1. Synchronized(row, evidence) = row
      BY <1>3, <2>3 DEF Synchronized
    <3>2. QED
      BY <2>1, <3>1
  <2>4. QED
    BY <2>2, <2>3
<1>4. CASE row.status # "none"
  <2> DEFINE begins == IF row.status = "ended" /\ evidence.status # "ended" THEN 1 ELSE 0
  <2>1. begins \in {0, 1}
    OBVIOUS
  <2>2. Synchronized(row, evidence) = [status |-> evidence.status, episode |-> row.episode + begins]
    BY <1>4 DEF Synchronized
  <2> HIDE DEF begins
  <2>3. QED
    BY <2>1, <2>2, <1>1, <1>2 DEF KnownRows
<1>5. QED
  BY <1>3, <1>4

LEMMA Reported ==
    ASSUME NEW rows \in [Notifications -> KnownRows], NEW evidence \in [Notifications -> Evidences]
    PROVE  /\ Reports(rows, evidence) \in Contents
           /\ \A n \in Items(Reports(rows, evidence)) : Reports(rows, evidence)[n].episode = rows[n].episode
<1>1. \A n \in Notifications :
          /\ rows[n].episode \in Nat
          /\ evidence[n].stage \in 0..MaxStage
  <2> TAKE n \in Notifications
  <2>1. evidence[n] \in Evidences /\ rows[n] \in KnownRows
    OBVIOUS
  <2>2. QED
    BY <2>1, BoundsAssumption DEF Evidences, KnownRows
<1>2. \A n \in Notifications : [episode |-> rows[n].episode, stage |-> evidence[n].stage] \in Versions
  BY <1>1 DEF Versions
<1>3. Reports(rows, evidence) \in Contents
  BY <1>2, StartTypes DEF Reports, Contents
<1>4. \A n \in Notifications : Reports(rows, evidence)[n].stage # 0 =>
          Reports(rows, evidence)[n].episode = rows[n].episode
  BY DEF Reports, NoItem
<1>5. QED
  BY <1>3, <1>4 DEF Items

LEMMA ReadHistoryInv ==
    ASSUME MailsInv, EpisodesFit, NEW w \in Workers, ReadHistory(w)
    PROVE  MailsInv' /\ EpisodesFit'
<1> USE DEF MailsInv
<1>0. PICK rows, current :
          /\ rows = [n \in Notifications |-> Synchronized(known[n], seen[w][n])]
          /\ current = Reports(rows, seen[w])
  OBVIOUS
<1> DEFINE stale == StaleIntents(current)
           found == Batches(current, stale)
           Group(s) == {n \in Notifications : Eligible(n, current) /\ current[n].stage = s}
           BatchOf(s) ==
               [content |-> [n \in Notifications |->
                               IF n \in Group(s) THEN current[n] ELSE NoItem],
                anchor |-> [n \in Notifications |->
                               IF n \in Group(s) THEN LastSent(n) ELSE 0]]
           stages == {t \in 1..MaxStage : Group(t) # {} /\ Group(t) \cap Covered(stale) = {}}
<1>1. /\ plan' = [plan EXCEPT ![w] = [known |-> rows, stale |-> stale, batches |-> found]]
      /\ Goto(w, "planned") /\ PlanningIdle
      /\ seen' = [seen EXCEPT ![w] = Suppressed]
      /\ UNCHANGED <<rowVars, intentVars, known, world, job>>
  BY <1>0 DEF ReadHistory, Forget
<1>2. UNCHANGED <<status, worker, lease, attempts, wait, today, rank, content, anchor, parent, known>>
  BY <1>1 DEF rowVars, intentVars
<1>3. found = {BatchOf(s) : s \in stages}
  BY DEF Batches
<1>4. \A n \in Notifications : \/ LastSent(n) = 0 /\ About(n, Rows({"sent"})) = {}
                               \/ /\ LastSent(n) \in About(n, Rows({"sent"}))
                                  /\ \A f \in About(n, Rows({"sent"})) : rank[f] <= rank[LastSent(n)]
  BY LastSentIsLast DEF DeliveriesInv
<1>5. \A n \in Notifications : LastSent(n) \in Deliveries \cup {0}
  BY <1>4 DEF About, Rows
<1>6. stale \subseteq Rows({"queued", "failed"})
  BY DEF StaleIntents
<1>25. /\ rows \in [Notifications -> KnownRows]
       /\ \A n \in Notifications : known[n].episode <= rows[n].episode
  BY <1>0, SynchronizedRow DEF TypeOK
<1>26. current \in Contents /\ \A n \in Items(current) : current[n].episode = rows[n].episode
  <2>1. seen[w] \in [Notifications -> Evidences]
    BY DEF TypeOK
  <2>2. QED
    BY <2>1, <1>0, <1>25, Reported
<1>7. \A s \in stages : BatchOf(s) \in Batch
  <2> SUFFICES ASSUME NEW s \in stages PROVE BatchOf(s) \in Batch
    OBVIOUS
  <2>2. [n \in Notifications |-> IF n \in Group(s) THEN current[n] ELSE NoItem] \in Contents
    <3> HIDE DEF Group
    <3>1. QED
      BY <1>26, StartTypes DEF Contents
  <2>3. [n \in Notifications |-> IF n \in Group(s) THEN LastSent(n) ELSE 0]
            \in [Notifications -> Deliveries \cup {0}]
    <3> HIDE DEF Group
    <3>1. QED
      BY <1>5
  <2>4. QED
    BY <2>2, <2>3 DEF Batch
<1>8. PlansTyped'
  <2>1. found \subseteq Batch
    BY <1>3, <1>7
  <2>2. stale \subseteq Deliveries
    BY <1>6 DEF Rows
  <2> HIDE DEF stale, found
  <2>3. [known |-> rows, stale |-> stale, batches |-> found] \in Plans
    BY <1>25, <2>1, <2>2 DEF Plans
  <2>4. QED
    BY <1>1, <2>3 DEF PlansTyped
<1>9. TypeOK'
  BY <1>1, <1>2, StartTypes DEF TypeOK, Goto, Places
<1>10. \A v \in Workers : pc[v] # "planned" /\ (v # w => pc'[v] = pc[v]) /\ pc'[w] = "planned"
  BY <1>1 DEF PlanningIdle, Goto, TypeOK
<1>11. OnePlanner'
  BY <1>10 DEF OnePlanner
<1>12. /\ RowsInOrder' /\ RanksFit' /\ OwnersFit' /\ NoOverlap' /\ OneSuccessor'
       /\ Rows({"sent"})' = Rows({"sent"}) /\ Rows(Outstanding)' = Rows(Outstanding) /\ Kept' = Kept
  BY <1>2 DEF DeliveriesInv, RowsInOrder, RanksFit, Ranked, OwnersFit, NoOverlap, OneSuccessor, Rows, Kept
<1>13. Anchored'
  BY <1>2 DEF DeliveriesInv, Anchored, Kept, Rows, Before, Follows, About
<1>14. plan'[w].stale = stale /\ plan'[w].batches = found /\ plan'[w].known = rows
  <2> HIDE DEF stale, found
  <2>1. QED
    BY <1>1 DEF PlansTyped
<1>15. \A d \in stale :
          /\ status[d] # "absent"
          /\ \A e \in Deliveries : parent[e] # d
          /\ \A e \in Kept, n \in Notifications :
                parent[e] = 0 /\ n \in Items(content[e]) => anchor[e][n] # d
  <2> TAKE d \in stale
  <2>1. d \in Deliveries /\ status[d] \in {"queued", "failed"} /\ d # 0
    BY <1>6 DEF Rows, Deliveries
  <2>2. \A e \in Deliveries : parent[e] # d
    BY <2>1 DEF DeliveriesInv, OneSuccessor
  <2>3. ASSUME NEW e \in Kept, NEW n \in Notifications, parent[e] = 0, n \in Items(content[e])
        PROVE  anchor[e][n] # d
    <3>1. Follows(anchor[e][n], content[e][n], n, Before(e))
      BY <2>3 DEF DeliveriesInv, Anchored
    <3>2. d \notin About(n, Before(e))
      BY <2>1 DEF About, Before, Rows
    <3>3. QED
      BY <2>1, <3>1, <3>2 DEF Follows
  <2>4. QED
    BY <2>1, <2>2, <2>3
<1>16. StaleFits(w)'
  <2> HIDE DEF stale
  <2>1. QED
    BY <1>2, <1>12, <1>14, <1>15 DEF StaleFits
<1>17. \A s \in stages : /\ Items(BatchOf(s).content) = Group(s)
                         /\ \A n \in Group(s) : /\ BatchOf(s).content[n] = current[n]
                                                /\ current[n].stage = s
                                                /\ BatchOf(s).anchor[n] = LastSent(n)
                                                /\ n \in Notifications
  <2> TAKE s \in stages
  <2>1. s # 0 /\ \A n \in Group(s) : n \in Notifications /\ current[n].stage = s
    OBVIOUS
  <2>2. NoItem.stage = 0
    BY DEF NoItem
  <2> HIDE DEF Group
  <2>3. QED
    BY <2>1, <2>2 DEF Items
<1>18. \A s, t \in stages : s # t => Group(s) \cap Group(t) = {}
  OBVIOUS
<1>19. \A s \in stages : \A d \in Rows(Outstanding) \ stale : Group(s) \cap Items(content[d]) = {}
  BY DEF Covered
<1>20. \A s \in stages : Group(s) # {} /\ s \in 1..MaxStage
  OBVIOUS
<1>21. \A s \in stages : \A n \in Group(s) : Follows(LastSent(n), current[n], n, Rows({"sent"}) \ stale)
  <2> SUFFICES ASSUME NEW s \in stages, NEW n \in Group(s)
               PROVE  Follows(LastSent(n), current[n], n, Rows({"sent"}) \ stale)
    OBVIOUS
  <2>1. n \in Notifications /\ Eligible(n, current)
    OBVIOUS
  <2>2. Rows({"sent"}) \ stale = Rows({"sent"})
    BY <1>6 DEF Rows
  <2>3. LastSent(n) # 0 => Later(current[n], content[LastSent(n)][n])
    <3> SUFFICES ASSUME LastSent(n) # 0 PROVE Later(current[n], content[LastSent(n)][n])
      OBVIOUS
    <3>1. PICK last : last = content[LastSent(n)][n]
      OBVIOUS
    <3>2. n \in Items(current) /\ (current[n].episode > last.episode \/ current[n].stage > last.stage)
      BY <2>1, <3>1 DEF Eligible
    <3>3. LastSent(n) \in Deliveries /\ n \in Items(content[LastSent(n)])
      BY <1>4, <2>1 DEF About, Rows
    <3>4. last.episode <= known[n].episode
      BY <3>1, <3>3 DEF EpisodesFit
    <3>5. last \in Versions /\ current[n] \in Versions /\ known[n] \in KnownRows /\ rows[n] \in KnownRows
      BY <1>25, <1>26, <2>1, <3>1, <3>3 DEF TypeOK, Contents
    <3>6. /\ last.episode \in Nat /\ current[n].episode \in Nat
          /\ known[n].episode \in Nat /\ rows[n].episode \in Nat
      BY <3>5 DEF Versions, KnownRows
    <3>7. last.episode <= current[n].episode
      BY <3>2, <3>4, <3>6, <1>25, <1>26, <2>1
    <3>8. current[n].episode > last.episode \/ (current[n].episode = last.episode /\ current[n].stage > last.stage)
      BY <3>2, <3>6, <3>7
    <3>9. QED
      BY <3>1, <3>8 DEF Later
  <2>4. LastSent(n) \in About(n, Rows({"sent"})) => LastSent(n) # 0
    BY DEF About, Rows, Deliveries
  <2> HIDE DEF stale
  <2>5. QED
    BY <2>1, <2>2, <2>3, <2>4, <1>4 DEF Follows
<1> HIDE DEF stages, stale, found, Group
<1>22. BatchesFit(w)'
  <2>1. PICK st, bs : st = stale /\ bs = found
    OBVIOUS
  <2>2. plan'[w].stale = st /\ plan'[w].batches = bs
    BY <1>14, <2>1
  <2> SUFFICES ASSUME NEW b \in bs
               PROVE  /\ \E t \in 1..MaxStage : Uniform(b, t)
                      /\ \A n \in Items(b.content) :
                            Follows(b.anchor[n], b.content[n], n, Rows({"sent"}) \ st)'
                      /\ \A d \in Rows(Outstanding)' \ st :
                            Items(b.content) \cap Items(content'[d]) = {}
                      /\ \A c \in bs : b # c =>
                            /\ Items(b.content) \cap Items(c.content) = {}
                            /\ \A t \in 1..MaxStage : ~ (Uniform(b, t) /\ Uniform(c, t))
    BY <2>2 DEF BatchesFit, Follows, About
  <2>3. PICK s \in stages : b = BatchOf(s)
    BY <1>3, <2>1
  <2>4. Uniform(b, s) /\ s \in 1..MaxStage
    BY <1>17, <1>20, <2>3 DEF Uniform
  <2>5. \A n \in Items(b.content) : Follows(b.anchor[n], b.content[n], n, Rows({"sent"}) \ st)
    BY <1>17, <1>21, <2>1, <2>3
  <2>6. \A d \in Rows(Outstanding) \ st : Items(b.content) \cap Items(content[d]) = {}
    BY <1>17, <1>19, <2>1, <2>3
  <2>7. ASSUME NEW c \in bs, b # c
        PROVE  /\ Items(b.content) \cap Items(c.content) = {}
               /\ \A t \in 1..MaxStage : ~ (Uniform(b, t) /\ Uniform(c, t))
    <3>1. PICK u \in stages : c = BatchOf(u)
      BY <1>3, <2>1
    <3>2. u # s
      BY <3>1, <2>3, <2>7
    <3>3. \A n \in Group(s) : b.content[n].stage = s
      BY <1>17, <2>3
    <3>4. \A n \in Group(u) : c.content[n].stage = u
      BY <1>17, <3>1
    <3>5. Items(b.content) = Group(s) /\ Items(c.content) = Group(u) /\ Group(s) # {} /\ Group(u) # {}
      BY <1>17, <1>20, <2>3, <3>1
    <3>6. QED
      BY <1>18, <3>2, <3>3, <3>4, <3>5 DEF Uniform
  <2>8. \A n \in Items(b.content) : Follows(b.anchor[n], b.content[n], n, Rows({"sent"}) \ st)'
    BY <2>5, <1>2, <1>12 DEF Follows, About
  <2>9. QED
    BY <2>4, <2>6, <2>7, <2>8, <1>2, <1>12
<1>23. PlansFit'
  <2>1. \A v \in Workers \ {w} : plan'[v] = NoPlan /\ pc'[v] # "planned"
    BY <1>1, <1>10 DEF DeliveriesInv, PlansFit, PlansTyped
  <2>2. QED
    BY <2>1, <1>10, <1>16, <1>22 DEF PlansFit
<1>24. EpisodesFit'
  <2>1. \A b \in found : \A n \in Items(b.content) : b.content[n].episode <= rows[n].episode
    <3> SUFFICES ASSUME NEW b \in found, NEW n \in Items(b.content)
                 PROVE  b.content[n].episode <= rows[n].episode
      OBVIOUS
    <3>5. PICK s \in stages : b = BatchOf(s)
      BY <1>3
    <3>1. b.content[n] = current[n] /\ n \in Notifications /\ current[n].stage # 0
      BY <1>17, <1>20, <3>5
    <3>2. n \in Items(current)
      BY <3>1 DEF Items
    <3>3. rows[n].episode \in Nat
      BY <1>25, <3>1 DEF KnownRows
    <3>4. QED
      BY <3>1, <3>2, <3>3, <1>26
  <2>2. PlanEpisodes(w)'
    BY <2>1, <1>2, <1>14, <1>25 DEF PlanEpisodes
  <2>3. QED
    BY <2>2, <1>1, <1>2, <1>10 DEF EpisodesFit, Goto, TypeOK
<1>27. QED
  BY <1>8, <1>9, <1>11, <1>12, <1>13, <1>23, <1>24 DEF DeliveriesInv

\* What planning and a retry count is the number of rows in use.
LEMMA UsedRows ==
    ASSUME RowsInOrder, NEW used, used = Cardinality({d \in Deliveries : status[d] # "absent"})
    PROVE  used \in 0..MaxDeliveries /\ \A d \in Deliveries : status[d] = "absent" <=> d > used
<1>1. PICK k \in Nat : \A d \in Deliveries : status[d] = "absent" <=> d > k
  BY DEF RowsInOrder
<1> DEFINE U == {d \in Deliveries : status[d] # "absent"}
           m == IF k >= MaxDeliveries THEN MaxDeliveries ELSE k
<1>2. m \in 0..MaxDeliveries /\ \A d \in Deliveries : d > m <=> d > k
  BY BoundsAssumption DEF Deliveries
<1>3. \A d \in Deliveries : status[d] # "absent" <=> d \in 1..m
  BY <1>1, <1>2, BoundsAssumption DEF Deliveries
<1>4. 1..m \subseteq Deliveries
  BY <1>2, BoundsAssumption DEF Deliveries
<1> HIDE DEF m
<1>5. U = 1..m
  BY <1>3, <1>4
<1>6. Cardinality(1..m) = m
  BY <1>2, FS_Interval
<1>7. used = m
  BY <1>5, <1>6
<1>8. QED
  BY <1>1, <1>2, <1>7

LEMMA RetryInv ==
    ASSUME MailsInv, EpisodesFit, NEW d \in Deliveries, Retry(d)
    PROVE  MailsInv' /\ EpisodesFit'
<1> USE DEF MailsInv
<1>0. PICK current : current = Reports(known, world)
  OBVIOUS
<1> DEFINE items == {n \in Items(content[d]) \cap Items(current) : known[n].status = "active"}
           count == Cardinality({e \in Deliveries : status[e] # "absent"}) + 1
<1>1. PICK new, c : new = count /\ c = [n \in Notifications |-> IF n \in items THEN current[n] ELSE NoItem]
  OBVIOUS
<1>2. /\ PlanningIdle /\ status[d] = "permanent_failure" /\ new \in Deliveries
      /\ \A e \in Deliveries : parent[e] = d => status[e] = "cancelled"
      /\ items \cap Covered({}) = {}
      /\ status' = [status EXCEPT ![new] = "queued"]
      /\ content' = [content EXCEPT ![new] = c]
      /\ parent' = [parent EXCEPT ![new] = d]
      /\ UNCHANGED <<worker, lease, attempts, wait, today, rank, anchor, known,
                     world, pc, job, seen, plan>>
  BY <1>0, <1>1 DEF Retry, workerVars
<1>3. c \in Contents /\ Items(c) = items
  <2>1. current \in Contents
    BY <1>0, Reported DEF TypeOK
  <2>2. items \subseteq Notifications /\ \A n \in items : current[n].stage # 0
    BY DEF Items
  <2>3. NoItem.stage = 0
    BY DEF NoItem
  <2> HIDE DEF items
  <2>4. QED
    BY <1>1, <2>1, <2>2, <2>3, StartTypes DEF Contents, Items
<1>4. /\ status[new] = "absent" /\ new # d /\ new # 0 /\ new \in Nat /\ d # 0
      /\ \A e \in Deliveries : status[e] = "absent" <=> e > new - 1
  <2>1. /\ new - 1 \in 0..MaxDeliveries
        /\ \A e \in Deliveries : status[e] = "absent" <=> e > new - 1
    <3>1. new - 1 = Cardinality({e \in Deliveries : status[e] # "absent"})
      <4>1. PICK used : used = Cardinality({e \in Deliveries : status[e] # "absent"})
        OBVIOUS
      <4>2. used \in Nat
        BY <4>1, UsedRows, BoundsAssumption DEF DeliveriesInv
      <4>3. QED
        BY <4>1, <4>2, <1>1
    <3>2. QED
      BY <3>1, UsedRows DEF DeliveriesInv
  <2>2. QED
    BY <2>1, <1>2, BoundsAssumption DEF Deliveries
<1>5. parent[new] = 0 /\ worker[new] = Nobody /\ new \notin Ranked
  BY <1>2, <1>4 DEF DeliveriesInv, OwnersFit, RanksFit
<1>6. \A e \in Deliveries \ {new} : /\ status'[e] = status[e] /\ content'[e] = content[e]
                                    /\ parent'[e] = parent[e]
  BY <1>2 DEF TypeOK
<1>7. status'[new] = "queued" /\ content'[new] = c /\ parent'[new] = d
  BY <1>2 DEF TypeOK
<1>8. TypeOK' /\ PlansTyped'
  BY <1>2, <1>3 DEF TypeOK, PlansTyped, Outstanding
<1>9. /\ Rows({"sent"})' = Rows({"sent"}) /\ Rows(Outstanding)' = Rows(Outstanding) \cup {new}
      /\ Kept' = Kept \cup {new} /\ new \notin Kept /\ new \notin Rows({"sent"}) /\ Ranked' = Ranked
  BY <1>2, <1>4, <1>6, <1>7 DEF Rows, Kept, Ranked, Outstanding
<1>10. RowsInOrder'
  <2>1. \A e \in Deliveries : status'[e] = "absent" <=> e > new
    BY <1>2, <1>4, <1>6, <1>7 DEF Deliveries
  <2>2. QED
    BY <2>1, <1>4 DEF RowsInOrder
<1>11. OnePlanner' /\ OwnersFit'
  BY <1>2, <1>5, <1>6, <1>7 DEF DeliveriesInv, OnePlanner, OwnersFit
<1>12. RanksFit'
  BY <1>2, <1>5, <1>6, <1>9 DEF DeliveriesInv, RanksFit, Ranked
<1>13. PlansFit'
  BY <1>2 DEF DeliveriesInv, PlansFit, PlanningIdle
<1>14. NoOverlap'
  <2>1. \A e \in Rows(Outstanding) : Items(c) \cap Items(content[e]) = {}
    BY <1>2, <1>3 DEF Covered
  <2>2. \A e \in Rows(Outstanding) : e # new /\ content'[e] = content[e]
    BY <1>4, <1>6 DEF Rows, Outstanding
  <2>3. QED
    BY <2>1, <2>2, <1>7, <1>9 DEF DeliveriesInv, NoOverlap
<1>15. OneSuccessor'
  <2> SUFFICES ASSUME NEW e \in Deliveries, NEW x \in Deliveries, parent'[e] = x, x # 0
               PROVE  /\ status'[x] = "permanent_failure"
                      /\ \A f \in Deliveries :
                            parent'[f] = x /\ f # e => "cancelled" \in {status'[e], status'[f]}
    BY DEF OneSuccessor
  <2>1. CASE e = new
    BY <2>1, <1>2, <1>4, <1>6, <1>7
  <2>2. CASE e # new
    <3>1. parent[e] = x /\ status[x] = "permanent_failure" /\ x # new
      BY <2>2, <1>4, <1>6 DEF DeliveriesInv, OneSuccessor
    <3>2. QED
      BY <3>1, <2>2, <1>2, <1>6, <1>7 DEF DeliveriesInv, OneSuccessor
  <2>3. QED
    BY <2>1, <2>2
<1>16. Anchored'
  <2> SUFFICES ASSUME NEW e \in Kept', parent'[e] = 0, NEW n \in Items(content'[e])
               PROVE  Follows(anchor[e][n], content[e][n], n, Before(e))'
    BY <1>2 DEF Anchored
  <2>1. e \in Kept /\ e \in Deliveries \ {new}
    BY <1>4, <1>7, <1>9 DEF Kept, Rows
  <2>2. Follows(anchor[e][n], content[e][n], n, Before(e))
    BY <2>1, <1>6 DEF DeliveriesInv, Anchored
  <2>3. Before(e)' = Before(e) /\ \A f \in Before(e) : content'[f] = content[f]
    BY <2>1, <1>2, <1>6, <1>9 DEF Before, Rows
  <2>4. QED
    BY <2>1, <2>2, <2>3, <1>2, <1>6 DEF Follows, About
<1>17. EpisodesFit'
  <2>1. \A n \in Items(c) : c[n].episode <= known[n].episode
    <3> SUFFICES ASSUME NEW n \in items PROVE c[n].episode <= known[n].episode
      BY <1>3
    <3>1. n \in Notifications /\ n \in Items(current) /\ c[n] = current[n]
      BY <1>1 DEF Items
    <3>2. current[n].episode = known[n].episode /\ known[n].episode \in Nat
      BY <3>1, <1>0, Reported DEF TypeOK, KnownRows
    <3>3. QED
      BY <3>1, <3>2
  <2>2. UNCHANGED <<known, pc, plan>>
    BY <1>2
  <2>3. QED
    BY <2>1, <2>2, <1>2, <1>6, <1>7 DEF EpisodesFit, PlanningIdle
<1>18. QED
  BY <1>8, <1>10, <1>11, <1>12, <1>13, <1>14, <1>15, <1>16, <1>17 DEF DeliveriesInv

\* What a plan writes, given the rows its batches go to.
LEMMA PlanStep ==
    ASSUME MailsInv, NEW w \in Workers, pc[w] = "planned",
           NEW ins \in SUBSET Deliveries, NEW bat \in [ins -> plan[w].batches],
           \A d, e \in ins : bat[d] = bat[e] => d = e,
           \A d \in ins : status[d] = "absent",
           \E k \in Nat : \A d \in Deliveries : status[d] = "absent" /\ d \notin ins <=> d > k,
           status' = [d \in Deliveries |-> IF d \in ins THEN "queued"
                                           ELSE IF d \in plan[w].stale THEN "cancelled"
                                           ELSE status[d]],
           content' = [d \in Deliveries |-> IF d \in ins THEN bat[d].content ELSE content[d]],
           anchor' = [d \in Deliveries |-> IF d \in ins THEN bat[d].anchor ELSE anchor[d]],
           plan' = [plan EXCEPT ![w] = NoPlan], Goto(w, "claiming"),
           UNCHANGED <<worker, rank, parent>>
    PROVE  DeliveriesInv'
<1> USE DEF MailsInv
<1>1. StaleFits(w) /\ BatchesFit(w)
  BY DEF DeliveriesInv, PlansFit
<1>2. plan[w].stale \subseteq Deliveries /\ plan[w].batches \subseteq Batch
  BY DEF PlansTyped, Plans
<1>3. PICK st : st = plan[w].stale
  OBVIOUS
<1>4. /\ \A d \in ins : status'[d] = "queued"
      /\ \A d \in st : status'[d] = "cancelled" /\ status[d] # "absent"
      /\ \A d \in Deliveries : d \notin ins /\ d \notin st => status'[d] = status[d]
      /\ st \cap ins = {}
  BY <1>1, <1>2, <1>3 DEF StaleFits
<1>5. \A d \in ins : parent[d] = 0 /\ d \notin Ranked /\ worker[d] = Nobody
  BY DEF DeliveriesInv, OwnersFit, RanksFit
<1>6. /\ Rows({"sent"})' = Rows({"sent"}) \ st
      /\ Rows(Outstanding)' = (Rows(Outstanding) \ st) \cup ins
      /\ Kept' = (Kept \ st) \cup ins
      /\ Ranked' = Ranked
  BY <1>2, <1>3, <1>4 DEF Rows, Kept, Outstanding, Ranked
<1>7. \A d \in Rows({"sent"}) \cup Rows(Outstanding) \cup Kept : d \in Deliveries \ ins /\ content'[d] = content[d]
  BY DEF Rows, Kept, Outstanding
<1>8. \A d \in ins : content'[d] = bat[d].content /\ anchor'[d] = bat[d].anchor /\ bat[d] \in plan[w].batches
  OBVIOUS
<1>9. RowsInOrder'
  <2>1. \A d \in Deliveries : status'[d] = "absent" <=> status[d] = "absent" /\ d \notin ins
    BY <1>4
  <2>2. QED
    BY <2>1 DEF RowsInOrder
<1>10. \A v \in Workers \ {w} : pc[v] # "planned" /\ pc'[v] = pc[v] /\ plan'[v] = plan[v]
  BY DEF DeliveriesInv, OnePlanner, Goto, TypeOK, PlansTyped
<1>11. pc'[w] = "claiming" /\ plan'[w] = NoPlan
  BY DEF Goto, TypeOK, PlansTyped
<1>12. OnePlanner' /\ PlansFit'
  BY <1>10, <1>11 DEF DeliveriesInv, OnePlanner, PlansFit
<1>13. RanksFit'
  <2>1. \A d \in Ranked : status'[d] \in {"sent", "cancelled"}
    BY <1>4, <1>5 DEF DeliveriesInv, RanksFit, Ranked
  <2>2. QED
    BY <2>1, <1>6 DEF DeliveriesInv, RanksFit
<1>14. OwnersFit'
  BY <1>4, <1>5 DEF DeliveriesInv, OwnersFit
<1>15. NoOverlap'
  <2> SUFFICES ASSUME NEW d \in Rows(Outstanding)', NEW e \in Rows(Outstanding)', d # e
               PROVE  Items(content'[d]) \cap Items(content'[e]) = {}
    BY DEF NoOverlap
  <2>1. \A x \in ins, y \in Rows(Outstanding) \ st :
            Items(bat[x].content) \cap Items(content[y]) = {}
    BY <1>1, <1>3, <1>8 DEF BatchesFit
  <2>2. \A x, y \in ins : x # y => Items(bat[x].content) \cap Items(bat[y].content) = {}
    BY <1>1, <1>8 DEF BatchesFit
  <2>3. CASE d \in ins /\ e \in ins
    BY <2>2, <2>3, <1>8
  <2>4. CASE d \in ins /\ e \notin ins
    BY <2>1, <2>4, <1>6, <1>7, <1>8
  <2>5. CASE d \notin ins /\ e \in ins
    BY <2>1, <2>5, <1>6, <1>7, <1>8
  <2>6. CASE d \notin ins /\ e \notin ins
    BY <2>6, <1>6, <1>7 DEF DeliveriesInv, NoOverlap
  <2>7. QED
    BY <2>3, <2>4, <2>5, <2>6
<1>16. OneSuccessor'
  <2> SUFFICES ASSUME NEW d \in Deliveries, NEW e \in Deliveries, parent[e] = d, d # 0
               PROVE  /\ status'[d] = "permanent_failure"
                      /\ \A f \in Deliveries :
                            parent[f] = d /\ f # e => "cancelled" \in {status'[e], status'[f]}
    BY DEF OneSuccessor
  <2>1. status[d] = "permanent_failure" /\ d \notin ins /\ d \notin st
    BY <1>1, <1>3 DEF DeliveriesInv, OneSuccessor, StaleFits
  <2>2. \A f \in Deliveries : status[f] = "cancelled" => status'[f] = "cancelled"
    BY <1>4
  <2>3. QED
    BY <2>1, <2>2, <1>4 DEF DeliveriesInv, OneSuccessor
<1>17. Anchored'
  <2> SUFFICES ASSUME NEW e \in Kept', parent[e] = 0, NEW n \in Items(content'[e])
               PROVE  Follows(anchor[e][n], content[e][n], n, Before(e))'
    BY DEF Anchored
  <2>1. CASE e \in ins
    <3>1. PICK b \in plan[w].batches : b = bat[e]
      BY <2>1, <1>8
    <3>2. Follows(b.anchor[n], b.content[n], n, Rows({"sent"}) \ st)
      BY <3>1, <2>1, <1>1, <1>3, <1>8 DEF BatchesFit
    <3>3. Before(e)' = Rows({"sent"}) \ st
      BY <2>1, <1>4, <1>6 DEF Before
    <3>4. \A f \in Rows({"sent"}) \ st : content'[f] = content[f]
      BY <1>7
    <3>5. anchor'[e] = b.anchor /\ content'[e] = b.content
      BY <2>1, <3>1, <1>8
    <3>6. QED
      BY <3>2, <3>3, <3>4, <3>5 DEF Follows, About
  <2>2. CASE e \notin ins
    <3>1. e \in Kept \ st /\ e \in Deliveries
      BY <2>2, <1>6 DEF Kept, Rows
    <3>2. content'[e] = content[e] /\ anchor'[e] = anchor[e] /\ status'[e] = status[e]
      BY <2>2, <3>1, <1>4
    <3>3. Follows(anchor[e][n], content[e][n], n, Before(e)) /\ n \in Notifications
      BY <3>1, <3>2 DEF DeliveriesInv, Anchored, Items
    <3>4. anchor[e][n] \notin st
      BY <3>1, <3>2, <3>3, <1>1, <1>3 DEF StaleFits
    <3>5. Before(e)' = Before(e) \ st
      BY <3>2, <1>6 DEF Before
    <3>6. \A f \in Before(e) : content'[f] = content[f]
      BY <1>7 DEF Before
    <3>7. QED
      BY <3>2, <3>3, <3>4, <3>5, <3>6 DEF Follows, About
  <2>3. QED
    BY <2>1, <2>2
<1>18. QED
  BY <1>9, <1>12, <1>13, <1>14, <1>15, <1>16, <1>17 DEF DeliveriesInv

\* The batches of a plan go to the rows after those in use, one to each.
LEMMA BatchRows ==
    ASSUME NEW new, NEW stage \in [new -> 1..MaxStage],
           \A b, c \in new : stage[b] = stage[c] => b = c,
           NEW below \in [new -> SUBSET new],
           \A b, c \in new : c \in below[b] <=> stage[c] <= stage[b],
           NEW at, at = [b \in new |-> Cardinality(below[b])]
    PROVE  \E k \in Nat : /\ \A b \in new : at[b] \in 1..k
                          /\ \A i \in 1..k : \E b \in new : at[b] = i
<1> DEFINE k == Cardinality(new)
<1>1. IsFiniteSet(1..MaxStage)
  BY BoundsAssumption, FS_Interval
<1>2. stage \in Injection(new, 1..MaxStage)
  BY DEF Injection, IsInjective
<1>3. IsFiniteSet(new)
  BY <1>1, <1>2, FS_Injection
<1>4. k \in Nat
  BY <1>3, FS_CardinalityType
<1>5. \A b \in new : IsFiniteSet(below[b]) /\ Cardinality(below[b]) \in Nat /\ Cardinality(below[b]) <= k
  <2> TAKE b \in new
  <2>1. below[b] \in SUBSET new
    OBVIOUS
  <2>2. QED
    BY <2>1, <1>3, FS_Subset, FS_CardinalityType
<1>6. \A b \in new : Cardinality(below[b]) # 0
  <2> TAKE b \in new
  <2>1. b \in below[b]
    BY BoundsAssumption
  <2>2. QED
    BY <2>1, <1>5, FS_EmptySet
<1>7. at \in [new -> 1..k]
  <2> HIDE DEF k
  <2>1. QED
    BY <1>4, <1>5, <1>6
<1>8. \A b, c \in new : stage[b] < stage[c] => at[b] # at[c]
  <2> SUFFICES ASSUME NEW b \in new, NEW c \in new, stage[b] < stage[c], at[b] = at[c] PROVE FALSE
    OBVIOUS
  <2>1. below[b] \in SUBSET below[c] /\ c \in below[c] /\ c \notin below[b]
    BY BoundsAssumption
  <2>2. below[b] = below[c]
    BY <2>1, <1>5, FS_Subset
  <2>3. QED
    BY <2>1, <2>2
<1>9. \A b, c \in new : at[b] = at[c] => b = c
  <2>1. QED
    BY <1>8, BoundsAssumption
<1> HIDE DEF k
<1>10. at \in Injection(new, 1..k)
  <2>1. QED
    BY <1>7, <1>9 DEF Injection, IsInjective
<1>11. IsFiniteSet(1..k) /\ Cardinality(1..k) = k
  BY <1>4, FS_Interval
<1>12. at \in Surjection(new, 1..k)
  <2>1. QED
    BY <1>10, <1>11, FS_Injection DEF k
<1>13. \A i \in 1..k : \E b \in new : at[b] = i
  <2>1. QED
    BY <1>12 DEF Surjection
<1>14. QED
  BY <1>4, <1>7, <1>13

LEMMA PlanWrites ==
    ASSUME MailsInv, NEW w \in Workers, Plan(w)
    PROVE  \E ins \in SUBSET Deliveries : \E bat \in [ins -> plan[w].batches] :
              /\ \A d, e \in ins : bat[d] = bat[e] => d = e
              /\ \A d \in ins : status[d] = "absent"
              /\ \E k \in Nat : \A d \in Deliveries : status[d] = "absent" /\ d \notin ins <=> d > k
              /\ status' = [d \in Deliveries |-> IF d \in ins THEN "queued"
                                                 ELSE IF d \in plan[w].stale THEN "cancelled"
                                                 ELSE status[d]]
              /\ content' = [d \in Deliveries |-> IF d \in ins THEN bat[d].content ELSE content[d]]
              /\ anchor' = [d \in Deliveries |-> IF d \in ins THEN bat[d].anchor ELSE anchor[d]]
<1> USE DEF MailsInv
<1> DEFINE cancel == [d \in Deliveries |-> IF d \in plan[w].stale THEN "cancelled" ELSE status[d]]
           fresh == {b \in plan[w].batches : ~Conflicts(b, cancel)}
           stage(b) == CHOOSE s \in 1..MaxStage : \E n \in Notifications : b.content[n].stage = s
           before(b) == Cardinality({c \in fresh : stage(c) <= stage(b)})
           count == Cardinality({d \in Deliveries : status[d] # "absent"})
           row(b) == count + before(b)
           batch(d) == CHOOSE b \in fresh : row(b) = d
           inserted(d) == \E b \in fresh : row(b) = d
           rows == {d \in Deliveries : inserted(d)}
<1>1. /\ pc[w] = "planned"
      /\ status' = [d \in Deliveries |-> IF inserted(d) THEN "queued" ELSE cancel[d]]
      /\ content' = [d \in Deliveries |-> IF inserted(d) THEN batch(d).content ELSE content[d]]
      /\ anchor' = [d \in Deliveries |-> IF inserted(d) THEN batch(d).anchor ELSE anchor[d]]
      /\ known' = plan[w].known
      /\ plan' = [plan EXCEPT ![w] = NoPlan]
      /\ Goto(w, "claiming")
      /\ UNCHANGED <<worker, lease, attempts, wait, today, rank, parent, world, job, seen>>
  BY DEF Plan
<1>2. BatchesFit(w) /\ plan[w].batches \subseteq Batch
  BY <1>1 DEF DeliveriesInv, PlansFit, PlansTyped, Plans
<1>3. \A b \in fresh : stage(b) \in 1..MaxStage /\ Uniform(b, stage(b))
  <2> SUFFICES ASSUME NEW b \in plan[w].batches
               PROVE  stage(b) \in 1..MaxStage /\ Uniform(b, stage(b))
    OBVIOUS
  <2>1. PICK s \in 1..MaxStage : Uniform(b, s)
    BY <1>2 DEF BatchesFit
  <2>2. PICK n \in Items(b.content) : b.content[n].stage = s
    BY <2>1 DEF Uniform
  <2>3. \A t \in 1..MaxStage : (\E m \in Notifications : b.content[m].stage = t) => t = s
    BY <2>1 DEF Uniform, Items
  <2>4. n \in Notifications
    BY DEF Items
  <2>5. stage(b) = s
    BY <2>2, <2>3, <2>4
  <2> HIDE DEF stage
  <2>6. QED
    BY <2>1, <2>5
<1>4. \A b, c \in fresh : stage(b) = stage(c) => b = c
  <2> HIDE DEF stage
  <2>1. QED
    BY <1>2, <1>3 DEF BatchesFit
<1>5. PICK new, st, ps, below, at :
          /\ new = fresh /\ ps = [b \in new |-> stage(b)]
          /\ below = [b \in new |-> {c \in new : ps[c] <= ps[b]}]
          /\ st = plan[w].stale /\ at = [b \in new |-> before(b)]
  OBVIOUS
<1>6. /\ ps \in [new -> 1..MaxStage] /\ \A b, c \in new : ps[b] = ps[c] => b = c
      /\ below \in [new -> SUBSET new] /\ \A b, c \in new : c \in below[b] <=> ps[c] <= ps[b]
      /\ at = [b \in new |-> Cardinality(below[b])]
  <2>1. \A b \in new : {c \in new : ps[c] <= ps[b]} = {c \in fresh : stage(c) <= stage(b)}
    <3> HIDE DEF stage, fresh
    <3>1. QED
      BY <1>5
  <2>2. ps \in [new -> 1..MaxStage] /\ \A b, c \in new : ps[b] = ps[c] => b = c
    <3> HIDE DEF stage, fresh
    <3>1. QED
      BY <1>3, <1>4, <1>5
  <2>3. at = [b \in new |-> Cardinality({c \in fresh : stage(c) <= stage(b)})]
    <3> HIDE DEF stage, fresh
    <3>1. QED
      BY <1>5
  <2>4. \A b \in new : below[b] = {c \in new : ps[c] <= ps[b]}
    BY <1>5
  <2>5. below \in [new -> SUBSET new] /\ \A b, c \in new : c \in below[b] <=> ps[c] <= ps[b]
    BY <1>5
  <2> HIDE DEF stage, fresh
  <2>6. QED
    BY <2>1, <2>2, <2>3, <2>4, <2>5
<1>7. PICK k \in Nat : (\A b \in new : at[b] \in 1..k) /\ (\A i \in 1..k : \E b \in new : at[b] = i)
  BY <1>6, BatchRows
<1>8. PICK used : used = count
  OBVIOUS
<1>9. used \in 0..MaxDeliveries /\ \A d \in Deliveries : status[d] = "absent" <=> d > used
  BY <1>8, UsedRows DEF DeliveriesInv
<1>10. \A d \in Deliveries : inserted(d) <=> \E b \in new : used + at[b] = d
  <2> HIDE DEF fresh, before, count
  <2>1. QED
    BY <1>5, <1>8
<1>11. \A d \in Deliveries : batch(d) = CHOOSE b \in new : used + at[b] = d
  <2> HIDE DEF before, count
  <2>1. \A b \in fresh : row(b) = used + at[b]
    BY <1>5, <1>8
  <2> HIDE DEF fresh, row
  <2>2. new = fresh
    BY <1>5
  <2>3. QED
    BY <2>1, <2>2
<1>12. PICK ins, bat : /\ ins = {d \in Deliveries : \E b \in new : used + at[b] = d}
                       /\ bat = [d \in ins |-> CHOOSE b \in new : used + at[b] = d]
  OBVIOUS
<1>13. \A d \in ins : bat[d] \in new /\ used + at[bat[d]] = d
  BY <1>12
<1>14. ins \in SUBSET Deliveries /\ bat \in [ins -> plan[w].batches]
  BY <1>5, <1>12, <1>13
<1>15. \A d, e \in ins : bat[d] = bat[e] => d = e
  BY <1>13
<1>16. \A d \in ins : status[d] = "absent"
  <2> TAKE d \in ins
  <2>1. at[bat[d]] \in 1..k /\ used + at[bat[d]] = d
    BY <1>7, <1>13
  <2>2. d > used
    BY <2>1, <1>9
  <2>3. QED
    BY <2>2, <1>9, <1>14
<1>17. \A d \in Deliveries : status[d] = "absent" /\ d \notin ins <=> d > used + k
  <2> SUFFICES ASSUME NEW d \in Deliveries PROVE status[d] = "absent" /\ d \notin ins <=> d > used + k
    OBVIOUS
  <2>1. d \in Nat /\ used \in Nat
    BY <1>9, BoundsAssumption DEF Deliveries
  <2>2. d \in ins => d <= used + k
    BY <1>7, <1>9, <1>13
  <2>3. d > used /\ d <= used + k => d \in ins
    <3> SUFFICES ASSUME d > used, d <= used + k PROVE d \in ins
      OBVIOUS
    <3>1. d - used \in 1..k
      BY <2>1
    <3>2. PICK b \in new : at[b] = d - used
      BY <3>1, <1>7
    <3>3. used + at[b] = d
      BY <3>2, <2>1
    <3>4. QED
      BY <3>3, <1>12
  <2>4. QED
    BY <2>1, <2>2, <2>3, <1>9, <1>7
<1>18. used + k \in Nat
  BY <1>7, <1>9
<1> HIDE DEF inserted, batch, cancel
<1>19. \A d \in Deliveries : /\ inserted(d) <=> d \in ins
                             /\ d \in ins => batch(d) = bat[d]
  BY <1>10, <1>11, <1>12
<1>20. \A d \in Deliveries : cancel[d] = IF d \in plan[w].stale THEN "cancelled" ELSE status[d]
  BY DEF cancel
<1>21. /\ status' = [d \in Deliveries |-> IF d \in ins THEN "queued"
                                          ELSE IF d \in plan[w].stale THEN "cancelled"
                                          ELSE status[d]]
       /\ content' = [d \in Deliveries |-> IF d \in ins THEN bat[d].content ELSE content[d]]
       /\ anchor' = [d \in Deliveries |-> IF d \in ins THEN bat[d].anchor ELSE anchor[d]]
  BY <1>1, <1>19, <1>20
<1>22. \E i \in Nat : \A d \in Deliveries : status[d] = "absent" /\ d \notin ins <=> d > i
  BY <1>17, <1>18
<1>23. QED
  BY <1>14, <1>15, <1>16, <1>21, <1>22

LEMMA PlanInv ==
    ASSUME MailsInv, EpisodesFit, NEW w \in Workers, Plan(w)
    PROVE  MailsInv' /\ EpisodesFit'
<1> USE DEF MailsInv
<1>1. /\ pc[w] = "planned"
      /\ known' = plan[w].known
      /\ plan' = [plan EXCEPT ![w] = NoPlan]
      /\ Goto(w, "claiming")
      /\ UNCHANGED <<worker, lease, attempts, wait, today, rank, parent, world, job, seen>>
  BY DEF Plan
<1>2. plan[w].batches \subseteq Batch
  BY DEF PlansTyped, Plans
<1>3. PICK ins \in SUBSET Deliveries : \E bat \in [ins -> plan[w].batches] :
              /\ \A d, e \in ins : bat[d] = bat[e] => d = e
              /\ \A d \in ins : status[d] = "absent"
              /\ \E k \in Nat : \A d \in Deliveries : status[d] = "absent" /\ d \notin ins <=> d > k
              /\ status' = [d \in Deliveries |-> IF d \in ins THEN "queued"
                                                 ELSE IF d \in plan[w].stale THEN "cancelled"
                                                 ELSE status[d]]
              /\ content' = [d \in Deliveries |-> IF d \in ins THEN bat[d].content ELSE content[d]]
              /\ anchor' = [d \in Deliveries |-> IF d \in ins THEN bat[d].anchor ELSE anchor[d]]
  BY PlanWrites
<1>4. PICK bat \in [ins -> plan[w].batches] :
              /\ \A d, e \in ins : bat[d] = bat[e] => d = e
              /\ \A d \in ins : status[d] = "absent"
              /\ \E k \in Nat : \A d \in Deliveries : status[d] = "absent" /\ d \notin ins <=> d > k
              /\ status' = [d \in Deliveries |-> IF d \in ins THEN "queued"
                                                 ELSE IF d \in plan[w].stale THEN "cancelled"
                                                 ELSE status[d]]
              /\ content' = [d \in Deliveries |-> IF d \in ins THEN bat[d].content ELSE content[d]]
              /\ anchor' = [d \in Deliveries |-> IF d \in ins THEN bat[d].anchor ELSE anchor[d]]
  BY <1>3
<1>5. DeliveriesInv'
  BY <1>1, <1>4, PlanStep
<1>6. TypeOK'
  <2>1. \A d \in ins : bat[d].content \in Contents /\ bat[d].anchor \in [Notifications -> Deliveries \cup {0}]
    BY <1>2, <1>4 DEF Batch
  <2>2. content' \in [Deliveries -> Contents]
    BY <2>1, <1>4 DEF TypeOK
  <2>3. anchor' \in [Deliveries -> [Notifications -> Deliveries \cup {0}]]
    BY <2>1, <1>4 DEF TypeOK
  <2>4. status' \in [Deliveries -> {"absent"} \cup Outstanding \cup Terminal]
    BY <1>4 DEF TypeOK, Outstanding, Terminal
  <2>6. known' \in [Notifications -> KnownRows]
    BY <1>1 DEF PlansTyped, Plans
  <2>7. pc' \in [Workers -> Places]
    BY <1>1 DEF TypeOK, Goto, Places
  <2>8. QED
    BY <2>2, <2>3, <2>4, <2>6, <2>7, <1>1 DEF TypeOK
<1>7. PlansTyped'
  <2>1. NoPlan \in Plans
    BY StartTypes
  <2>2. QED
    BY <2>1, <1>1 DEF PlansTyped
<1>8. EpisodesFit'
  <2>1. PlanEpisodes(w) /\ \A n \in Notifications : known[n].episode \in Nat /\ known'[n].episode \in Nat
    BY <1>1 DEF EpisodesFit, TypeOK, PlansTyped, Plans, KnownRows
  <2>2. \A n \in Notifications : known[n].episode <= known'[n].episode
    BY <2>1, <1>1 DEF PlanEpisodes
  <2>3. \A d \in Deliveries : \A n \in Items(content'[d]) : content'[d][n].episode <= known'[n].episode
    <3> SUFFICES ASSUME NEW d \in Deliveries, NEW n \in Items(content'[d])
                 PROVE  content'[d][n].episode <= known'[n].episode
      OBVIOUS
    <3>1. n \in Notifications
      BY DEF Items
    <3>2. CASE d \in ins
      <4>1. bat[d] \in plan[w].batches /\ content'[d] = bat[d].content
        BY <3>2, <1>4
      <4>2. QED
        BY <4>1, <2>1, <1>1 DEF PlanEpisodes
    <3>3. CASE d \notin ins
      <4>1. content'[d] = content[d] /\ content[d] \in Contents
        BY <3>3, <1>4 DEF TypeOK
      <4>2. content[d][n].episode <= known[n].episode /\ content[d][n].episode \in Nat
        BY <4>1, <3>1 DEF EpisodesFit, Contents, Versions
      <4>3. QED
        BY <4>1, <4>2, <3>1, <2>1, <2>2
    <3>4. QED
      BY <3>2, <3>3
  <2>4. \A v \in Workers : pc'[v] # "planned"
    BY <1>1 DEF DeliveriesInv, OnePlanner, Goto, TypeOK
  <2>5. QED
    BY <2>3, <2>4 DEF EpisodesFit
<1>9. QED
  BY <1>5, <1>6, <1>7, <1>8

----------------------------------------------------------------------------
(* The theorems.                                                           *)

\* Steps that write no content, row or plan leave the episodes as they are.
LEMMA SameEpisodes ==
    ASSUME MailsInv, EpisodesFit, CalmPlans, UNCHANGED <<content, known>>
    PROVE  EpisodesFit'
<1>1. \A w \in Workers : pc'[w] = "planned" => pc[w] = "planned" /\ plan'[w] = plan[w]
  BY DEF CalmPlans
<1>2. QED
  BY <1>1 DEF EpisodesFit, PlanEpisodes

LEMMA MailsInvStep == MailsInv /\ EpisodesFit /\ [Next]_vars => MailsInv' /\ EpisodesFit'
<1> SUFFICES ASSUME MailsInv, EpisodesFit, [Next]_vars PROVE MailsInv' /\ EpisodesFit'
  OBVIOUS
<1>0. ASSUME CalmPlans, UNCHANGED <<content, known>> PROVE EpisodesFit'
  BY <1>0, SameEpisodes
<1>1. ASSUME NEW w \in Workers,
             \/ Collect(w) \/ Recheck(w) \/ Revalidate(w) \/ StartSending(w) \/ Heartbeat(w) \/ Smtp(w)
             \/ Break(w) \/ Crash(w) \/ Claim(w) \/ DropObsolete(w) \/ Finish(w)
      PROVE  MailsInv' /\ EpisodesFit'
  <2>1. MailsInv'
    BY <1>1, WaitingInv, ClaimInv, DropObsoleteInv, FinishInv
  <2>2. CalmPlans
    <3>1. pc \in [Workers -> Places] /\ plan \in [Workers -> Plans]
      BY DEF MailsInv, TypeOK, PlansTyped
    <3>2. \/ pc[w] # "planned" /\ pc'[w] # "planned"
          \/ Crash(w)
      BY <1>1, <3>1
      DEF Collect, Recheck, Revalidate, StartSending, Heartbeat, Smtp, Break, Claim, DropObsolete, Finish,
          Goto, workerVars
    <3>3. pc' = pc \/ \E to \in Places : pc' = [pc EXCEPT ![w] = to]
      BY <1>1
      DEF Collect, Recheck, Revalidate, StartSending, Heartbeat, Smtp, Break, Crash, Claim, DropObsolete,
          Finish, Goto, workerVars, Places
    <3>4. CASE Crash(w)
      BY <3>1, <3>4 DEF Crash, Goto, CalmPlans
    <3>5. CASE ~ Crash(w)
      <4>1. plan' = plan
        BY <1>1, <3>5
        DEF Collect, Recheck, Revalidate, StartSending, Heartbeat, Smtp, Break, Claim, DropObsolete, Finish,
            workerVars
      <4>2. QED
        BY <4>1, <3>1, <3>2, <3>3, <3>5 DEF CalmPlans
    <3>6. QED
      BY <3>4, <3>5
  <2>3. UNCHANGED <<content, known>>
    BY <1>1
    DEF Collect, Recheck, Revalidate, StartSending, Heartbeat, Smtp, Break, Crash, Claim, DropObsolete,
        Finish, intentVars
  <2>4. QED
    BY <2>1, <2>2, <2>3, <1>0
<1>2. ASSUME NEW w \in Workers, ReadHistory(w) PROVE MailsInv' /\ EpisodesFit'
  BY <1>2, ReadHistoryInv
<1>3. ASSUME NEW w \in Workers, Plan(w) PROVE MailsInv' /\ EpisodesFit'
  BY <1>3, PlanInv
<1>4. ASSUME NEW d \in Deliveries, Retry(d) PROVE MailsInv' /\ EpisodesFit'
  BY <1>4, RetryInv
<1>5. ASSUME \/ Tick \/ NewDay
             \/ \E d \in Deliveries : RetryDue(d)
             \/ \E n \in Notifications, e \in Evidences : WorldChanges(n, e)
      PROVE  MailsInv' /\ EpisodesFit'
  <2>1. UNCHANGED <<content, known, pc, plan>>
    BY <1>5 DEF Tick, NewDay, RetryDue, WorldChanges, intentVars, workerVars
  <2>2. QED
    BY <1>5, <2>1, <1>0, EnvironmentInv DEF CalmPlans
<1>6. CASE UNCHANGED vars
  <2>1. TypeOK' /\ PlansTyped' /\ CalmPlans
    BY <1>6 DEF vars, rowVars, intentVars, workerVars, MailsInv, TypeOK, PlansTyped, CalmPlans
  <2>2. MailsInv'
    BY <2>1, <1>6, SameRows DEF vars, rowVars
  <2>3. QED
    BY <2>1, <2>2, <1>6, <1>0 DEF vars, intentVars
<1>7. QED
  BY <1>1, <1>2, <1>3, <1>4, <1>5, <1>6 DEF Next, Work

LEMMA MailsInvariant == Spec => [](MailsInv /\ EpisodesFit)
<1>1. QED
  BY MailsInvInit, MailsInvStep, PTL DEF Spec

\* Every variable has its type, and attempt_count keeps its check constraint.
THEOREM MailsTypeCorrect == Spec => []TypeOK
<1>1. MailsInv => TypeOK
  BY DEF MailsInv
<1>2. QED
  BY <1>1, MailsInvariant, PTL

\* No notification is in two outstanding deliveries, and a failed one is
\* replaced once: planners read the history without row locks, and retries,
\* workers that lost their lease and crashed passes all write to it meanwhile
\* (synchronize, enqueue_retry).
THEOREM DeliveredOnce == Spec => []OneDelivery
<1>1. MailsInv => OneDelivery
  BY DEF MailsInv, DeliveriesInv, OneDelivery
<1>2. QED
  BY <1>1, MailsInvariant, PTL

\* A planned mail is sent after one of an earlier stage of its episode, or of an
\* earlier episode, the last one sent about the notification (batches(),
\* synchronize()).
THEOREM MailsCorrect == Spec => []MailsEscalate
<1>1. MailsInv => MailsEscalate
  <2> SUFFICES ASSUME MailsInv, NEW d \in Rows({"sent"}), NEW e \in Rows({"sent"}),
                      NEW n \in Items(content[d]) \cap Items(content[e]),
                      parent[e] = 0, rank[d] < rank[e],
                      \A f \in Rows({"sent"}) :
                          n \in Items(content[f]) => rank[f] <= rank[d] \/ rank[e] <= rank[f]
               PROVE  Later(content[e][n], content[d][n])
    BY DEF MailsEscalate
  <2> USE DEF MailsInv, DeliveriesInv
  <2>1. e \in Kept /\ status[e] = "sent" /\ e \in Deliveries /\ d \in Deliveries
    BY DEF Kept, Rows
  <2>2. Follows(anchor[e][n], content[e][n], n, Before(e))
    BY <2>1 DEF Anchored
  <2>3. d \in About(n, Before(e))
    BY DEF About, Before
  <2>4. PICK a : a = anchor[e][n]
    OBVIOUS
  <2>5. /\ a \in About(n, Before(e)) /\ Later(content[e][n], content[a][n]) /\ rank[d] <= rank[a]
    BY <2>2, <2>3, <2>4 DEF Follows
  <2>6. a \in Rows({"sent"}) /\ n \in Items(content[a]) /\ rank[a] < rank[e]
    BY <2>1, <2>5 DEF About, Before
  <2>7. rank[a] = rank[d]
    <3>1. rank[a] \in Nat /\ rank[d] \in Nat /\ rank[e] \in Nat
      BY <2>1, <2>6 DEF TypeOK, Rows
    <3>2. rank[a] <= rank[d]
      BY <3>1, <2>6
    <3>3. QED
      BY <3>1, <3>2, <2>5
  <2>8. a = d
    BY <2>6, <2>7 DEF RanksFit
  <2>9. QED
    BY <2>5, <2>8
<1>2. QED
  BY <1>1, MailsInvariant, PTL

\* A delivery that ended is never queued, failed or being sent again, though a
\* worker that lost its lease may still be about to record its outcome
\* (finish, and the updates of deliver).
THEOREM EndedMailsStay == Spec => TerminalStays
<1>1. ASSUME MailsInv, [Next]_vars, NEW d \in Rows(Terminal)
      PROVE  status'[d] \in Terminal
  <2> USE <1>1 DEF MailsInv
  <2>1. d \in Deliveries /\ status[d] \in Terminal
    BY DEF Rows
  <2>2. ASSUME NEW w \in Workers, Plan(w) PROVE status'[d] \in Terminal
    <3>1. PICK ins \in SUBSET Deliveries :
              /\ \A e \in ins : status[e] = "absent"
              /\ status' = [e \in Deliveries |-> IF e \in ins THEN "queued"
                                                 ELSE IF e \in plan[w].stale THEN "cancelled"
                                                 ELSE status[e]]
      BY <2>2, PlanWrites
    <3>2. d \notin ins
      BY <2>1, <3>1 DEF Terminal
    <3>3. QED
      BY <2>1, <3>1, <3>2 DEF Terminal
  <2>3. ASSUME NEW w \in Workers, Claim(w) PROVE status'[d] \in Terminal
    <3>1. PICK passed \in SUBSET DueRows, f \in DueRows \cup {NoJob} :
              status' = [e \in Deliveries |-> IF e = f THEN "sending"
                                              ELSE IF e \in passed THEN Settled(e)
                                              ELSE status[e]]
      BY <2>3 DEF Claim
    <3>2. d \notin DueRows /\ d # NoJob
      BY <2>1 DEF DueRows, Terminal, NoJob, Deliveries
    <3>3. QED
      BY <2>1, <3>1, <3>2
  <2>4. ASSUME NEW w \in Workers, DropObsolete(w) PROVE status'[d] \in Terminal
    BY <2>1, <2>4 DEF DropObsolete, TypeOK, Terminal
  <2>5. ASSUME NEW w \in Workers, Finish(w) PROVE status'[d] \in Terminal
    <3>1. HoldsLease(w) => job[w] # d
      BY <2>1 DEF HoldsLease, Terminal
    <3>2. QED
      BY <2>1, <2>5, <3>1 DEF Finish, TypeOK
  <2>6. ASSUME NEW e \in Deliveries, Retry(e) PROVE status'[d] \in Terminal
    <3>1. PICK used : used = Cardinality({f \in Deliveries : status[f] # "absent"})
      OBVIOUS
    <3>2. used \in 0..MaxDeliveries /\ \A f \in Deliveries : status[f] = "absent" <=> f > used
      BY <3>1, UsedRows DEF DeliveriesInv
    <3>3. status' = [status EXCEPT ![used + 1] = "queued"]
      BY <2>6, <3>1 DEF Retry
    <3>4. d # used + 1
      BY <2>1, <3>2, BoundsAssumption DEF Deliveries, Terminal
    <3>5. QED
      BY <2>1, <3>3, <3>4 DEF TypeOK
  <2>7. CASE UNCHANGED status
    BY <2>1, <2>7
  <2>8. QED
    BY <2>2, <2>3, <2>4, <2>5, <2>6, <2>7, <1>1
    DEF Next, Work, Collect, ReadHistory, Recheck, Revalidate, StartSending, Heartbeat, Smtp, Break, Crash, Tick,
        NewDay, RetryDue, WorldChanges, vars, rowVars
<1>2. MailsInv /\ [Next]_vars => [\A d \in Rows(Terminal) : status'[d] \in Terminal]_vars
  BY <1>1
<1>3. QED
  BY <1>2, MailsInvariant, PTL DEF Spec, TerminalStays

----------------------------------------------------------------------------
(* The daily cap.                                                          *)

\* A worker that has claimed a row is the one it names until it lets go of it,
\* no other is at work, and a plan cancels no claimed row.
WithJob == {"claimed", "fresh", "valid", "obsolete", "sending", "accepted", "refused", "failing"}
JobsHeld ==
    \A w \in Workers :
        /\ pc[w] \in WithJob <=> job[w] # NoJob
        /\ job[w] # NoJob => status[job[w]] = "sending" /\ worker[job[w]] = w
AloneAtWork == \A v, w \in Workers : pc[v] # "idle" /\ pc[w] # "idle" => v = w
StaleStill ==
    \A w \in Workers : pc[w] = "planned" => plan[w].stale \subseteq Rows({"queued", "failed"})

\* The budget is never exceeded; while no lease ran out, what was mailed uses
\* it up, and of a row still to be mailed nothing was.
BudgetKept == Cardinality(Counted) <= Cap
LeasesHold == ~lost => \A d \in Rows({"sending"}) : lease[d] > 0
MailedFits ==
    ~lost /\ ~mistaken =>
        /\ mailed \subseteq Counted
        /\ \A w \in Workers : pc[w] \in WithJob \ {"accepted"} => job[w] \notin mailed

HistoryTyped == lost \in BOOLEAN /\ mistaken \in BOOLEAN
CapInv == /\ MailsInv /\ EpisodesFit /\ HistoryTyped
          /\ JobsHeld /\ AloneAtWork /\ StaleStill
          /\ BudgetKept /\ LeasesHold /\ MailedFits

LEMMA SomeDeliveries ==
    ASSUME NEW S \in SUBSET Deliveries
    PROVE  IsFiniteSet(S) /\ Cardinality(S) \in Nat
<1>1. IsFiniteSet(Deliveries)
  BY BoundsAssumption, FS_Interval DEF Deliveries
<1>2. QED
  BY <1>1, FS_Subset, FS_CardinalityType

LEMMA OthersIdle ==
    ASSUME TypeOK, JobsHeld, AloneAtWork, NEW w \in Workers, pc[w] # "idle"
    PROVE  /\ \A v \in Workers \ {w} : pc[v] = "idle" /\ job[v] = NoJob
           /\ pc[w] \in WithJob => /\ job[w] \in Deliveries /\ job[w] # NoJob
                                  /\ status[job[w]] = "sending" /\ worker[job[w]] = w
<1>1. \A v \in Workers \ {w} : pc[v] = "idle"
  BY DEF AloneAtWork
<1>2. "idle" \notin WithJob
  BY DEF WithJob
<1>3. QED
  BY <1>1, <1>2 DEF JobsHeld, TypeOK

LEMMA FewerDeliveries ==
    ASSUME NEW T \in SUBSET Deliveries, NEW S \in SUBSET T
    PROVE  Cardinality(S) <= Cardinality(T)
<1>1. IsFiniteSet(T)
  BY SomeDeliveries
<1>2. QED
  BY <1>1, FS_Subset

LEMMA CapInvInit == CapInit => CapInv
<1> SUFFICES ASSUME CapInit PROVE CapInv
  OBVIOUS
<1> USE DEF CapInit
<1>1. MailsInv /\ EpisodesFit
  BY MailsInvInit
<1>2. Counted = {} /\ Rows({"sending"}) = {}
  BY DEF Init, Counted, Rows
<1>3. BudgetKept
  BY <1>2, FS_EmptySet, BoundsAssumption DEF BudgetKept
<1>4. JobsHeld /\ AloneAtWork /\ StaleStill /\ HistoryTyped
  BY DEF Init, JobsHeld, AloneAtWork, StaleStill, HistoryTyped, WithJob, NoJob
<1>5. LeasesHold /\ MailedFits
  BY <1>2 DEF LeasesHold, MailedFits
<1>6. QED
  BY <1>1, <1>3, <1>4, <1>5 DEF CapInv

\* What is being sent and what was sent stay what they are.
SameMails ==
    \A d \in Deliveries :
        IF status[d] \in {"sending", "sent"}
        THEN /\ status'[d] = status[d] /\ worker'[d] = worker[d]
             /\ lease'[d] = lease[d] /\ today'[d] = today[d]
        ELSE status'[d] \notin {"sending", "sent"}

LEMMA SameMailsCap ==
    ASSUME CapInv, SameMails, job' = job, mailed' = mailed, lost' = lost,
           mistaken => mistaken',
           \A w \in Workers :
               /\ pc'[w] \in WithJob <=> pc[w] \in WithJob
               /\ pc[w] = "accepted" => pc'[w] = "accepted" \/ mistaken'
    PROVE  JobsHeld' /\ BudgetKept' /\ LeasesHold' /\ MailedFits'
<1> USE DEF CapInv, MailsInv
<1>1. \A w \in Workers : job[w] # NoJob => job[w] \in Deliveries
  BY DEF TypeOK
<1>2. JobsHeld'
  BY <1>1 DEF JobsHeld, SameMails
<1>3. Counted' = Counted
  BY DEF SameMails, Counted
<1>4. BudgetKept'
  BY <1>3 DEF BudgetKept
<1>5. LeasesHold'
  BY DEF SameMails, LeasesHold, Rows
<1>6. MailedFits'
  BY <1>3 DEF MailedFits, WithJob
<1>7. QED
  BY <1>2, <1>4, <1>5, <1>6

Quietly(w) == Collect(w) \/ ReadHistory(w) \/ Plan(w) \/ Recheck(w) \/ Revalidate(w) \/ Break(w)

LEMMA QuietlyCap ==
    ASSUME CapInv, NEW w \in Workers, Quietly(w), mailed' = mailed, lost' = lost,
           mistaken' = (mistaken \/ (Break(w) /\ pc[w] = "accepted"))
    PROVE  JobsHeld' /\ BudgetKept' /\ LeasesHold' /\ MailedFits'
<1> USE DEF CapInv, MailsInv
<1>1. job' = job
  BY DEF Quietly, Collect, ReadHistory, Plan, Recheck, Revalidate, Break
<1>2. SameMails
  <2>1. CASE Plan(w)
    <3>1. PICK ins \in SUBSET Deliveries :
              /\ \A d \in ins : status[d] = "absent"
              /\ status' = [d \in Deliveries |-> IF d \in ins THEN "queued"
                                                 ELSE IF d \in plan[w].stale THEN "cancelled"
                                                 ELSE status[d]]
      BY <2>1, PlanWrites
    <3>2. \A d \in plan[w].stale : status[d] \in {"queued", "failed"}
      BY <2>1 DEF Plan, StaleStill, Rows
    <3>3. UNCHANGED <<worker, lease, today>>
      BY <2>1 DEF Plan
    <3>4. QED
      BY <3>1, <3>2, <3>3 DEF SameMails
  <2>2. CASE ~ Plan(w)
    BY <2>2 DEF Quietly, SameMails, Collect, ReadHistory, Recheck, Revalidate, Break, rowVars
  <2>3. QED
    BY <2>1, <2>2
<1>3. pc \in [Workers -> Places]
  BY DEF TypeOK
<1>4. PICK to \in Places : /\ pc' = [pc EXCEPT ![w] = to]
                           /\ to \in WithJob <=> pc[w] \in WithJob
                           /\ pc[w] = "accepted" => Break(w)
  <2>1. CASE Break(w)
    BY <2>1 DEF Break, Goto, WithJob, Places
  <2>2. CASE ~ Break(w)
    BY <2>2 DEF Quietly, Collect, ReadHistory, Plan, Recheck, Revalidate, Goto, WithJob, Places
  <2>3. QED
    BY <2>1, <2>2
<1>5. \A v \in Workers :
          /\ pc'[v] \in WithJob <=> pc[v] \in WithJob
          /\ pc[v] = "accepted" => pc'[v] = "accepted" \/ mistaken'
  BY <1>3, <1>4
<1>6. QED
  BY <1>1, <1>2, <1>5, SameMailsCap

LEMMA WaitingCap ==
    ASSUME CapInv, mailed' = mailed, lost' = lost, mistaken' = mistaken,
           \/ \E d \in Deliveries : Retry(d) \/ RetryDue(d)
           \/ \E n \in Notifications, e \in Evidences : WorldChanges(n, e)
    PROVE  JobsHeld' /\ BudgetKept' /\ LeasesHold' /\ MailedFits'
<1> USE DEF CapInv, MailsInv
<1>1. job' = job /\ pc' = pc /\ UNCHANGED <<worker, lease, today>>
  BY DEF Retry, RetryDue, WorldChanges, workerVars, rowVars
<1>2. SameMails
  <2>1. ASSUME NEW d \in Deliveries, Retry(d) PROVE SameMails
    <3>1. PICK used : used = Cardinality({e \in Deliveries : status[e] # "absent"})
      OBVIOUS
    <3>2. used \in 0..MaxDeliveries /\ \A e \in Deliveries : status[e] = "absent" <=> e > used
      BY <3>1, UsedRows DEF DeliveriesInv
    <3>3. status' = [status EXCEPT ![used + 1] = "queued"] /\ used + 1 \in Deliveries
      BY <2>1, <3>1 DEF Retry
    <3>4. status[used + 1] = "absent"
      BY <3>2, <3>3, BoundsAssumption DEF Deliveries
    <3>5. QED
      BY <3>3, <3>4, <1>1 DEF SameMails, TypeOK
  <2>2. CASE UNCHANGED status
    BY <2>2, <1>1 DEF SameMails
  <2>3. QED
    BY <2>1, <2>2 DEF RetryDue, WorldChanges, rowVars
<1>3. QED
  BY <1>1, <1>2, SameMailsCap

\* The mail is handed over: what is accepted was not mailed before today, and
\* its row is counted.
LEMMA SmtpCap ==
    ASSUME CapInv, NEW w \in Workers, Smtp(w), mailed' = mailed \cup Accepted, lost' = lost,
           mistaken' = mistaken
    PROVE  JobsHeld' /\ BudgetKept' /\ LeasesHold' /\ MailedFits'
<1> USE DEF CapInv, MailsInv
<1>1. PICK outcome \in {"accepted", "refused", "failing"} : pc' = [pc EXCEPT ![w] = outcome]
  BY DEF Smtp, Goto
<1>2. pc \in [Workers -> Places] /\ pc[w] = "sending" /\ UNCHANGED <<status, worker, lease, today, job>>
  BY DEF Smtp, TypeOK, rowVars
<1>3. Accepted = IF outcome = "accepted" THEN {job[w]} ELSE {}
  BY <1>1, <1>2 DEF Accepted
<1>4. JobsHeld'
  BY <1>1, <1>2 DEF JobsHeld, WithJob
<1>5. Counted' = Counted /\ Rows({"sending"})' = Rows({"sending"})
  BY <1>2 DEF Counted, Rows
<1>6. BudgetKept' /\ LeasesHold'
  BY <1>2, <1>5 DEF BudgetKept, LeasesHold
<1>7. MailedFits'
  <2> SUFFICES ASSUME ~lost, ~mistaken
               PROVE  /\ mailed' \subseteq Counted
                      /\ \A v \in Workers : pc'[v] \in WithJob \ {"accepted"} => job[v] \notin mailed'
    BY <1>2, <1>5 DEF MailedFits
  <2>1. /\ job[w] \in Deliveries /\ status[job[w]] = "sending"
        /\ \A v \in Workers \ {w} : pc[v] = "idle"
    BY <1>2 DEF TypeOK, JobsHeld, AloneAtWork, WithJob, NoJob
  <2>2. job[w] \in Counted
    BY <2>1 DEF LeasesHold, Rows, Counted
  <2>3. mailed \subseteq Counted /\ job[w] \notin mailed
    BY <1>2 DEF MailedFits, WithJob
  <2>4. \A v \in Workers : pc'[v] \in WithJob => v = w
    BY <1>1, <1>2, <2>1 DEF WithJob
  <2>5. QED
    BY <1>1, <1>2, <1>3, <2>2, <2>3, <2>4
<1>8. QED
  BY <1>4, <1>6, <1>7

LEMMA BudgetShrinks ==
    ASSUME BudgetKept, Counted' \subseteq Counted
    PROVE  BudgetKept'
<1>1. Counted \in SUBSET Deliveries /\ Counted' \in SUBSET Deliveries
  BY DEF Counted
<1>2. PICK S \in SUBSET Deliveries, T \in SUBSET Deliveries : S = Counted' /\ T = Counted
  BY <1>1
<1>3. S \in SUBSET T
  BY <1>2
<1>4. Cardinality(S) <= Cardinality(T) /\ Cardinality(S) \in Nat /\ Cardinality(T) \in Nat
  BY <1>3, FewerDeliveries, SomeDeliveries
<1>5. Cardinality(T) <= Cap
  BY <1>2 DEF BudgetKept
<1>6. Cardinality(S) <= Cap
  BY <1>4, <1>5, BoundsAssumption
<1>7. QED
  BY <1>2, <1>6 DEF BudgetKept

\* Time passes: a lease that runs out is recorded, and frees its reservation
\* only if the mail was due another day.
LEMMA TimeCap ==
    ASSUME CapInv,
           \/ Tick /\ lost' = (lost \/ RunOut) /\ UNCHANGED <<mailed, mistaken>>
           \/ NewDay /\ mailed' = {} /\ lost' = Ambiguous /\ UNCHANGED mistaken
    PROVE  JobsHeld' /\ BudgetKept' /\ LeasesHold' /\ MailedFits'
<1> USE DEF CapInv, MailsInv
<1>1. UNCHANGED <<status, worker, job, pc>>
  BY DEF Tick, NewDay, workerVars
<1>2. JobsHeld'
  BY <1>1 DEF JobsHeld
<1>3. \A d \in Deliveries : lease[d] \in Nat /\ lease'[d] \in Nat /\ lease'[d] <= lease[d]
  <2>1. \A d \in Deliveries : lease[d] \in Nat
    BY BoundsAssumption DEF TypeOK
  <2>2. CASE Tick
    BY <2>1, <2>2 DEF Tick
  <2>3. CASE NewDay
    BY <2>1, <2>3 DEF NewDay
  <2>4. QED
    BY <2>2, <2>3
<1>4. \A d \in Deliveries : today'[d] => today[d]
  BY DEF Tick, NewDay
<1>5. Counted' \subseteq Counted
  BY <1>1, <1>3, <1>4 DEF Counted
<1>6. BudgetKept'
  BY <1>5, BudgetShrinks
<1>7. LeasesHold'
  <2>1. CASE Tick /\ lost' = (lost \/ RunOut)
    <3> SUFFICES ASSUME ~lost', NEW d \in Deliveries, status[d] = "sending" PROVE lease'[d] > 0
      BY <1>1 DEF LeasesHold, Rows
    <3>1. ~lost /\ ~RunOut
      BY <2>1
    <3>2. lease[d] > 0
      BY <3>1 DEF LeasesHold, Rows
    <3>3. lease'[d] # 0
      BY <3>1, <3>2 DEF RunOut
    <3>4. QED
      BY <3>3, <1>3
  <2>2. CASE NewDay /\ lost' = Ambiguous
    BY <2>2, <1>1, <1>3 DEF NewDay, LeasesHold, Rows, Ambiguous
  <2>3. QED
    BY <2>1, <2>2
<1>8. MailedFits'
  <2>1. CASE Tick /\ lost' = (lost \/ RunOut) /\ UNCHANGED <<mailed, mistaken>>
    <3>1. lost' = FALSE => lost = FALSE /\ Counted' = Counted
      <4>1. today' = today
        BY <2>1 DEF Tick
      <4>2. QED
        BY <2>1, <4>1, <1>1, <1>7 DEF LeasesHold, HistoryTyped, Rows, Counted
    <3>2. QED
      BY <2>1, <3>1, <1>1 DEF MailedFits
  <2>2. CASE mailed' = {}
    BY <2>2 DEF MailedFits
  <2>3. QED
    BY <2>1, <2>2
<1>9. QED
  BY <1>2, <1>6, <1>7, <1>8

\* The lease is renewed, or was lost.
LEMMA RenewalCap ==
    ASSUME CapInv, NEW w \in Workers, StartSending(w) \/ Heartbeat(w), mailed' = mailed,
           lost' = lost, mistaken' = mistaken
    PROVE  JobsHeld' /\ BudgetKept' /\ LeasesHold' /\ MailedFits'
<1> USE DEF CapInv, MailsInv
<1>1. UNCHANGED <<status, worker, today>> /\ pc[w] \in WithJob \ {"accepted"}
  BY DEF StartSending, Heartbeat, WithJob
<1>2. /\ job[w] \in Deliveries /\ job[w] # NoJob /\ status[job[w]] = "sending" /\ worker[job[w]] = w
      /\ \A v \in Workers \ {w} : pc[v] = "idle" /\ job[v] = NoJob
  BY <1>1, OthersIdle DEF WithJob
<1>3. HoldsLease(w) <=> lease[job[w]] > 0
  BY <1>2 DEF HoldsLease, Owns
<1>4. CASE HoldsLease(w)
  <2>1. /\ lease' = [lease EXCEPT ![job[w]] = Lease] /\ job' = job
        /\ \E to \in WithJob \ {"accepted"} : pc' = [pc EXCEPT ![w] = to]
    <3>1. CASE StartSending(w)
      BY <3>1, <1>4 DEF StartSending, Goto, WithJob
    <3>2. CASE Heartbeat(w)
      <4>1. pc' = [pc EXCEPT ![w] = pc[w]]
        BY <3>2 DEF Heartbeat, workerVars, TypeOK
      <4>2. QED
        BY <3>2, <4>1, <1>1 DEF Heartbeat, workerVars
    <3>3. QED
      BY <3>1, <3>2
  <2>2. \A d \in Deliveries : lease[d] > 0 => lease'[d] > 0
    BY <2>1, BoundsAssumption DEF TypeOK
  <2>3. \A d \in Deliveries : status[d] = "sending" => (lease'[d] > 0 <=> lease[d] > 0)
    BY <2>1, <1>3, <1>4, BoundsAssumption DEF TypeOK
  <2>4. Counted' = Counted
    BY <2>3, <1>1 DEF Counted
  <2>5. JobsHeld'
    BY <2>1, <1>1, <1>2 DEF JobsHeld, TypeOK
  <2>6. BudgetKept' /\ LeasesHold'
    BY <2>2, <2>4, <1>1 DEF BudgetKept, LeasesHold, Rows
  <2>7. MailedFits'
    BY <2>1, <2>4, <1>1, <1>2 DEF MailedFits, WithJob, TypeOK
  <2>8. QED
    BY <2>5, <2>6, <2>7
<1>5. CASE ~ HoldsLease(w)
  <2>1. job' = [job EXCEPT ![w] = NoJob] /\ pc' = [pc EXCEPT ![w] = "claiming"] /\ lease' = lease
    BY <1>5 DEF StartSending, Heartbeat, Goto
  <2>2. JobsHeld'
    BY <2>1, <1>1, <1>2 DEF JobsHeld, WithJob, TypeOK
  <2>3. Counted' = Counted /\ Rows({"sending"})' = Rows({"sending"})
    BY <2>1, <1>1 DEF Counted, Rows
  <2>4. BudgetKept' /\ LeasesHold'
    BY <2>1, <2>3 DEF BudgetKept, LeasesHold
  <2>5. MailedFits'
    BY <2>1, <2>3, <1>2 DEF MailedFits, WithJob, TypeOK
  <2>6. QED
    BY <2>2, <2>4, <2>5
<1>6. QED
  BY <1>4, <1>5

\* The worker lets go of its row, whose outcome is recorded or not.
LEMMA EndingCap ==
    ASSUME CapInv, NEW w \in Workers, DropObsolete(w) \/ Finish(w), mailed' = mailed,
           lost' = lost, mistaken' = mistaken
    PROVE  JobsHeld' /\ BudgetKept' /\ LeasesHold' /\ MailedFits'
<1> USE DEF CapInv, MailsInv
<1> DEFINE r == job[w]
<1>1. PICK d : d = r
  OBVIOUS
<1>2. pc[w] \in WithJob
  BY DEF DropObsolete, Finish, WithJob
<1>3. /\ d \in Deliveries /\ d # NoJob /\ status[d] = "sending" /\ worker[d] = w
      /\ \A v \in Workers \ {w} : pc[v] = "idle" /\ job[v] = NoJob
  BY <1>1, <1>2, OthersIdle DEF WithJob
<1>4. /\ job' = [job EXCEPT ![w] = NoJob] /\ pc' = [pc EXCEPT ![w] = "claiming"]
      /\ \A e \in Deliveries \ {d} : /\ status'[e] = status[e] /\ worker'[e] = worker[e]
                                    /\ lease'[e] = lease[e] /\ today'[e] = today[e]
      /\ \/ UNCHANGED <<status, worker, lease, today>>
         \/ status'[d] # "sending" /\ (status'[d] = "sent" => pc[w] = "accepted" /\ today'[d])
  <2>1. CASE DropObsolete(w)
    BY <2>1, <1>1, <1>3 DEF DropObsolete, Goto, TypeOK
  <2>2. CASE Finish(w)
    <3>1. /\ job' = [job EXCEPT ![w] = NoJob] /\ pc' = [pc EXCEPT ![w] = "claiming"]
          /\ HoldsLease(w) =>
                \E outcome \in {"sent", "permanent_failure", "failed"} :
                    /\ outcome = "sent" => pc[w] = "accepted"
                    /\ status' = [status EXCEPT ![d] = outcome]
                    /\ worker' = [worker EXCEPT ![d] = Nobody]
                    /\ lease' = [lease EXCEPT ![d] = 0]
                    /\ today' = [today EXCEPT ![d] = outcome = "sent"]
          /\ ~HoldsLease(w) => UNCHANGED <<status, worker, lease, today>>
      BY <2>2, <1>1 DEF Finish, Goto
    <3>2. CASE HoldsLease(w)
      <4>1. PICK outcome \in {"sent", "permanent_failure", "failed"} :
                    /\ outcome = "sent" => pc[w] = "accepted"
                    /\ status' = [status EXCEPT ![d] = outcome]
                    /\ worker' = [worker EXCEPT ![d] = Nobody]
                    /\ lease' = [lease EXCEPT ![d] = 0]
                    /\ today' = [today EXCEPT ![d] = outcome = "sent"]
        BY <3>1, <3>2
      <4>2. QED
        BY <3>1, <4>1, <1>3 DEF TypeOK
    <3>3. QED
      BY <3>1, <3>2
  <2>3. QED
    BY <2>1, <2>2
<1>5. ~lost => \/ status'[d] = "sent" /\ today'[d]
               \/ pc[w] # "accepted"
  <2>1. CASE DropObsolete(w)
    BY <2>1 DEF DropObsolete
  <2>2. CASE Finish(w) /\ pc[w] = "accepted"
    <3>1. ~lost => HoldsLease(w)
      BY <1>1, <1>3 DEF HoldsLease, Owns, LeasesHold, Rows
    <3>2. HoldsLease(w) => /\ status' = [status EXCEPT ![d] = "sent"]
                           /\ today' = [today EXCEPT ![d] = TRUE]
      BY <2>2, <1>1 DEF Finish
    <3>3. QED
      BY <3>1, <3>2, <1>3 DEF TypeOK
  <2>3. QED
    BY <2>1, <2>2
<1>6. pc \in [Workers -> Places] /\ job \in [Workers -> Deliveries \cup {NoJob}]
  BY DEF TypeOK
<1>7. \A v \in Workers : pc'[v] \notin WithJob /\ job'[v] = NoJob
  BY <1>3, <1>4, <1>6 DEF WithJob
<1>8. JobsHeld'
  BY <1>7 DEF JobsHeld
<1>9. \A e \in Deliveries \ {d} : e \in Counted' <=> e \in Counted
  BY <1>4 DEF Counted
<1>10. d \in Counted' => d \in Counted
  <2>1. status'[d] = "sent" => d \in Counted
    <3>1. CASE UNCHANGED <<status, worker, lease, today>>
      BY <3>1, <1>3
    <3>2. CASE Finish(w) /\ status'[d] = "sent"
      <4>1. HoldsLease(w)
        BY <3>2, <1>1, <1>3 DEF Finish
      <4>2. QED
        BY <4>1, <1>1, <1>3 DEF HoldsLease, Counted
    <3>3. CASE DropObsolete(w)
      BY <3>3, <1>1, <1>3 DEF DropObsolete, TypeOK
    <3>4. QED
      BY <3>1, <3>2, <3>3
  <2>2. QED
    BY <2>1, <1>3, <1>4 DEF Counted
<1>11. BudgetKept'
  <2>1. Counted' \subseteq Counted
    BY <1>9, <1>10 DEF Counted
  <2>2. QED
    BY <2>1, BudgetShrinks
<1>12. LeasesHold'
  BY <1>3, <1>4 DEF LeasesHold, Rows
<1>13. MailedFits'
  <2> SUFFICES ASSUME ~lost, ~mistaken, NEW e \in mailed PROVE e \in Counted'
    BY <1>7 DEF MailedFits
  <2>1. e \in Counted /\ e \in Deliveries
    BY DEF MailedFits, Counted
  <2>2. CASE e # d
    BY <2>1, <2>2, <1>9
  <2>3. CASE e = d
    <3>1. pc[w] = "accepted"
      BY <2>3, <1>1, <1>2 DEF MailedFits
    <3>2. QED
      BY <2>1, <2>3, <3>1, <1>5 DEF Counted
  <2>4. QED
    BY <2>2, <2>3
<1>14. QED
  BY <1>8, <1>11, <1>12, <1>13

\* A pass dies: its row keeps its reservation.
LEMMA CrashCap ==
    ASSUME CapInv, NEW w \in Workers, Crash(w), mailed' = mailed, lost' = lost, mistaken' = mistaken
    PROVE  JobsHeld' /\ BudgetKept' /\ LeasesHold' /\ MailedFits'
<1> USE DEF CapInv, MailsInv
<1>1. /\ job' = [job EXCEPT ![w] = NoJob] /\ pc' = [pc EXCEPT ![w] = "idle"]
      /\ UNCHANGED <<status, worker, lease, today>>
  BY DEF Crash, Goto, rowVars
<1>2. pc \in [Workers -> Places] /\ job \in [Workers -> Deliveries \cup {NoJob}]
  BY DEF TypeOK
<1>3. JobsHeld'
  BY <1>1, <1>2 DEF JobsHeld, WithJob
<1>4. Counted' = Counted /\ Rows({"sending"})' = Rows({"sending"})
  BY <1>1 DEF Counted, Rows
<1>5. BudgetKept' /\ LeasesHold'
  BY <1>1, <1>4 DEF BudgetKept, LeasesHold
<1>6. MailedFits'
  BY <1>1, <1>2, <1>4 DEF MailedFits, WithJob
<1>7. QED
  BY <1>3, <1>5, <1>6

\* A row is claimed while the others leave room for it, and the rows passed
\* over give their reservations back.
LEMMA ClaimCap ==
    ASSUME CapInv, NEW w \in Workers, Claim(w), mailed' = mailed, lost' = lost, mistaken' = mistaken
    PROVE  JobsHeld' /\ BudgetKept' /\ LeasesHold' /\ MailedFits'
<1> USE DEF CapInv, MailsInv
<1>1. PICK passed \in SUBSET DueRows, d \in DueRows \cup {NoJob} :
        /\ d # NoJob => d \notin passed /\ ~ BudgetSpent(d, passed)
        /\ status' = [e \in Deliveries |-> IF e = d THEN "sending"
                                           ELSE IF e \in passed THEN Settled(e)
                                           ELSE status[e]]
        /\ worker' = [e \in Deliveries |-> IF e = d THEN w
                                           ELSE IF e \in passed THEN Nobody
                                           ELSE worker[e]]
        /\ lease' = [e \in Deliveries |-> IF e = d THEN Lease ELSE lease[e]]
        /\ today' = [e \in Deliveries |-> IF e = d THEN TRUE
                                          ELSE IF e \in passed THEN FALSE
                                          ELSE today[e]]
        /\ job' = [job EXCEPT ![w] = d]
        /\ pc' = [pc EXCEPT ![w] = IF d = NoJob THEN "idle" ELSE "claimed"]
  BY DEF Claim, Goto
<1>2. /\ pc \in [Workers -> Places] /\ job \in [Workers -> Deliveries \cup {NoJob}]
      /\ \A v \in Workers \ {w} : pc[v] = "idle" /\ job[v] = NoJob
  BY OthersIdle DEF Claim, TypeOK
<1>3. DueRows \subseteq Deliveries /\ NoJob \notin Deliveries
  BY DEF DueRows, Deliveries, NoJob
<1>4. \A e \in Deliveries : Settled(e) \in {"permanent_failure", "failed", "queued"}
  BY DEF Settled
<1>5. JobsHeld'
  BY <1>1, <1>2, <1>3 DEF JobsHeld, WithJob
<1>6. Counted' = (Counted \ passed) \cup ({d} \ {NoJob})
  BY <1>1, <1>3, <1>4, BoundsAssumption DEF Counted
<1>7. BudgetKept'
  <2>1. CASE d = NoJob
    <3>1. Counted' \subseteq Counted
      BY <2>1, <1>6
    <3>2. QED
      BY <3>1, BudgetShrinks
  <2>2. CASE d # NoJob
    <3>1. PICK S \in SUBSET Deliveries : S = Counted \ (passed \cup {d})
      BY DEF Counted
    <3>2. ~ (Cardinality(S) >= Cap)
      BY <2>2, <3>1, <1>1 DEF BudgetSpent
    <3>3. Cardinality(S) \in Nat /\ IsFiniteSet(S)
      BY SomeDeliveries
    <3>4. Cardinality(S \cup {d}) = Cardinality(S) + 1
      BY <3>1, <3>3, FS_AddElement
    <3>5. Counted' = S \cup {d}
      BY <2>2, <3>1, <1>6
    <3>6. QED
      BY <3>2, <3>3, <3>4, <3>5, BoundsAssumption DEF BudgetKept
  <2>3. QED
    BY <2>1, <2>2
<1>8. LeasesHold'
  BY <1>1, <1>3, <1>4, BoundsAssumption DEF LeasesHold, Rows
<1>9. ~lost => \A e \in DueRows : e \notin Counted
  BY DEF LeasesHold, DueRows, Counted, Rows
<1>10. MailedFits'
  <2> SUFFICES ASSUME ~lost, ~mistaken
               PROVE  /\ mailed \subseteq Counted'
                      /\ \A v \in Workers : pc'[v] \in WithJob \ {"accepted"} => job'[v] \notin mailed
    BY DEF MailedFits
  <2>1. mailed \subseteq Counted
    BY DEF MailedFits
  <2>2. mailed \subseteq Counted'
    BY <2>1, <1>6, <1>9
  <2>3. \A v \in Workers : pc'[v] \in WithJob => v = w /\ d # NoJob
    BY <1>1, <1>2 DEF WithJob
  <2>4. job'[w] = d
    BY <1>1, <1>2
  <2>5. QED
    BY <2>1, <2>2, <2>3, <2>4, <1>9
<1>11. QED
  BY <1>5, <1>7, <1>8, <1>10

LEMMA CapInvStep ==
    ASSUME CapInv, CapNext, OneAtWork'
    PROVE  CapInv'
<1> USE DEF CapInv
<1>1. [Next]_vars
  BY DEF CapNext, Next, Work
<1>2. MailsInv' /\ EpisodesFit'
  BY <1>1, MailsInvStep
<1>3. AloneAtWork'
  BY DEF OneAtWork, AloneAtWork
<1>4. HistoryTyped'
  <2>1. CASE lost' = Ambiguous \/ lost' = (lost \/ RunOut) \/ lost' = lost
    BY <2>1 DEF CapNext, HistoryTyped, Ambiguous, RunOut
  <2>2. QED
    BY <2>1 DEF CapNext
<1>5. StaleStill'
  <2> SUFFICES ASSUME NEW v \in Workers, pc'[v] = "planned"
               PROVE  plan'[v].stale \subseteq Rows({"queued", "failed"})'
    BY DEF StaleStill
  <2>1. CASE \E d \in Deliveries : Retry(d)
    BY <2>1 DEF Retry, workerVars, PlanningIdle
  <2>2. CASE UNCHANGED <<status, pc, plan>>
    BY <2>2 DEF StaleStill, Rows
  <2>3. CASE \E w \in Workers : Work(w) \/ Heartbeat(w) \/ Break(w) \/ Crash(w)
    <3>1. PICK w \in Workers : Work(w) \/ Heartbeat(w) \/ Break(w) \/ Crash(w)
      BY <2>3
    <3>2. pc \in [Workers -> Places] /\ plan \in [Workers -> Plans]
      BY DEF MailsInv, TypeOK, PlansTyped
    <3>3. CASE Collect(w) \/ ReadHistory(w)
      <4>1. pc' = [pc EXCEPT ![w] = IF Collect(w) THEN "collected" ELSE "planned"] /\ UNCHANGED status
        BY <3>3 DEF Collect, ReadHistory, Goto, rowVars
      <4>2. v # w => pc[v] = "planned"
        BY <3>2, <4>1
      <4>3. CASE Collect(w)
        BY <4>1, <4>2, <4>3, <3>2 DEF Collect, StaleStill, Rows
      <4>4. CASE ReadHistory(w) /\ ~Collect(w)
        <5>1. v = w
          BY <4>2, <4>4 DEF ReadHistory, PlanningIdle
        <5>2. \E current : plan'[w].stale = StaleIntents(current)
          BY <4>4, <3>2 DEF ReadHistory
        <5>3. QED
          BY <5>1, <5>2, <4>1 DEF StaleIntents, Rows
      <4>5. QED
        BY <4>3, <4>4, <3>3
    <3>4. CASE pc[w] # "idle" /\ ~Collect(w) /\ ~ReadHistory(w)
      <4>1. \A u \in Workers \ {w} : pc[u] = "idle"
        BY <3>4 DEF AloneAtWork
      <4>2. Heartbeat(w) => pc[w] = "sending" /\ pc' = pc
        BY DEF Heartbeat, workerVars
      <4>3. \/ pc[w] = "sending" /\ pc' = pc
            \/ \E to \in Places \ {"planned"} : pc' = [pc EXCEPT ![w] = to]
        BY <3>1, <3>4, <4>2
        DEF Work, Plan, Claim, Recheck, Revalidate, DropObsolete, StartSending, Smtp, Finish, Break, Crash, Goto, Places
      <4>4. QED
        BY <4>1, <4>3, <3>2 DEF Places
    <3>5. pc[w] # "idle" \/ Collect(w)
      BY <3>1
      DEF Work, ReadHistory, Plan, Claim, Recheck, Revalidate, DropObsolete, StartSending, Smtp, Finish, Heartbeat,
          Break, Crash
    <3>6. QED
      BY <3>3, <3>4, <3>5
  <2>4. QED
    BY <2>1, <2>2, <2>3 DEF CapNext, NewDay, Tick, RetryDue, WorldChanges, rowVars, workerVars
<1>6. JobsHeld' /\ BudgetKept' /\ LeasesHold' /\ MailedFits'
  <2>1. ASSUME NEW w \in Workers, Break(w), mistaken' = (mistaken \/ pc[w] = "accepted"),
               UNCHANGED <<mailed, lost>>
        PROVE  JobsHeld' /\ BudgetKept' /\ LeasesHold' /\ MailedFits'
    BY <2>1, QuietlyCap DEF Quietly
  <2>2. ASSUME mailed' = mailed \cup Accepted, UNCHANGED <<lost, mistaken>>,
               NEW w \in Workers, Work(w) \/ Heartbeat(w) \/ Crash(w)
        PROVE  JobsHeld' /\ BudgetKept' /\ LeasesHold' /\ MailedFits'
    <3>1. CASE Smtp(w)
      BY <2>2, <3>1, SmtpCap
    <3>2. CASE ~ Smtp(w)
      <4>1. pc \in [Workers -> Places]
        BY DEF MailsInv, TypeOK
      <4>2. \A v \in Workers : pc'[v] = "accepted" => pc[v] = "accepted"
        <5>1. pc' = pc \/ \E to \in Places \ {"accepted"} : pc' = [pc EXCEPT ![w] = to]
          BY <2>2, <3>2
          DEF Work, Collect, ReadHistory, Plan, Claim, Recheck, Revalidate, DropObsolete, StartSending, Finish,
              Heartbeat, Crash, Goto, Places, workerVars
        <5>2. QED
          BY <4>1, <5>1
      <4>3. Accepted = {}
        BY <4>2 DEF Accepted
      <4>4. mailed' = mailed
        BY <2>2, <4>3
      <4>5. CASE Collect(w) \/ ReadHistory(w) \/ Plan(w) \/ Recheck(w) \/ Revalidate(w)
        <5>1. ~ (Break(w) /\ pc[w] = "accepted")
          BY <4>5 DEF Collect, ReadHistory, Plan, Recheck, Revalidate
        <5>2. mistaken' = (mistaken \/ (Break(w) /\ pc[w] = "accepted"))
          BY <2>2, <5>1 DEF HistoryTyped
        <5>3. QED
          BY <2>2, <4>4, <4>5, <5>2, QuietlyCap DEF Quietly
      <4>6. CASE Claim(w)
        BY <2>2, <4>4, <4>6, ClaimCap
      <4>7. CASE DropObsolete(w) \/ Finish(w)
        BY <2>2, <4>4, <4>7, EndingCap
      <4>8. CASE StartSending(w) \/ Heartbeat(w)
        BY <2>2, <4>4, <4>8, RenewalCap
      <4>9. CASE Crash(w)
        BY <2>2, <4>4, <4>9, CrashCap
      <4>10. QED
        BY <2>2, <3>2, <4>5, <4>6, <4>7, <4>8, <4>9 DEF Work
    <3>3. QED
      BY <3>1, <3>2
  <2>3. ASSUME mailed' = mailed \cup Accepted, UNCHANGED <<lost, mistaken>>,
               \/ \E d \in Deliveries : Retry(d) \/ RetryDue(d)
               \/ \E n \in Notifications, e \in Evidences : WorldChanges(n, e)
        PROVE  JobsHeld' /\ BudgetKept' /\ LeasesHold' /\ MailedFits'
    <3>1. pc' = pc
      BY <2>3 DEF Retry, RetryDue, WorldChanges, workerVars
    <3>2. Accepted = {}
      BY <3>1 DEF Accepted
    <3>3. QED
      BY <2>3, <3>2, WaitingCap
  <2>4. QED
    BY <2>1, <2>2, <2>3, TimeCap DEF CapNext
<1>7. QED
  BY <1>2, <1>3, <1>4, <1>5, <1>6

\* Passes that follow one another, watched by the recipient, take only steps of the delivery:
\* whatever holds of it, whoever works at once, holds of them (notification_worker.py).
THEOREM CapIsDelivery == SingleSpec => Spec
<1>1. CapInit => Init
  BY DEF CapInit
<1>2. [CapNext /\ OneAtWork']_capVars => [Next]_vars
  <2>1. CapNext => Next
    BY DEF CapNext, Next
  <2>2. UNCHANGED capVars => UNCHANGED vars
    BY DEF capVars
  <2>3. QED
    BY <2>1, <2>2
<1>3. QED
  BY <1>1, <1>2, PTL DEF SingleSpec, Spec

\* The recipient is mailed no more than Cap distinct deliveries a day, as long
\* as leases hold and every answer of the SMTP server is heard: a crashed pass
\* keeps its reservation, a retry of a failed delivery takes one, and a plan
\* cancels none (claim(), "in-flight reservations count").
THEOREM CapKept == SingleSpec => []CapWhileLeasesHold
<1>1. CapInv => CapWhileLeasesHold
  <2> SUFFICES ASSUME CapInv, ~lost, ~mistaken PROVE Cardinality(mailed) <= Cap
    BY DEF CapWhileLeasesHold
  <2>1. mailed \subseteq Counted /\ Counted \in SUBSET Deliveries /\ Cardinality(Counted) <= Cap
    BY DEF CapInv, MailedFits, BudgetKept, Counted
  <2>2. PICK T \in SUBSET Deliveries : T = Counted
    BY <2>1
  <2>3. mailed \in SUBSET T /\ Cardinality(T) <= Cap
    BY <2>1, <2>2
  <2>4. Cardinality(mailed) <= Cardinality(T) /\ Cardinality(mailed) \in Nat /\ Cardinality(T) \in Nat
    BY <2>3, FewerDeliveries, SomeDeliveries
  <2>5. QED
    BY <2>3, <2>4, BoundsAssumption
<1>2. CapInv /\ UNCHANGED capVars => CapInv'
  <2> SUFFICES ASSUME CapInv, UNCHANGED capVars PROVE CapInv'
    OBVIOUS
  <2>1. UNCHANGED vars
    BY DEF capVars
  <2>2. MailsInv' /\ EpisodesFit'
    BY <2>1, MailsInvStep DEF CapInv
  <2>3. QED
    BY <2>2 DEF CapInv, capVars, vars, rowVars, intentVars, workerVars, HistoryTyped, JobsHeld, AloneAtWork,
              StaleStill, BudgetKept, LeasesHold, MailedFits, Counted, Rows
<1>3. CapInv /\ [CapNext /\ OneAtWork']_capVars => CapInv'
  BY <1>2, CapInvStep
<1>4. QED
  BY <1>1, <1>3, CapInvInit, PTL DEF SingleSpec

=============================================================================
