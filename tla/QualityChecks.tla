---------------------------- MODULE QualityChecks ---------------------------
(***************************************************************************)
(* The check queue together with the findings it maintains.  Workers scan  *)
(* a snapshot of a source that keeps changing, humans review findings      *)
(* meanwhile, and the commit of a run applies persist_results to the rows  *)
(* as they are at that moment.                                             *)
(***************************************************************************)
EXTENDS CheckQueue, FindingTable

CONSTANT Findings   \* identities (rule, entity, field) of possible findings

VARIABLES
    world,   \* what each version of the source shows of every finding (history)
    table,   \* admin.finding
    logged,  \* the status in the latest finding_event of each finding
    seen     \* history: the latest version in which a finding was detected

findingVars == <<table, logged, seen>>
qualityVars == <<vars, world, table, logged, seen>>

\* Before the first run the table is empty, but for suppressions carried over
\* from the first schema ("ignored"), whose problem is still there.
QualityInit ==
    /\ Init
    /\ world \in [0..MaxSource -> [Findings -> Views]]
    /\ \A v \in 1..MaxSource : world[v] = world[0]
    /\ \A f \in Findings : world[0][f] # "gone"
    /\ table = [f \in Findings |->
                  IF world[0][f] = "fine" THEN NoRow
                  ELSE [status |-> "ignored", evidence |-> world[0][f], until |-> "null"]]
    /\ logged = [f \in Findings |-> table[f].status]
    /\ seen = [f \in Findings |-> 0]

\* The source gets a new version; later versions start out equal to it.
WorldChanges ==
    /\ SourceChanges
    /\ \E now \in [Findings -> Views] :
         world' = [v \in 0..MaxSource |-> IF v > source THEN now ELSE world[v]]
    /\ UNCHANGED findingVars

\* The commit of execute_check, with persist_results over the fresh rows.
CommitFindings(w) ==
    /\ Commit(w)
    /\ LET view == world[snap[w]] IN
        /\ table' = [f \in Findings |-> Recheck(table[f], view[f])]
        /\ logged' = [f \in Findings |->
                        IF EventWritten(table[f], view[f])
                        THEN Recheck(table[f], view[f]).status ELSE logged[f]]
        /\ seen' = [f \in Findings |-> IF view[f] \in Evidence THEN snap[w] ELSE seen[f]]
    /\ UNCHANGED world

\* Mutant: review does not look whether the finding has been resolved.
ReviewUnchecked(v, f, target) ==
    /\ lock = v
    /\ table[f].status # "none"
    /\ table' = [table EXCEPT ![f] = Reviewed(table[f], target)]
    /\ logged' = [logged EXCEPT ![f] = target]
    /\ UNCHANGED <<vars, world, seen>>

\* review under LOCK_KEY: 404 without a row, 422 for a resolved finding.
Review(v, f, target) ==
    /\ lock = v
    /\ table[f].status \notin {"none", "resolved"}
    /\ table' = [table EXCEPT ![f] = Reviewed(table[f], target)]
    /\ logged' = [logged EXCEPT ![f] = target]
    /\ UNCHANGED <<vars, world, seen>>

\* Time passes the snoozed_until of a finding.
SnoozeRunsOut(f) ==
    /\ table[f].until = "future"
    /\ table' = [table EXCEPT ![f].until = "past"]
    /\ UNCHANGED <<vars, world, logged, seen>>

QualityNext ==
    \/ QueueStep /\ UNCHANGED <<world, findingVars>>
    \/ WorldChanges
    \/ \E w \in Workers : CommitFindings(w)
    \/ \E v \in Reviewers, f \in Findings, t \in ReviewTargets : Review(v, f, t)
    \/ \E f \in Findings : SnoozeRunsOut(f)

QualitySpec == QualityInit /\ [][QualityNext]_qualityVars

-----------------------------------------------------------------------------
QualityTypeOK ==
    /\ TypeOK
    /\ world \in [0..MaxSource -> [Findings -> Views]]
    /\ table \in [Findings -> Row]
    /\ logged \in [Findings -> FindingStatuses]
    /\ seen \in [Findings -> 0..MaxSource]

\* The finding table is what the latest successful run saw, no more and no
\* less, whatever humans decided and however many runs failed, crashed or ran
\* out of lease since: a problem it saw is listed with that evidence and not
\* resolved, a finding it covered and did not see is absent or resolved.
TableMatchesLastRun ==
    \A f \in Findings :
        /\ world[stored][f] \in Evidence =>
             /\ table[f].status \notin {"none", "resolved"}
             /\ table[f].evidence = world[stored][f]
        /\ world[stored][f] = "fine" => table[f].status \in {"none", "resolved"}

\* The event log never lags behind the table: the last event of a finding
\* shows the status the finding has (the timeline is built from the events).
LogMatchesTable == \A f \in Findings : logged[f] = table[f].status

\* What a human decided about a finding ends only by another review, by proof
\* that the problem is gone, by the end of the snooze, or, for an exception,
\* by other evidence than the one it was granted for; never by seeing the same
\* problem again, and never because a scan began before the decision.
DecisionsLast ==
    [][\A f \in Findings :
        table[f].status \in Handled /\ table'[f].status # table[f].status =>
            \/ lock \in Reviewers
            \/ table'[f].status = "resolved"
            \/ table[f].status = "snoozed" /\ table[f].until = "past"
            \/ /\ table[f].status \in {"exception", "ignored"}
               /\ table'[f].evidence # table[f].evidence]_qualityVars

\* A finding is resolved only by a scan that covered the entity and found it
\* in order, and that is newer than the latest scan that saw the problem; and
\* a resolved finding reopens only because the problem is seen again.
ResolvedByNewerProof ==
    [][\A f \in Findings :
        /\ table[f].status # "resolved" /\ table'[f].status = "resolved" =>
             /\ world[stored'][f] = "fine"
             /\ stored' > seen[f]
        /\ table[f].status = "resolved" /\ table'[f].status # "resolved" =>
             world[stored'][f] \in Evidence /\ stored' > stored]_qualityVars
=============================================================================
