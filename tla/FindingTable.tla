---------------------------- MODULE FindingTable ----------------------------
(***************************************************************************)
(* One row of admin.finding and what the writers of the table make of it:  *)
(* persist_results for a complete set of rule results, and review.         *)
(***************************************************************************)

CONSTANTS
    Evidence,    \* what a rule can report about an entity: message, severity, metadata
    NoEvidence   \* the row does not exist

ASSUME EvidenceAssumption == NoEvidence \notin Evidence

\* What one scan sees of the entity a finding is about: evidence of a problem,
\* an entity that is covered and in order, or no entity (not covered).
Views == Evidence \cup {"fine", "gone"}
ASSUME ViewsAssumption == Evidence \cap {"fine", "gone"} = {}

Handled == {"in_progress", "snoozed", "exception", "ignored"}
FindingStatuses == {"none", "open", "resolved"} \cup Handled
ReviewTargets == {"open", "in_progress", "snoozed", "exception"}

\* snoozed_until: NULL, still to come, or past.
Row == [status: FindingStatuses, evidence: Evidence \cup {NoEvidence},
        until: {"null", "future", "past"}]

NoRow == [status |-> "none", evidence |-> NoEvidence, until |-> "null"]

\* Detection reopens what was resolved, a snooze that ran out, and an
\* exception whose evidence changed.
Reopens(row, seen) ==
    \/ row.status = "resolved"
    \/ row.status = "snoozed" /\ row.until = "past"
    \/ row.status \in {"exception", "ignored"} /\ row.evidence # seen

\* Mutant: a resolved finding that is seen again stays resolved.
RecheckKeepsResolved(row, seen) ==
    IF seen \in Evidence
    THEN [row EXCEPT !.evidence = seen,
                     !.status = IF row.status = "none" THEN "open" ELSE row.status]
    ELSE IF seen = "fine" /\ row.status # "none"
    THEN [row EXCEPT !.status = "resolved"]
    ELSE row

\* Mutant: every detection sets the finding open again.
RecheckOverwritesReview(row, seen) ==
    IF seen \in Evidence
    THEN [row EXCEPT !.evidence = seen, !.status = "open"]
    ELSE IF seen = "fine" /\ row.status # "none"
    THEN [row EXCEPT !.status = "resolved"]
    ELSE row

\* persist_results on one row, when every rule succeeded.
Recheck(row, seen) ==
    IF seen \in Evidence
    THEN [row EXCEPT !.evidence = seen,
                     !.status = IF row.status = "none" \/ Reopens(row, seen)
                                THEN "open" ELSE row.status]
    ELSE IF seen = "fine" /\ row.status # "none"
    THEN [row EXCEPT !.status = "resolved"]
    ELSE row

\* A finding_event is written when a row appears, reopens or is resolved.
EventWritten(row, seen) ==
    \/ seen \in Evidence /\ (row.status = "none" \/ Reopens(row, seen))
    \/ seen = "fine" /\ row.status \notin {"none", "resolved"}

\* review sets the status; the snooze expiry is cleared by any other status.
Reviewed(row, target) ==
    [row EXCEPT !.status = target,
                !.until = IF target = "snoozed" THEN "future" ELSE "null"]
=============================================================================
