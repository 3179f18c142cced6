----------------------------- MODULE Assignments -----------------------------
(***************************************************************************)
(* Assignments of findings and queue rows to administrators                *)
(* (backend/app/services/assignments.py) and the inbox that shows them     *)
(* (services/inbox.py). A creation looks at its task before it takes the   *)
(* task's advisory lock; an update locks the assignment's row, not the     *)
(* task, and refuses a version other than the one its form was filled      *)
(* from. Two partial unique indexes allow one active assignment per task.  *)
(* Tasks are findings, geocode requests and deliveries, whose own status   *)
(* changes at any time. A snooze is in the future until Expire.            *)
(***************************************************************************)
EXTENDS Naturals, FiniteSets

CONSTANTS
    Tasks,        \* findings and queue rows
    Assignments,  \* assignment ids
    Admins,
    Forms,        \* browser forms and requests under way
    MaxRevision,  \* bound: versions of one assignment
    Unfilled      \* no task, no assignment

ASSUME UnfilledAssumption == Unfilled \notin Tasks \cup Assignments
ASSUME RevisionBound == MaxRevision \in Nat \ {0}

VARIABLES
    standing,    \* of each task
    staff,       \* active administrators
    assignment,  \* the assignment rows
    event,       \* assignment_event: how many each assignment has, and the last one
    intake,      \* a creation between task_identity and the advisory lock
    form         \* the assignment and version a form was filled from

assignmentVars == <<standing, staff, assignment, event, intake, form>>

\* A finding is open, decided (an exception, or ignored) or closed (resolved); a
\* queue row is open while it waits for somebody, and closed.
Standings == {"open", "decided", "closed"}
\* What can be assigned is more than what the inbox lists unassigned.
Assignable(t) == standing[t] # "closed"
AwaitsSomebody(t) == standing[t] = "open"

OPEN == {"open", "in_progress"}
CLOSED == {"done", "cancelled"}
NoAssignment == [task |-> Unfilled]
Rows == [task : Tasks, to : Admins, status : OPEN \cup CLOSED, snoozed : BOOLEAN,
         version : 1 .. MaxRevision]
Exists(i) == assignment[i] # NoAssignment
Answers(i) == Exists(i) /\ assignment[i].status \in OPEN
Holders(t) == {i \in Assignments : Answers(i) /\ assignment[i].task = t}

AssignmentsInit ==
    /\ standing \in [Tasks -> Standings]
    /\ staff = Admins
    /\ assignment = [i \in Assignments |-> NoAssignment]
    /\ event = [i \in Assignments |-> [count |-> 0, last |-> NoAssignment]]
    /\ intake = [f \in Forms |-> [task |-> Unfilled]]
    /\ form = [f \in Forms |-> [id |-> Unfilled]]

\* assignment_active_finding and assignment_active_workflow, admin_tables.py.
\* Mutant: the indexes do not see an assignment that is opened again.
UniqueUnlessReopened(i, new) ==
    Answers(i) \/ ~ Exists(i) => (new.status \in OPEN => Holders(new.task) \subseteq {i})
UniqueAfter(i, new) == new.status \in OPEN => Holders(new.task) \subseteq {i}

Saves(i, new) ==
    /\ assignment' = [assignment EXCEPT ![i] = new]
    /\ event' = [event EXCEPT ![i] = [count |-> @.count + 1, last |-> new]]

----------------------------------------------------------------------------
\* create_assignment: require_admin and task_identity.
TakeIn(f) ==
    /\ intake[f].task = Unfilled
    /\ \E t \in Tasks, a \in staff :
          Assignable(t) /\ intake' = [intake EXCEPT ![f] = [task |-> t, to |-> a]]
    /\ UNCHANGED <<standing, staff, assignment, event, form>>

\* Its rest, under the advisory lock; 409 when somebody is responsible already.
Assign(f) ==
    /\ intake[f].task # Unfilled
    /\ intake' = [intake EXCEPT ![f] = [task |-> Unfilled]]
    /\ IF Holders(intake[f].task) # {}
       THEN UNCHANGED <<assignment, event>>
       ELSE \E i \in Assignments, s \in OPEN :
               /\ ~ Exists(i)
               /\ Saves(i, [task |-> intake[f].task, to |-> intake[f].to, status |-> s,
                            snoozed |-> FALSE, version |-> 1])
    /\ UNCHANGED <<standing, staff, form>>

FillForm(f) ==
    /\ \E i \in Assignments :
          Exists(i) /\ form' = [form EXCEPT ![f] = [id |-> i, version |-> assignment[i].version]]
    /\ UNCHANGED <<standing, staff, assignment, event, intake>>

\* update_assignment. A patch may leave out any field; what it does not name
\* keeps its value, and a closed assignment loses its snooze.
\* Mutant: the snooze outlives the assignment.
PatchedKeepingSnooze(old, status, to, snooze) ==
    [old EXCEPT !.status = status, !.to = to, !.snoozed = snooze = "set" \/ (snooze = "keep" /\ @)]
Patched(old, status, to, snooze) ==
    [old EXCEPT !.status = status, !.to = to,
                !.snoozed = status \in OPEN /\ (snooze = "set" \/ (snooze = "keep" /\ @))]
NextVersion(row) == [row EXCEPT !.version = @ + 1]
Accepted(i, given, status, snooze) ==
    /\ ~ (assignment[i].status \in CLOSED /\ given = "cancelled")
    /\ snooze = "set" =>
          assignment[i].status \in OPEN /\ status \in OPEN /\ Assignable(assignment[i].task)
Revision(i, given, to, snooze) ==
    LET status == IF given = "keep" THEN assignment[i].status ELSE given
        new == Patched(assignment[i], status, to, snooze)
    IN /\ assignment[i].version < MaxRevision
       /\ Accepted(i, given, status, snooze)
       /\ UniqueAfter(i, new)
       /\ new # assignment[i] /\ Saves(i, NextVersion(new))
Revise(f) ==
    /\ form[f].id # Unfilled
    /\ form' = [form EXCEPT ![f] = [id |-> Unfilled]]
    /\ \/ UNCHANGED <<assignment, event>>  \* refused, or nothing to change
       \/ /\ assignment[form[f].id].version = form[f].version
          /\ \E given \in OPEN \cup CLOSED \cup {"keep"}, to \in staff, snooze \in {"keep", "set", "clear"} :
                Revision(form[f].id, given, to, snooze)
    /\ UNCHANGED <<standing, staff, intake>>

----------------------------------------------------------------------------
\* Around it.

TaskChanges ==
    /\ \E t \in Tasks, s \in Standings : s # standing[t] /\ standing' = [standing EXCEPT ![t] = s]
    /\ UNCHANGED <<staff, assignment, event, intake, form>>
StaffChanges ==
    /\ \E a \in Admins : staff' = IF a \in staff THEN staff \ {a} ELSE staff \cup {a}
    /\ UNCHANGED <<standing, assignment, event, intake, form>>
Expire ==
    /\ \E i \in Assignments :
          Answers(i) /\ assignment[i].snoozed /\ assignment' = [assignment EXCEPT ![i].snoozed = FALSE]
    /\ UNCHANGED <<standing, staff, event, intake, form>>

AssignmentsNext ==
    \/ TaskChanges \/ StaffChanges \/ Expire
    \/ \E f \in Forms : TakeIn(f) \/ Assign(f) \/ FillForm(f) \/ Revise(f)
AssignmentsSpec == AssignmentsInit /\ [][AssignmentsNext]_assignmentVars

----------------------------------------------------------------------------
AssignmentsTypeOK ==
    /\ standing \in [Tasks -> Standings] /\ staff \subseteq Admins
    /\ assignment \in [Assignments -> Rows \cup {NoAssignment}]
    /\ event \in [Assignments -> [count : 0 .. MaxRevision, last : Rows \cup {NoAssignment}]]
    /\ intake \in [Forms -> [task : Tasks, to : Admins] \cup {[task |-> Unfilled]}]
    /\ form \in [Forms -> [id : Assignments, version : 1 .. MaxRevision]
                            \cup {[id |-> Unfilled]}]

\* services/inbox.py: an active assignment stands for its task; a task without
\* one stands for itself while it is listed.
InboxItems(t) == Holders(t) \cup (IF AwaitsSomebody(t) /\ Holders(t) = {} THEN {t} ELSE {})

\* Every task that is listed or that somebody answers for is in the inbox exactly
\* once, and every other not at all, whatever creations, reassignments and
\* reopenings cross; an assignment that closed has no snooze left that would hide
\* it when it is opened again; the events of an assignment count its versions and
\* end in its row, up to the snooze running out.
InboxAccounts ==
    /\ \A t \in Tasks : Cardinality(InboxItems(t)) = (IF AwaitsSomebody(t) \/ Holders(t) # {} THEN 1 ELSE 0)
    /\ \A i \in Assignments : Exists(i) =>
          /\ assignment[i].snoozed => Answers(i)
          /\ assignment[i].version = event[i].count
          /\ assignment[i] \in {event[i].last, [event[i].last EXCEPT !.snoozed = FALSE]}

\* Assignments implement the abstract ownership of tasks: two creations, or a
\* creation and a reopening, never leave two assignments responsible.
Ownership == INSTANCE TaskOwnership
    WITH responsible <- [t \in Tasks |-> {<<i, assignment[i].to>> : i \in Holders(t)}]
OwnershipImplemented == Ownership!OwnershipSpec
=============================================================================
