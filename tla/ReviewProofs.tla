----------------------------- MODULE ReviewProofs -----------------------------
(***************************************************************************)
(* Proofs about what administrators work through: the accounts of the      *)
(* inbox, and that assignments implement TaskOwnership; the findings about *)
(* unreachable URLs; and the walk through a list that changes. For any     *)
(* number of tasks, assignments, administrators, forms, fields and URLs.   *)
(***************************************************************************)
EXTENDS Assignments, UrlChecks, CursorPages, FiniteSetTheorems, TLAPS

USE UnfilledAssumption, RevisionBound

----------------------------------------------------------------------------
(* The inductive invariant: no two assignments answer for a task, which the *)
(* accounts of the inbox need, and the events follow every row.             *)

OneHolder ==
    \A i, j \in Assignments :
        Answers(i) /\ Answers(j) /\ assignment[i].task = assignment[j].task => i = j

\* A form is filled from a row, and rows are never deleted.
FormsOfRows == \A f \in Forms : form[f].id # Unfilled => Exists(form[f].id)

RowLogged(i) ==
    IF Exists(i)
    THEN /\ assignment[i].snoozed => assignment[i].status \in OPEN
         /\ event[i].count = assignment[i].version
         /\ assignment[i] \in {event[i].last, [event[i].last EXCEPT !.snoozed = FALSE]}
    ELSE event[i] = [count |-> 0, last |-> NoAssignment]
RowsLogged == \A i \in Assignments : RowLogged(i)

AssignmentsInv == AssignmentsTypeOK /\ OneHolder /\ FormsOfRows /\ RowsLogged

----------------------------------------------------------------------------
LEMMA RowsExist == \A r \in Rows : r # NoAssignment
  BY DEF Rows, NoAssignment

\* A row that exists has the fields of one.
LEMMA ExistingRow ==
    ASSUME AssignmentsTypeOK, NEW i \in Assignments
    PROVE  Exists(i) <=> assignment[i] \in Rows
  BY RowsExist DEF AssignmentsTypeOK, Exists

LEMMA AssignmentsInvInit == AssignmentsInit => AssignmentsInv
<1> SUFFICES ASSUME AssignmentsInit PROVE AssignmentsInv
  OBVIOUS
<1>1. 0 \in 0 .. MaxRevision
  OBVIOUS
<1>2. AssignmentsTypeOK
  BY <1>1 DEF AssignmentsInit, AssignmentsTypeOK
<1>3. \A i \in Assignments : ~ Exists(i)
  BY DEF AssignmentsInit, Exists
<1>4. OneHolder /\ FormsOfRows /\ RowsLogged
  BY <1>3 DEF AssignmentsInit, OneHolder, FormsOfRows, RowsLogged, RowLogged, Answers
<1>5. QED
  BY <1>2, <1>4 DEF AssignmentsInv

\* Saving a new version that the unique indexes accept.
LEMMA SavesInv ==
    ASSUME AssignmentsInv, NEW i \in Assignments, NEW new \in Rows, Saves(i, new),
           new.snoozed => new.status \in OPEN,
           new.version = IF Exists(i) THEN assignment[i].version + 1 ELSE 1,
           UniqueAfter(i, new)
    PROVE  /\ assignment' \in [Assignments -> Rows \cup {NoAssignment}]
           /\ event' \in [Assignments -> [count : 0 .. MaxRevision, last : Rows \cup {NoAssignment}]]
           /\ OneHolder' /\ RowsLogged'
           /\ \A j \in Assignments : Exists(j) => Exists(j)'
<1> USE DEF AssignmentsInv
<1>1. /\ assignment'[i] = new /\ event'[i] = [count |-> event[i].count + 1, last |-> new]
      /\ \A j \in Assignments \ {i} : assignment'[j] = assignment[j] /\ event'[j] = event[j]
  BY DEF Saves, AssignmentsTypeOK
<1>2. assignment' \in [Assignments -> Rows \cup {NoAssignment}]
  BY DEF Saves, AssignmentsTypeOK
<1>3. event[i].count + 1 = new.version
  <2>1. CASE Exists(i)
    BY <2>1 DEF RowsLogged, RowLogged
  <2>2. CASE ~ Exists(i)
    BY <2>2 DEF RowsLogged, RowLogged
  <2>3. QED
    BY <2>1, <2>2
<1>4. event' \in [Assignments -> [count : 0 .. MaxRevision, last : Rows \cup {NoAssignment}]]
  <2>1. new.version \in 0 .. MaxRevision
    BY DEF Rows
  <2>2. [count |-> new.version, last |-> new]
            \in [count : 0 .. MaxRevision, last : Rows \cup {NoAssignment}]
    BY <2>1
  <2>3. QED
    BY <1>3, <2>2 DEF Saves, AssignmentsTypeOK
<1>5. Exists(i)' /\ \A j \in Assignments \ {i} : Exists(j)' = Exists(j)
  BY <1>1, RowsExist DEF Exists
<1>6. OneHolder'
  <2>1. \A j \in Assignments \ {i} : Answers(j)' = Answers(j)
    BY <1>1, <1>5 DEF Answers
  <2>2. Answers(i)' => \A j \in Assignments \ {i} : Answers(j) => assignment[j].task # new.task
    BY <1>1 DEF UniqueAfter, Holders, Answers
  <2>3. QED
    BY <2>1, <2>2, <1>1 DEF OneHolder
<1>7. RowsLogged'
  <2>1. RowLogged(i)'
    BY <1>1, <1>3, <1>5 DEF RowLogged
  <2>2. \A j \in Assignments \ {i} : RowLogged(j)'
    BY <1>1, <1>5 DEF RowsLogged, RowLogged
  <2>3. QED
    BY <2>1, <2>2 DEF RowsLogged
<1>8. QED
  BY <1>2, <1>4, <1>5, <1>6, <1>7

LEMMA RowOf ==
    ASSUME NEW t \in Tasks, NEW a \in Admins, NEW st \in OPEN \cup CLOSED, NEW z \in BOOLEAN,
           NEW v \in 1 .. MaxRevision
    PROVE  [task |-> t, to |-> a, status |-> st, snoozed |-> z, version |-> v] \in Rows
  BY DEF Rows

\* What a patch makes of a row.
LEMMA PatchedRow ==
    ASSUME NEW old \in Rows, NEW status \in OPEN \cup CLOSED, NEW to \in Admins, NEW snooze,
           old.version < MaxRevision,
           NEW new, new = Patched(old, status, to, snooze),
           NEW next, next = NextVersion(new)
    PROVE  /\ next \in Rows /\ next.version = old.version + 1
           /\ next.task = old.task /\ next.status = status /\ next.to = to
           /\ new.task = old.task /\ new.status = status
           /\ next.snoozed => status \in OPEN
<1> DEFINE snoozed == status \in OPEN /\ (snooze = "set" \/ (snooze = "keep" /\ old.snoozed))
<1>1. old = [task |-> old.task, to |-> old.to, status |-> old.status, snoozed |-> old.snoozed,
             version |-> old.version]
  BY DEF Rows
<1>2. new = [task |-> old.task, to |-> to, status |-> status, snoozed |-> snoozed,
             version |-> old.version]
  BY <1>1 DEF Patched, Rows
<1>3. snoozed \in BOOLEAN /\ (snoozed => status \in OPEN)
  BY DEF Rows
<1> HIDE DEF snoozed
<1>4. next = [task |-> old.task, to |-> to, status |-> status, snoozed |-> snoozed,
              version |-> old.version + 1]
  BY <1>2 DEF NextVersion
<1>5. old.version + 1 \in 1 .. MaxRevision
  BY DEF Rows
<1>6. next \in Rows
  <2>1. old.task \in Tasks
    BY DEF Rows
  <2>2. [task |-> old.task, to |-> to, status |-> status, snoozed |-> snoozed,
         version |-> old.version + 1] \in Rows
    BY <1>3, <1>5, <2>1, RowOf
  <2>3. QED
    BY <1>4, <2>2
<1>7. QED
  BY <1>2, <1>3, <1>4, <1>6

----------------------------------------------------------------------------
\* What an update saves of a row, if anything.
Revised(i, next) ==
    /\ i \in Assignments /\ assignment[i] \in Rows
    /\ next \in Rows /\ next.version = assignment[i].version + 1
    /\ next.task = assignment[i].task
    /\ next.snoozed => next.status \in OPEN
    /\ UniqueAfter(i, next)
    /\ Saves(i, next)

LEMMA RevisionSaves ==
    ASSUME AssignmentsInv, NEW i \in Assignments, Exists(i),
           NEW given \in OPEN \cup CLOSED \cup {"keep"}, NEW to \in staff, NEW snooze,
           Revision(i, given, to, snooze)
    PROVE  \E next : Revised(i, next)
<1> DEFINE status == IF given = "keep" THEN assignment[i].status ELSE given
           new == Patched(assignment[i], status, to, snooze)
           next == NextVersion(new)
<1>1. assignment[i] \in Rows
  BY ExistingRow DEF AssignmentsInv
<1>2. assignment[i].version < MaxRevision /\ UniqueAfter(i, new) /\ Saves(i, next)
  BY DEF Revision
<1>3. status \in OPEN \cup CLOSED /\ to \in Admins
  BY <1>1 DEF Rows, AssignmentsInv, AssignmentsTypeOK
<1> HIDE DEF status
<1>4. /\ next \in Rows /\ next.version = assignment[i].version + 1
      /\ next.task = assignment[i].task /\ next.status = status
      /\ new.task = assignment[i].task /\ new.status = status
      /\ next.snoozed => status \in OPEN
  <2> DEFINE old == assignment[i]
  <2>1. old \in Rows /\ old.version < MaxRevision
    BY <1>1, <1>2
  <2>2. new = Patched(old, status, to, snooze) /\ next = NextVersion(new)
    OBVIOUS
  <2> HIDE DEF old, new, next
  <2>3. /\ next \in Rows /\ next.version = old.version + 1
        /\ next.task = old.task /\ next.status = status
        /\ new.task = old.task /\ new.status = status
        /\ next.snoozed => status \in OPEN
    BY <1>3, <2>1, <2>2, PatchedRow
  <2>4. QED
    BY <2>3 DEF old
<1> HIDE DEF new, next
<1>5. UniqueAfter(i, next)
  BY <1>2, <1>4 DEF UniqueAfter
<1>6. Revised(i, next)
  BY <1>1, <1>2, <1>4, <1>5 DEF Revised
<1>7. QED
  BY <1>6

LEMMA ReviseSaves ==
    ASSUME AssignmentsInv, NEW f \in Forms, Revise(f)
    PROVE  \/ UNCHANGED <<assignment, event>>
           \/ \E i \in Assignments : \E next : Revised(i, next)
<1>1. form[f].id \in Assignments /\ Exists(form[f].id)
  BY DEF AssignmentsInv, AssignmentsTypeOK, FormsOfRows, Revise
<1>2. QED
  BY <1>1, RevisionSaves DEF Revise

\* A creation under the lock makes a first version of a row that was free.
LEMMA AssignSaves ==
    ASSUME AssignmentsInv, NEW f \in Forms, Assign(f)
    PROVE  \/ UNCHANGED <<assignment, event>>
           \/ \E i \in Assignments, new \in Rows :
                 /\ ~ Exists(i) /\ Saves(i, new) /\ Holders(new.task) = {}
                 /\ new.version = 1 /\ ~ new.snoozed
<1>1. SUFFICES ASSUME ~ UNCHANGED <<assignment, event>>
               PROVE  \E i \in Assignments, new \in Rows :
                         /\ ~ Exists(i) /\ Saves(i, new) /\ Holders(new.task) = {}
                         /\ new.version = 1 /\ ~ new.snoozed
  OBVIOUS
<1>2. intake[f].task \in Tasks /\ intake[f].to \in Admins
  BY DEF Assign, AssignmentsInv, AssignmentsTypeOK
<1>3. PICK i \in Assignments, st \in OPEN :
         /\ ~ Exists(i) /\ Holders(intake[f].task) = {}
         /\ Saves(i, [task |-> intake[f].task, to |-> intake[f].to, status |-> st,
                      snoozed |-> FALSE, version |-> 1])
  BY <1>1 DEF Assign
<1>4. [task |-> intake[f].task, to |-> intake[f].to, status |-> st, snoozed |-> FALSE,
       version |-> 1] \in Rows
  BY <1>2 DEF Rows
<1>5. QED
  BY <1>3, <1>4

----------------------------------------------------------------------------
\* The invariant looks at nothing but rows, events and forms.
LEMMA AssignmentsInvNext ==
    AssignmentsInv /\ [AssignmentsNext]_assignmentVars => AssignmentsInv'
<1> SUFFICES ASSUME AssignmentsInv, [AssignmentsNext]_assignmentVars
             PROVE  AssignmentsInv'
  OBVIOUS
<1>a. AssignmentsTypeOK
  BY DEF AssignmentsInv
<1>b. ASSUME UNCHANGED <<assignment, event, form>>, standing' \in [Tasks -> Standings],
             staff' \subseteq Admins,
             intake' \in [Forms -> [task : Tasks, to : Admins] \cup {[task |-> Unfilled]}]
      PROVE  AssignmentsInv'
  BY <1>b DEF AssignmentsInv, AssignmentsTypeOK, OneHolder, FormsOfRows, RowsLogged, RowLogged,
     Answers, Exists
<1>c. ASSUME NEW i \in Assignments, NEW new \in Rows, Saves(i, new),
             new.snoozed => new.status \in OPEN,
             new.version = IF Exists(i) THEN assignment[i].version + 1 ELSE 1,
             UniqueAfter(i, new), UNCHANGED <<standing, staff>>,
             intake' \in [Forms -> [task : Tasks, to : Admins] \cup {[task |-> Unfilled]}],
             form' = form \/ \E f \in Forms : form' = [form EXCEPT ![f] = [id |-> Unfilled]]
      PROVE  AssignmentsInv'
  <2>1. /\ assignment' \in [Assignments -> Rows \cup {NoAssignment}]
        /\ event' \in [Assignments -> [count : 0 .. MaxRevision, last : Rows \cup {NoAssignment}]]
        /\ OneHolder' /\ RowsLogged'
        /\ \A j \in Assignments : Exists(j) => Exists(j)'
    BY <1>c, SavesInv
  <2>2. AssignmentsTypeOK'
    BY <1>a, <1>c, <2>1 DEF AssignmentsTypeOK
  <2>3. \A f \in Forms : form'[f] = form[f] \/ form'[f].id = Unfilled
    BY <1>a, <1>c DEF AssignmentsTypeOK
  <2>4. FormsOfRows'
    <3> SUFFICES ASSUME NEW f \in Forms, form'[f].id # Unfilled
                 PROVE  assignment'[form'[f].id] # NoAssignment
      BY DEF FormsOfRows, Exists
    <3>1. form'[f] = form[f] /\ Exists(form[f].id)
      BY <2>3 DEF AssignmentsInv, FormsOfRows
    <3>2. form[f].id \in Assignments
      BY <1>a, <3>1 DEF AssignmentsTypeOK
    <3>3. assignment'[form[f].id] # NoAssignment
      BY <2>1, <3>1, <3>2 DEF Exists
    <3>4. QED
      BY <3>1, <3>3
  <2>5. QED
    BY <2>1, <2>2, <2>4 DEF AssignmentsInv
<1>1. ASSUME NEW f \in Forms, TakeIn(f) PROVE AssignmentsInv'
  <2>1. PICK t \in Tasks, a \in Admins : intake' = [intake EXCEPT ![f] = [task |-> t, to |-> a]]
    BY <1>1, <1>a DEF TakeIn, AssignmentsTypeOK
  <2>2. intake' \in [Forms -> [task : Tasks, to : Admins] \cup {[task |-> Unfilled]}]
    BY <1>a, <2>1 DEF AssignmentsTypeOK
  <2>3. QED
    BY <1>1, <1>a, <1>b, <2>2 DEF TakeIn, AssignmentsTypeOK
<1>2. ASSUME NEW f \in Forms, Assign(f) PROVE AssignmentsInv'
  <2>1. intake' \in [Forms -> [task : Tasks, to : Admins] \cup {[task |-> Unfilled]}]
    BY <1>2, <1>a DEF Assign, AssignmentsTypeOK
  <2>2. CASE UNCHANGED <<assignment, event>>
    BY <1>2, <1>a, <1>b, <2>1, <2>2 DEF Assign, AssignmentsTypeOK
  <2>3. CASE \E i \in Assignments, new \in Rows :
                 /\ ~ Exists(i) /\ Saves(i, new) /\ Holders(new.task) = {}
                 /\ new.version = 1 /\ ~ new.snoozed
    BY <1>2, <1>c, <2>1, <2>3 DEF Assign, UniqueAfter
  <2>4. QED
    BY <1>2, <2>2, <2>3, AssignSaves
<1>3. ASSUME NEW f \in Forms, FillForm(f) PROVE AssignmentsInv'
  <2>1. PICK i \in Assignments :
          Exists(i) /\ form' = [form EXCEPT ![f] = [id |-> i, version |-> assignment[i].version]]
    BY <1>3 DEF FillForm
  <2>2. assignment[i].version \in 1 .. MaxRevision
    BY <1>a, <2>1, ExistingRow DEF Rows
  <2>3. form' \in [Forms -> [id : Assignments, version : 1 .. MaxRevision]
                            \cup {[id |-> Unfilled]}]
    BY <1>a, <2>1, <2>2 DEF AssignmentsTypeOK
  <2>4. FormsOfRows'
    BY <1>3, <1>a, <2>1 DEF FillForm, AssignmentsInv, AssignmentsTypeOK, FormsOfRows, Exists
  <2>5. QED
    BY <1>3, <1>a, <2>3, <2>4 DEF FillForm, AssignmentsInv, AssignmentsTypeOK, OneHolder,
       RowsLogged, RowLogged, Answers, Exists
<1>4. ASSUME NEW f \in Forms, Revise(f) PROVE AssignmentsInv'
  <2>1. CASE UNCHANGED <<assignment, event>>
    <3>1. form' \in [Forms -> [id : Assignments, version : 1 .. MaxRevision]
                              \cup {[id |-> Unfilled]}]
      BY <1>4, <1>a DEF Revise, AssignmentsTypeOK
    <3>2. FormsOfRows'
      BY <1>4, <1>a, <2>1 DEF Revise, AssignmentsInv, AssignmentsTypeOK, FormsOfRows, Exists
    <3>3. QED
      BY <1>4, <1>a, <2>1, <3>1, <3>2 DEF Revise, AssignmentsInv, AssignmentsTypeOK, OneHolder,
         RowsLogged, RowLogged, Answers, Exists
  <2>2. CASE \E i \in Assignments : \E next : Revised(i, next)
    <3>1. PICK i, next : i \in Assignments /\ Revised(i, next)
      BY <2>2
    <3>2. Exists(i)
      BY <1>a, <3>1, ExistingRow DEF Revised
    <3>3. QED
      BY <1>4, <1>a, <1>c, <3>1, <3>2 DEF Revise, Revised, AssignmentsTypeOK
  <2>3. QED
    BY <1>4, <2>1, <2>2, ReviseSaves
<1>5. CASE TaskChanges
  BY <1>5, <1>a, <1>b DEF TaskChanges, AssignmentsTypeOK
<1>6. CASE StaffChanges
  BY <1>6, <1>a, <1>b DEF StaffChanges, AssignmentsTypeOK
<1>7. CASE Expire
  <2>1. PICK i \in Assignments : /\ Answers(i) /\ assignment[i].snoozed
                                 /\ assignment' = [assignment EXCEPT ![i].snoozed = FALSE]
    BY <1>7 DEF Expire
  <2>2. assignment[i] \in Rows
    BY <1>a, <2>1, ExistingRow DEF Answers
  <2>3. PICK new \in Rows : new = [assignment[i] EXCEPT !.snoozed = FALSE]
    BY <2>2 DEF Rows
  <2>4. /\ new.task = assignment[i].task /\ new.status = assignment[i].status
        /\ new.version = assignment[i].version /\ ~ new.snoozed
    BY <2>2, <2>3 DEF Rows
  <2>5. assignment'[i] = new /\ \A j \in Assignments \ {i} : assignment'[j] = assignment[j]
    BY <1>a, <2>1, <2>3 DEF AssignmentsTypeOK
  <2>6. assignment' \in [Assignments -> Rows \cup {NoAssignment}]
    BY <1>a, <2>1, <2>3 DEF AssignmentsTypeOK
  <2>7. \A j \in Assignments : Exists(j)' = Exists(j) /\ Answers(j)' = Answers(j)
    BY <2>1, <2>4, <2>5, RowsExist DEF Exists, Answers
  <2>8. RowsLogged'
    <3>1. \A j \in Assignments \ {i} : RowLogged(j)'
      BY <1>7, <2>5, <2>7 DEF Expire, AssignmentsInv, RowsLogged, RowLogged
    <3>2. new \in {event[i].last, [event[i].last EXCEPT !.snoozed = FALSE]}
      <4>1. event[i].last \in Rows \cup {NoAssignment}
        BY <1>a DEF AssignmentsTypeOK
      <4>2. assignment[i] \in {event[i].last, [event[i].last EXCEPT !.snoozed = FALSE]}
        BY <2>1 DEF AssignmentsInv, RowsLogged, RowLogged, Answers
      <4>3. event[i].last # NoAssignment
        BY <2>2, <4>2 DEF NoAssignment, Rows
      <4>4. QED
        BY <2>3, <4>1, <4>2, <4>3 DEF Rows
    <3>3. RowLogged(i)'
      BY <1>7, <2>1, <2>4, <2>5, <2>7, <3>2 DEF Expire, AssignmentsInv, RowsLogged, RowLogged, Answers
    <3>4. QED
      BY <3>1, <3>3 DEF RowsLogged
  <2>9. OneHolder'
    BY <2>4, <2>5, <2>7 DEF AssignmentsInv, OneHolder
  <2>10. FormsOfRows'
    BY <1>7, <1>a, <2>7 DEF Expire, AssignmentsInv, AssignmentsTypeOK, FormsOfRows
  <2>11. QED
    BY <1>7, <1>a, <2>6, <2>8, <2>9, <2>10 DEF Expire, AssignmentsInv, AssignmentsTypeOK
<1>8. CASE UNCHANGED assignmentVars
  BY <1>8, <1>a, <1>b DEF assignmentVars, AssignmentsTypeOK
<1>9. QED
  BY <1>1, <1>2, <1>3, <1>4, <1>5, <1>6, <1>7, <1>8 DEF AssignmentsNext

LEMMA AssignmentsInvariance == AssignmentsSpec => []AssignmentsInv
  BY AssignmentsInvInit, AssignmentsInvNext, PTL DEF AssignmentsSpec

\* Every row, event, form and creation under way is one the code can hold; in
\* particular no assignment is saved under a version beyond its bound.
THEOREM AssignmentsTypeCorrect == AssignmentsSpec => []AssignmentsTypeOK
<1>1. AssignmentsInv => AssignmentsTypeOK
  BY DEF AssignmentsInv
<1>2. QED
  BY <1>1, AssignmentsInvariance, PTL

----------------------------------------------------------------------------
(* The inbox. *)

\* A task has no holder, or one.
LEMMA HoldersOf ==
    ASSUME AssignmentsInv, NEW t
    PROVE  Holders(t) = {} \/ \E i \in Assignments : Holders(t) = {i}
  BY DEF AssignmentsInv, OneHolder, Holders

\* Every task that is listed or assigned is in the inbox exactly once, a closed
\* assignment keeps no snooze, and the events of an assignment end in its row,
\* for any number of forms and administrators that cross.
THEOREM InboxCorrect == AssignmentsSpec => []InboxAccounts
<1>1. AssignmentsInv => InboxAccounts
  <2> SUFFICES ASSUME AssignmentsInv PROVE InboxAccounts
    OBVIOUS
  <2>1. ASSUME NEW t \in Tasks
        PROVE Cardinality(InboxItems(t)) = (IF AwaitsSomebody(t) \/ Holders(t) # {} THEN 1 ELSE 0)
    <3>1. CASE Holders(t) = {} /\ AwaitsSomebody(t)
      <4>1. InboxItems(t) = {t}
        BY <3>1 DEF InboxItems
      <4>2. QED
        BY <3>1, <4>1, FS_Singleton
    <3>2. CASE Holders(t) = {} /\ ~ AwaitsSomebody(t)
      <4>1. InboxItems(t) = {}
        BY <3>2 DEF InboxItems
      <4>2. QED
        BY <3>2, <4>1, FS_EmptySet
    <3>3. CASE \E i \in Assignments : Holders(t) = {i}
      <4>1. PICK i \in Assignments : Holders(t) = {i}
        BY <3>3
      <4>2. InboxItems(t) = {i}
        BY <4>1 DEF InboxItems
      <4>3. QED
        BY <4>1, <4>2, FS_Singleton
    <3>4. QED
      BY <3>1, <3>2, <3>3, HoldersOf
  <2>2. ASSUME NEW i \in Assignments, Exists(i)
        PROVE  /\ assignment[i].snoozed => Answers(i)
               /\ assignment[i].version = event[i].count
               /\ assignment[i] \in {event[i].last, [event[i].last EXCEPT !.snoozed = FALSE]}
    BY <2>2 DEF AssignmentsInv, RowsLogged, RowLogged, Answers
  <2>3. QED
    BY <2>1, <2>2 DEF InboxAccounts
<1>2. QED
  BY <1>1, AssignmentsInvariance, PTL

----------------------------------------------------------------------------
(* The refinement. *)

\* What the abstract specification sees of the rows.
Responsible == [t \in Tasks |-> {<<i, assignment[i].to>> : i \in Holders(t)}]

LEMMA UnsavedRests ==
    ASSUME \A i \in Assignments : /\ Answers(i)' = Answers(i)
                                  /\ Answers(i) => /\ assignment'[i].task = assignment[i].task
                                                   /\ assignment'[i].to = assignment[i].to
    PROVE  Responsible' = Responsible
<1>1. ASSUME NEW t \in Tasks
      PROVE  {<<i, assignment[i].to>> : i \in Holders(t)}' = {<<i, assignment[i].to>> : i \in Holders(t)}
  <2>1. Holders(t)' = Holders(t) /\ \A i \in Holders(t) : assignment'[i].to = assignment[i].to
    BY DEF Holders
  <2>2. QED
    BY <2>1
<1>2. QED
  BY <1>1 DEF Responsible

\* Saving a row of task t leaves the other tasks' responsibility alone and gives
\* t to its assignment or takes it from it.
LEMMA SavedResponsible ==
    ASSUME AssignmentsInv, NEW i \in Assignments, NEW new \in Rows, Saves(i, new),
           Exists(i) => assignment[i].task = new.task, UniqueAfter(i, new)
    PROVE  /\ Holders(new.task) = IF Answers(i) THEN {i} ELSE Holders(new.task) \ {i}
           /\ new.status \in OPEN => Holders(new.task) \subseteq {i}
           /\ Responsible' = [Responsible EXCEPT ![new.task] =
                IF new.status \in OPEN THEN {<<i, new.to>>}
                ELSE {<<j, assignment[j].to>> : j \in Holders(new.task) \ {i}}]
<1> DEFINE t == new.task
<1>1. t \in Tasks /\ (Answers(i) => i \in Holders(t))
  BY DEF Rows, Holders, Answers
<1>2. Holders(t) = IF Answers(i) THEN {i} ELSE Holders(t) \ {i}
  <2>1. CASE Answers(i)
    BY <1>1, <2>1, HoldersOf
  <2>2. CASE ~ Answers(i)
    BY <2>2 DEF Holders
  <2>3. QED
    BY <2>1, <2>2
<1>3. new.status \in OPEN => Holders(t) \subseteq {i}
  BY DEF UniqueAfter
<1>4. /\ assignment'[i] = new /\ \A j \in Assignments \ {i} : assignment'[j] = assignment[j]
      /\ Answers(i)' = (new.status \in OPEN)
  BY RowsExist DEF Saves, AssignmentsInv, AssignmentsTypeOK, Answers, Exists
<1>5. \A j \in Assignments \ {i} : Answers(j)' = Answers(j)
  BY <1>4 DEF Answers, Exists
<1>6. \A u \in Tasks \ {t} : Holders(u)' = Holders(u) /\ i \notin Holders(u)
  BY <1>4, <1>5 DEF Holders, Answers
<1>7. Holders(t)' = IF new.status \in OPEN THEN {i} ELSE Holders(t) \ {i}
  BY <1>3, <1>4, <1>5 DEF Holders
<1> HIDE DEF t
<1>8. \A u \in Tasks \ {t} : Responsible'[u] = Responsible[u]
  BY <1>4, <1>6 DEF Responsible, Holders
<1>9. Responsible'[t] = IF new.status \in OPEN THEN {<<i, new.to>>}
                        ELSE {<<j, assignment[j].to>> : j \in Holders(t) \ {i}}
  <2>1. CASE new.status \in OPEN
    BY <1>1, <1>4, <1>7, <2>1 DEF Responsible
  <2>2. CASE new.status \notin OPEN
    <3>1. Holders(t)' = Holders(t) \ {i}
      BY <1>7, <2>2
    <3>2. \A j \in Holders(t) \ {i} : assignment'[j].to = assignment[j].to
      BY <1>4 DEF Holders
    <3>3. QED
      BY <1>1, <2>2, <3>1, <3>2 DEF Responsible
  <2>3. QED
    BY <2>1, <2>2
<1>10. Responsible' = [Responsible EXCEPT ![t] =
          IF new.status \in OPEN THEN {<<i, new.to>>}
          ELSE {<<j, assignment[j].to>> : j \in Holders(t) \ {i}}]
  BY <1>1, <1>8, <1>9 DEF Responsible
<1>11. QED
  BY <1>2, <1>3, <1>10 DEF t

OwnershipStep == [Ownership!OwnershipNext]_Responsible

\* So it is a step of the abstract specification: taking, passing on or giving up.
LEMMA SavedIsOwnership ==
    ASSUME AssignmentsInv, NEW i \in Assignments, NEW new \in Rows, Saves(i, new),
           Exists(i) => assignment[i].task = new.task, UniqueAfter(i, new)
    PROVE  OwnershipStep
<1> DEFINE t == new.task
<1>1. SUFFICES ASSUME Responsible' # Responsible
               PROVE  Ownership!Take(t) \/ Ownership!PassOn(t) \/ Ownership!GiveUp(t)
  <2>1. t \in Tasks
    BY DEF Rows
  <2>2. QED
    BY <1>1, <2>1 DEF OwnershipStep, Ownership!OwnershipNext, Responsible
<1>2. new.to \in Admins /\ t \in Tasks
  BY DEF Rows
<1>3. /\ Holders(t) = IF Answers(i) THEN {i} ELSE Holders(t) \ {i}
      /\ new.status \in OPEN => Holders(t) \subseteq {i}
      /\ Responsible' = [Responsible EXCEPT ![t] =
            IF new.status \in OPEN THEN {<<i, new.to>>}
            ELSE {<<j, assignment[j].to>> : j \in Holders(t) \ {i}}]
  BY SavedResponsible
<1>4. Responsible[t] = {<<j, assignment[j].to>> : j \in Holders(t)}
  BY <1>2 DEF Responsible
<1>5. Answers(i) => assignment[i].to \in Admins
  BY ExistingRow DEF Answers, AssignmentsInv, Rows
<1> HIDE DEF t
<1>6. CASE Answers(i) /\ new.status \in OPEN
  <2>1. Responsible[t] = {<<i, assignment[i].to>>}
    BY <1>3, <1>4, <1>6
  <2>2. Responsible' = [Responsible EXCEPT ![t] = {<<i, new.to>>}]
    BY <1>3, <1>6
  <2>3. new.to # assignment[i].to
    BY <1>1, <2>1, <2>2 DEF Responsible
  <2>4. \E j \in Assignments, a \in Admins :
           /\ Responsible[t] = {<<j, a>>}
           /\ \E b \in Admins \ {a} : Responsible' = [Responsible EXCEPT ![t] = {<<j, b>>}]
    BY <1>2, <1>5, <1>6, <2>1, <2>2, <2>3
  <2>5. Ownership!PassOn(t)
    BY <2>4 DEF Ownership!PassOn, Responsible
  <2>6. QED
    BY <2>5
<1>7. CASE Answers(i) /\ new.status \notin OPEN
  <2>1. Responsible[t] = {<<i, assignment[i].to>>}
    BY <1>3, <1>4, <1>7
  <2>2. Responsible' = [Responsible EXCEPT ![t] = {}]
    BY <1>3, <1>7
  <2>3. Ownership!GiveUp(t)
    BY <1>5, <1>7, <2>1, <2>2 DEF Ownership!GiveUp, Responsible
  <2>4. QED
    BY <2>3
<1>8. CASE ~ Answers(i) /\ new.status \in OPEN
  <2>1. Responsible[t] = {}
    BY <1>3, <1>4, <1>8
  <2>2. Responsible' = [Responsible EXCEPT ![t] = {<<i, new.to>>}]
    BY <1>3, <1>8
  <2>3. Ownership!Take(t)
    BY <1>2, <2>1, <2>2 DEF Ownership!Take, Responsible
  <2>4. QED
    BY <2>3
<1>9. CASE ~ Answers(i) /\ new.status \notin OPEN
  <2>1. Responsible' = [Responsible EXCEPT ![t] = Responsible[t]]
    BY <1>3, <1>4, <1>9
  <2>2. QED
    BY <1>1, <2>1 DEF Responsible
<1>10. QED
  BY <1>6, <1>7, <1>8, <1>9

LEMMA UnsavedIsOwnership == ASSUME UNCHANGED assignment PROVE OwnershipStep
  BY UnsavedRests DEF OwnershipStep, Answers, Exists

\* Assignments implement the ownership of tasks: whatever creations, forms and
\* reopenings cross, every step takes one task that nobody holds, passes one on,
\* gives one up, or changes nobody's responsibility.
THEOREM OwnershipCorrect == AssignmentsSpec => OwnershipImplemented
<1>1. AssignmentsInit => Ownership!OwnershipInit
  BY DEF AssignmentsInit, Ownership!OwnershipInit, Holders, Answers, Exists
<1>2. AssignmentsInv /\ [AssignmentsNext]_assignmentVars => OwnershipStep
  <2> SUFFICES ASSUME AssignmentsInv, [AssignmentsNext]_assignmentVars
               PROVE  OwnershipStep
    OBVIOUS
  <2>1. ASSUME NEW f \in Forms, TakeIn(f) \/ FillForm(f) PROVE OwnershipStep
    BY <2>1, UnsavedIsOwnership DEF TakeIn, FillForm
  <2>2. ASSUME NEW f \in Forms, Assign(f) PROVE OwnershipStep
    <3>1. CASE UNCHANGED <<assignment, event>>
      BY <3>1, UnsavedIsOwnership
    <3>2. CASE \E i \in Assignments, new \in Rows :
                  /\ ~ Exists(i) /\ Saves(i, new) /\ Holders(new.task) = {}
                  /\ new.version = 1 /\ ~ new.snoozed
      BY <3>2, SavedIsOwnership DEF UniqueAfter
    <3>3. QED
      BY <2>2, <3>1, <3>2, AssignSaves
  <2>3. ASSUME NEW f \in Forms, Revise(f) PROVE OwnershipStep
    <3>1. CASE UNCHANGED <<assignment, event>>
      BY <3>1, UnsavedIsOwnership
    <3>2. CASE \E i \in Assignments : \E next : Revised(i, next)
      BY <3>2, SavedIsOwnership DEF Revised
    <3>3. QED
      BY <2>3, <3>1, <3>2, ReviseSaves
  <2>4. CASE TaskChanges \/ StaffChanges
    BY <2>4, UnsavedIsOwnership DEF TaskChanges, StaffChanges
  <2>5. CASE Expire
    <3>1. PICK i \in Assignments : /\ Answers(i)
                                   /\ assignment' = [assignment EXCEPT ![i].snoozed = FALSE]
      BY <2>5 DEF Expire
    <3>2. assignment[i] \in Rows
      BY <3>1, ExistingRow DEF Answers, AssignmentsInv
    <3>3. PICK new \in Rows : new = [assignment[i] EXCEPT !.snoozed = FALSE]
      BY <3>2 DEF Rows
    <3>4. new.task = assignment[i].task /\ new.status = assignment[i].status /\ new.to = assignment[i].to
      BY <3>2, <3>3 DEF Rows
    <3>5. assignment'[i] = new /\ \A j \in Assignments \ {i} : assignment'[j] = assignment[j]
      BY <3>1, <3>3 DEF AssignmentsInv, AssignmentsTypeOK
    <3>6. Responsible' = Responsible
      BY <3>1, <3>4, <3>5, RowsExist, UnsavedRests DEF Answers, Exists
    <3>7. QED
      BY <3>6 DEF OwnershipStep
  <2>6. CASE UNCHANGED assignmentVars
    BY <2>6, UnsavedIsOwnership DEF assignmentVars
  <2>7. QED
    BY <2>1, <2>2, <2>3, <2>4, <2>5, <2>6 DEF AssignmentsNext
<1>3. QED
  BY <1>1, <1>2, AssignmentsInvariance, PTL
     DEF AssignmentsSpec, OwnershipImplemented, Ownership!OwnershipSpec, OwnershipStep, Responsible

----------------------------------------------------------------------------
(* URL checks: the failures a row counts are those of its URL.             *)

Places == {"none", "read", "waiting", "queued", "entered", "asking", "pausing"}
UrlTypeOK ==
    /\ source \in [Fields -> Urls \cup {NoUrl}]
    /\ url \in [Fields -> Urls \cup {NoUrl}]
    /\ failures \in [Fields -> 0..2]
    /\ due \in [Fields -> BOOLEAN]
    /\ owner \in [Fields -> Workers \cup {Nobody}]
    /\ lease \in [Fields -> 0..Lease]
    /\ table \in [Fields -> Row]
    /\ snapshot \in [Workers -> [Fields -> Urls \cup {NoUrl}]]
    /\ chain \in [Workers -> [Fields -> Places]]
    /\ target \in [Workers -> [Fields -> Urls \cup {NoUrl}]]
    /\ processed \in [Workers -> Nat]
    /\ faults \in 0..MaxFaults
    /\ observed \in [Fields -> [url : Urls \cup {NoUrl}, answer : Outcomes, streak : 0..2]]

\* Only a row that holds a URL is due or claimed.
RowsHoldUrls == \A f \in Fields : due[f] \/ owner[f] # Nobody => url[f] \in Urls
\* What a row counts was observed of the URL it holds.
StreaksFit == \A f \in Fields : failures[f] > 0 => observed[f].url = url[f] /\ observed[f].streak > 0
SuccessesFit ==
    \A f \in Fields : observed[f].answer = "reachable" => table[f].status \in {"none", "resolved"}

UrlsInv == UrlTypeOK /\ RowsHoldUrls /\ StreaksFit /\ SuccessesFit

LEMMA RecheckedRow ==
    ASSUME NEW row \in Row, NEW seen \in Evidence \cup {"fine"}
    PROVE  /\ Recheck(row, seen) \in Row
           /\ Recheck(row, "fine").status \in {"none", "resolved"}
           /\ Recheck(row, "fine").evidence = row.evidence
           /\ row.status = "resolved" => Recheck(row, "fine").status = "resolved"
           /\ seen \in Evidence => Recheck(row, seen).evidence = seen
<1> USE EvidenceAssumption, ViewsAssumption
<1>1. "fine" \notin Evidence
  OBVIOUS
<1>2. QED
  BY <1>1 DEF Recheck, Row, FindingStatuses

LEMMA UrlsInvInit == Init => UrlsInv
<1> SUFFICES ASSUME Init PROVE UrlsInv
  OBVIOUS
<1> USE UrlBounds DEF Init
<1>1. NoRow \in Row /\ NoRow.status = "none"
  BY DEF NoRow, Row, FindingStatuses
<1>2. Unobserved \in [url : Urls \cup {NoUrl}, answer : Outcomes, streak : 0..2]
  BY DEF Unobserved, Outcomes
<1>3. UrlTypeOK
  BY <1>1, <1>2 DEF UrlTypeOK, Places
<1>4. QED
  BY <1>1, <1>3 DEF UrlsInv, RowsHoldUrls, StreaksFit, SuccessesFit, Unobserved

\* An answer recorded under the fence.
Recorded(w, f, a) ==
    LET u == target[w][f]
        n == IF a # "failed" THEN 0 ELSE IF failures[f] = 0 THEN 1 ELSE 2
    IN  /\ Fence(w, f)
        /\ failures' = [failures EXCEPT ![f] = n]
        /\ due' = [due EXCEPT ![f] = FALSE]
        /\ owner' = [owner EXCEPT ![f] = Nobody]
        /\ lease' = [lease EXCEPT ![f] = 0]
        /\ table' = [table EXCEPT ![f] = Finding(table[f], u, a, n)]
        /\ observed' = [observed EXCEPT ![f] = Observation(observed[f], u, a)]

LEMMA RecordedAnswer ==
    ASSUME UrlsInv, NEW w \in Workers, NEW f \in Fields, NEW a \in Outcomes, Recorded(w, f, a)
    PROVE  /\ url[f] \in Urls /\ target[w][f] = url[f]
           /\ failures'[f] \in 0..2 /\ table'[f] \in Row
           /\ \E streak \in failures'[f]..2 :
                 observed'[f] = [url |-> url[f], answer |-> a, streak |-> streak]
           /\ a = "reachable" => /\ table'[f].status \in {"none", "resolved"}
                                 /\ table'[f].evidence = table[f].evidence
                                 /\ table[f].status = "resolved" => table'[f].status = "resolved"
           /\ \/ a = "reachable" \/ table'[f] = table[f]
              \/ failures'[f] = 2 /\ table'[f].evidence = url[f]
<1> USE DEF UrlsInv
<1>1. url[f] \in Urls /\ target[w][f] = url[f]
  BY NobodyIsNoWorker DEF Recorded, Fence, RowsHoldUrls, UrlTypeOK
<1>2. PICK n \in 0..2 : /\ n = IF a # "failed" THEN 0 ELSE IF failures[f] = 0 THEN 1 ELSE 2
                        /\ failures'[f] = n
                        /\ table'[f] = Finding(table[f], url[f], a, n)
                        /\ observed'[f] = Observation(observed[f], url[f], a)
  BY <1>1 DEF Recorded, UrlTypeOK
<1>3. \E streak \in n..2 : observed'[f] = [url |-> url[f], answer |-> a, streak |-> streak]
  <2>1. /\ failures[f] \in 0..2 /\ observed[f].streak \in 0..2
        /\ failures[f] > 0 => observed[f].url = url[f] /\ observed[f].streak > 0
    BY DEF UrlTypeOK, StreaksFit
  <2>2. /\ 0 \in 0..2 /\ 1 \in 1..2 /\ 2 \in 1..2 /\ 2 \in 2..2
    OBVIOUS
  <2>3. CASE a # "failed"
    BY <1>2, <2>2, <2>3 DEF Observation
  <2>4. CASE a = "failed" /\ failures[f] > 0
    BY <1>2, <2>1, <2>2, <2>4 DEF Observation
  <2>5. CASE a = "failed" /\ failures[f] = 0
    BY <1>2, <2>1, <2>2, <2>5 DEF Observation
  <2>6. failures[f] = 0 \/ failures[f] > 0
    BY <2>1
  <2>7. QED
    BY <2>3, <2>4, <2>5, <2>6
<1>4. table[f] \in Row
  BY DEF UrlTypeOK
<1>5. /\ table'[f] \in Row
      /\ a = "reachable" => /\ table'[f].status \in {"none", "resolved"}
                            /\ table'[f].evidence = table[f].evidence
                            /\ table[f].status = "resolved" => table'[f].status = "resolved"
      /\ a # "reachable" => table'[f] = table[f] \/ (n = 2 /\ table'[f].evidence = url[f])
  <2>1. CASE a = "failed" /\ n >= 2
    BY <1>1, <1>2, <1>4, <2>1, RecheckedRow DEF Finding, Urls
  <2>2. CASE a = "reachable"
    BY <1>2, <1>4, <2>2, RecheckedRow DEF Finding
  <2>3. CASE a # "reachable" /\ ~ (a = "failed" /\ n >= 2)
    BY <1>2, <1>4, <2>3 DEF Finding
  <2>4. QED
    BY <2>1, <2>2, <2>3
<1>6. QED
  BY <1>1, <1>2, <1>3, <1>5

LEMMA RecordedInv ==
    ASSUME UrlsInv, NEW w \in Workers, NEW f \in Fields, NEW a \in Outcomes, Finish(w, f, a)
    PROVE  UrlsInv'
<1> USE UrlBounds DEF UrlsInv
<1>1. /\ target' = [target EXCEPT ![w][f] = NoUrl] /\ chain' = [chain EXCEPT ![w][f] = "pausing"]
      /\ UNCHANGED <<source, url, snapshot, processed, faults>>
      /\ Recorded(w, f, a) \/ UNCHANGED <<failures, due, owner, lease, table, observed>>
  BY DEF Finish, Goto, Recorded
<1>2. target' \in [Workers -> [Fields -> Urls \cup {NoUrl}]] /\ chain' \in [Workers -> [Fields -> Places]]
  BY <1>1 DEF UrlTypeOK, Places
<1>3. CASE UNCHANGED <<failures, due, owner, lease, table, observed>>
  BY <1>1, <1>2, <1>3 DEF UrlTypeOK, RowsHoldUrls, StreaksFit, SuccessesFit
<1>4. CASE Recorded(w, f, a)
  <2>1. \A g \in Fields \ {f} :
            /\ failures'[g] = failures[g] /\ due'[g] = due[g] /\ owner'[g] = owner[g]
            /\ table'[g] = table[g] /\ observed'[g] = observed[g]
    BY <1>4 DEF Recorded, UrlTypeOK
  <2>2. due'[f] = FALSE /\ owner'[f] = Nobody
    BY <1>4 DEF Recorded, UrlTypeOK
  <2>3. PICK streak \in failures'[f]..2 :
            observed'[f] = [url |-> url[f], answer |-> a, streak |-> streak]
    BY <1>4, RecordedAnswer
  <2>4. /\ url[f] \in Urls /\ failures'[f] \in 0..2 /\ table'[f] \in Row
        /\ a = "reachable" => table'[f].status \in {"none", "resolved"}
    BY <1>4, RecordedAnswer
  <2>5. streak \in 0..2 /\ streak >= failures'[f]
    BY <2>3, <2>4
  <2>6. observed'[f] \in [url : Urls \cup {NoUrl}, answer : Outcomes, streak : 0..2]
    BY <2>3, <2>4, <2>5
  <2>7. /\ failures' \in [Fields -> 0..2] /\ table' \in [Fields -> Row]
        /\ observed' \in [Fields -> [url : Urls \cup {NoUrl}, answer : Outcomes, streak : 0..2]]
    <3>1. /\ DOMAIN failures' = Fields /\ failures' = [g \in Fields |-> failures'[g]]
          /\ table' = [g \in Fields |-> table'[g]] /\ observed' = [g \in Fields |-> observed'[g]]
      BY <1>4 DEF Recorded, UrlTypeOK
    <3>2. \A g \in Fields : /\ failures'[g] \in 0..2 /\ table'[g] \in Row
                            /\ observed'[g] \in [url : Urls \cup {NoUrl}, answer : Outcomes, streak : 0..2]
      BY <2>1, <2>4, <2>6 DEF UrlTypeOK
    <3>3. QED
      BY <3>1, <3>2
  <2>8. due' \in [Fields -> BOOLEAN] /\ owner' \in [Fields -> Workers \cup {Nobody}] /\ lease' \in [Fields -> 0..Lease]
    BY <1>4 DEF Recorded, UrlTypeOK
  <2>9. UrlTypeOK'
    BY <1>1, <1>2, <2>7, <2>8 DEF UrlTypeOK
  <2>10. RowsHoldUrls'
    BY <1>1, <2>1, <2>2 DEF RowsHoldUrls
  <2>11. StreaksFit'
    BY <1>1, <2>1, <2>3, <2>4, <2>5 DEF StreaksFit
  <2>12. SuccessesFit'
    BY <2>1, <2>3, <2>4 DEF SuccessesFit
  <2>13. QED
    BY <2>9, <2>10, <2>11, <2>12
<1>5. QED
  BY <1>1, <1>3, <1>4

LEMMA ChainMoves ==
    ASSUME UrlTypeOK, NEW w \in Workers, NEW f \in Fields
    PROVE  /\ \A p \in Places : Goto(w, f, p) => chain' \in [Workers -> [Fields -> Places]]
           /\ Leave(w, f) => snapshot' \in [Workers -> [Fields -> Urls \cup {NoUrl}]]
<1>1. chain \in [Workers -> [Fields -> Places]] /\ snapshot \in [Workers -> [Fields -> Urls \cup {NoUrl}]]
  BY DEF UrlTypeOK
<1>2. ASSUME NEW p \in Places, Goto(w, f, p) PROVE chain' \in [Workers -> [Fields -> Places]]
  <2>1. [chain[w] EXCEPT ![f] = p] \in [Fields -> Places]
    BY <1>1
  <2>2. chain' = [chain EXCEPT ![w] = [chain[w] EXCEPT ![f] = p]]
    BY <1>2 DEF Goto
  <2>3. QED
    BY <1>1, <2>1, <2>2
<1>3. ASSUME Leave(w, f) PROVE snapshot' \in [Workers -> [Fields -> Urls \cup {NoUrl}]]
  <2>1. [snapshot[w] EXCEPT ![f] = NoUrl] \in [Fields -> Urls \cup {NoUrl}]
    BY <1>1
  <2>2. snapshot' = [snapshot EXCEPT ![w] = [snapshot[w] EXCEPT ![f] = NoUrl]]
    BY <1>3 DEF Leave
  <2>3. QED
    BY <1>1, <2>1, <2>2
<1>4. QED
  BY <1>2, <1>3

\* The other steps of a cycle.
LEMMA CycleInv ==
    ASSUME UrlsInv, NEW w \in Workers,
           \/ BeginCycle(w) \/ Discover(w) \/ Crash(w)
           \/ \E f \in Fields : TakeSlot(w, f) \/ Enter(w, f) \/ Claim(w, f) \/ Pause(w, f)
    PROVE  UrlsInv'
<1> USE UrlBounds DEF UrlsInv
<1>1. CASE BeginCycle(w)
  BY <1>1 DEF BeginCycle, UrlTypeOK, RowsHoldUrls, StreaksFit, SuccessesFit, rowVars, Places
<1>2. CASE Discover(w)
  <2>1. PICK changed \in SUBSET Fields :
          /\ \A f \in changed : snapshot[w][f] # NoUrl
          /\ url' = [f \in Fields |-> IF f \in changed THEN snapshot[w][f] ELSE url[f]]
          /\ failures' = [f \in Fields |-> IF f \in changed THEN 0 ELSE failures[f]]
          /\ due' = [f \in Fields |-> f \in changed \/ due[f]]
          /\ owner' = [f \in Fields |-> IF f \in changed THEN Nobody ELSE owner[f]]
          /\ lease' = [f \in Fields |-> IF f \in changed THEN 0 ELSE lease[f]]
    <3>1. PICK changed : changed = {f \in Fields : snapshot[w][f] # NoUrl /\ url[f] # snapshot[w][f]}
      OBVIOUS
    <3>2. QED
      BY <1>2, <3>1 DEF Discover, CountReset, LeaseReset
  <2>2. /\ chain' = [chain EXCEPT ![w] =
                        [f \in Fields |-> IF chain[w][f] = "read" THEN "waiting" ELSE chain[w][f]]]
        /\ UNCHANGED <<source, table, snapshot, target, processed, faults, observed>>
    BY <1>2 DEF Discover, UrlTypeOK
  <2>3. UrlTypeOK'
    <3>1. chain' \in [Workers -> [Fields -> Places]]
      BY <2>2 DEF UrlTypeOK, Places
    <3>2. url' \in [Fields -> Urls \cup {NoUrl}] /\ owner' \in [Fields -> Workers \cup {Nobody}]
      BY <2>1 DEF UrlTypeOK
    <3>3. failures' \in [Fields -> 0..2] /\ lease' \in [Fields -> 0..Lease] /\ due' \in [Fields -> BOOLEAN]
      BY <2>1 DEF UrlTypeOK
    <3>4. QED
      BY <2>2, <3>1, <3>2, <3>3 DEF UrlTypeOK
  <2>4. \A f \in changed : snapshot[w][f] \in Urls
    BY <2>1 DEF UrlTypeOK
  <2>5. RowsHoldUrls' /\ StreaksFit' /\ SuccessesFit'
    BY <2>1, <2>2, <2>4 DEF RowsHoldUrls, StreaksFit, SuccessesFit, UrlTypeOK
  <2>6. QED
    BY <2>3, <2>5
<1>3. CASE Crash(w)
  BY <1>3 DEF Crash, UrlTypeOK, RowsHoldUrls, StreaksFit, SuccessesFit, rowVars, Places
<1>4. ASSUME NEW f \in Fields, TakeSlot(w, f) \/ Enter(w, f) \/ Pause(w, f) PROVE UrlsInv'
  <2>1. /\ chain' \in [Workers -> [Fields -> Places]] /\ snapshot' \in [Workers -> [Fields -> Urls \cup {NoUrl}]]
        /\ UNCHANGED <<source, rowVars, table, target, processed, faults, observed>>
    <3>1. \E p \in Places : Goto(w, f, p)
      BY <1>4 DEF TakeSlot, Enter, Pause, Leave, Places
    <3>2. snapshot' = snapshot \/ Leave(w, f)
      BY <1>4 DEF TakeSlot, Enter, Pause
    <3>3. snapshot \in [Workers -> [Fields -> Urls \cup {NoUrl}]]
      BY DEF UrlTypeOK
    <3>4. UNCHANGED <<source, rowVars, table, target, processed, faults, observed>>
      BY <1>4 DEF TakeSlot, Enter, Pause
    <3>5. QED
      BY <3>1, <3>2, <3>3, <3>4, ChainMoves
  <2>2. QED
    BY <2>1 DEF UrlTypeOK, RowsHoldUrls, StreaksFit, SuccessesFit, rowVars
<1>5. ASSUME NEW f \in Fields, Claim(w, f) PROVE UrlsInv'
  <2>1. /\ chain' \in [Workers -> [Fields -> Places]] /\ snapshot' \in [Workers -> [Fields -> Urls \cup {NoUrl}]]
        /\ UNCHANGED <<source, url, failures, due, table, faults, observed>>
    <3>1. \E p \in Places : Goto(w, f, p)
      BY <1>5 DEF Claim, Leave, Places
    <3>2. snapshot' = snapshot \/ Leave(w, f)
      BY <1>5 DEF Claim
    <3>3. snapshot \in [Workers -> [Fields -> Urls \cup {NoUrl}]]
      BY DEF UrlTypeOK
    <3>4. UNCHANGED <<source, url, failures, due, table, faults, observed>>
      BY <1>5 DEF Claim
    <3>5. QED
      BY <3>1, <3>2, <3>3, <3>4, ChainMoves
  <2>2. CASE Claimable(f)
    <3>1. /\ owner' = [owner EXCEPT ![f] = w] /\ lease' = [lease EXCEPT ![f] = Lease]
          /\ target' = [target EXCEPT ![w][f] = url[f]] /\ due[f]
          /\ processed' = [processed EXCEPT ![w] = processed[w] + 1]
      BY <1>5, <2>2 DEF Claim, Claimable, UrlTypeOK
    <3>2. UrlTypeOK'
      BY <2>1, <3>1 DEF UrlTypeOK
    <3>3. QED
      BY <2>1, <3>1, <3>2 DEF UrlTypeOK, RowsHoldUrls, StreaksFit, SuccessesFit
  <2>3. CASE ~Claimable(f)
    BY <1>5, <2>1, <2>3 DEF Claim, UrlTypeOK, RowsHoldUrls, StreaksFit, SuccessesFit
  <2>4. QED
    BY <2>2, <2>3
<1>6. QED
  BY <1>1, <1>2, <1>3, <1>4, <1>5

LEMMA ReviewedUrl ==
    ASSUME UrlsInv, NEW f \in Fields, NEW t \in {"open", "exception"}, Review(f, t)
    PROVE  UrlsInv' /\ \A g \in Fields : /\ table'[g].evidence = table[g].evidence
                                         /\ table[g].status = "resolved" => table'[g].status = "resolved"
<1> USE DEF UrlsInv
<1>1. /\ table' = [table EXCEPT ![f] = Reviewed(table[f], t)] /\ table[f].status \notin {"none", "resolved"}
      /\ UNCHANGED <<source, rowVars, cycleVars, faults, observed>>
  BY DEF Review, UrlTypeOK
<1>2. table[f] \in Row
  BY DEF UrlTypeOK
<1>3. Reviewed(table[f], t) \in Row /\ Reviewed(table[f], t).evidence = table[f].evidence
  BY <1>2 DEF Reviewed, Row, FindingStatuses, Handled
<1>4. table' \in [Fields -> Row]
  BY <1>1, <1>3 DEF UrlTypeOK
<1>5. UrlsInv'
  BY <1>1, <1>4 DEF UrlTypeOK, RowsHoldUrls, StreaksFit, SuccessesFit, rowVars, cycleVars
<1>6. QED
  BY <1>1, <1>3, <1>5 DEF UrlTypeOK

LEMMA UrlsInvStep == UrlsInv /\ [Next]_vars => UrlsInv'
<1> SUFFICES ASSUME UrlsInv, [Next]_vars PROVE UrlsInv'
  OBVIOUS
<1> USE UrlBounds
<1>1. ASSUME NEW w \in Workers, NEW f \in Fields, NEW a \in Outcomes, Finish(w, f, a) PROVE UrlsInv'
  BY <1>1, RecordedInv
<1>2. ASSUME NEW w \in Workers,
             \/ BeginCycle(w) \/ Discover(w) \/ Crash(w)
             \/ \E f \in Fields : TakeSlot(w, f) \/ Enter(w, f) \/ Claim(w, f) \/ Pause(w, f)
      PROVE  UrlsInv'
  BY <1>2, CycleInv
<1>3. ASSUME NEW f \in Fields, NEW t \in {"open", "exception"}, Review(f, t) PROVE UrlsInv'
  BY <1>3, ReviewedUrl
<1>4. ASSUME NEW f \in Fields, DueAgain(f) PROVE UrlsInv'
  BY <1>4 DEF DueAgain, UrlsInv, UrlTypeOK, RowsHoldUrls, StreaksFit, SuccessesFit, cycleVars
<1>5. CASE Tick
  <2>1. /\ lease' = [f \in Fields |-> IF lease[f] > 0 THEN lease[f] - 1 ELSE 0]
        /\ faults' \in 0..MaxFaults
        /\ UNCHANGED <<source, url, failures, due, owner, table, cycleVars, observed>>
    BY <1>5 DEF Tick, UrlsInv, UrlTypeOK
  <2>2. lease' \in [Fields -> 0..Lease]
    BY <2>1 DEF UrlsInv, UrlTypeOK
  <2>3. QED
    BY <2>1, <2>2 DEF UrlsInv, UrlTypeOK, RowsHoldUrls, StreaksFit, SuccessesFit, cycleVars
<1>6. ASSUME NEW f \in Fields, NEW u \in Urls \cup {NoUrl}, SourceChanges(f, u) PROVE UrlsInv'
  BY <1>6 DEF SourceChanges, UrlsInv, UrlTypeOK, RowsHoldUrls, StreaksFit, SuccessesFit, rowVars, cycleVars
<1>7. CASE UNCHANGED vars
  BY <1>7 DEF vars, UrlsInv, UrlTypeOK, RowsHoldUrls, StreaksFit, SuccessesFit, rowVars, cycleVars
<1>8. QED
  BY <1>1, <1>2, <1>3, <1>4, <1>5, <1>6, <1>7 DEF Next, Step

LEMMA UrlsInvariant == Spec => []UrlsInv
<1>1. QED
  BY UrlsInvInit, UrlsInvStep, PTL DEF Spec

\* Rows, chains, findings and observations keep their types.
THEOREM UrlsTypeCorrect == Spec => []UrlTypeOK
<1>1. UrlsInv => UrlTypeOK
  BY DEF UrlsInv
<1>2. QED
  BY <1>1, UrlsInvariant, PTL

\* A success closes the finding, and a finding is raised, reopened or changed
\* only by two failures in a row of the URL it names: discovery that changes the
\* URL, a second worker, a lease that ran out and a review may come between
\* (finish, discover).
THEOREM FindingsCorrect == Spec => FindingsFollowAnswers
<1> DEFINE Fits(f) ==
        /\ observed'[f].answer = "reachable" => table'[f].status \in {"none", "resolved"}
        /\ \/ table[f].evidence = table'[f].evidence
              /\ (table[f].status = "resolved" => table'[f].status = "resolved")
           \/ observed'[f].streak = 2 /\ observed'[f].url = table'[f].evidence
<1>1. ASSUME UrlsInv, UrlsInv', [Next]_vars, NEW f \in Fields PROVE Fits(f)
  <2>1. observed'[f].answer = "reachable" => table'[f].status \in {"none", "resolved"}
    BY <1>1 DEF UrlsInv, SuccessesFit
  <2>2. CASE table' = table
    BY <2>1, <2>2
  <2>3. ASSUME NEW w \in Workers, NEW g \in Fields, NEW a \in Outcomes, Recorded(w, g, a) PROVE Fits(f)
    <3>1. CASE g # f
      <4>1. table'[f] = table[f]
        BY <1>1, <2>3, <3>1 DEF Recorded, UrlsInv, UrlTypeOK
      <4>2. QED
        BY <2>1, <4>1
    <3>2. CASE g = f
      <4>1. PICK streak \in failures'[f]..2 :
                observed'[f] = [url |-> url[f], answer |-> a, streak |-> streak]
        BY <1>1, <2>3, <3>2, RecordedAnswer
      <4>2. /\ failures'[f] \in 0..2
            /\ a = "reachable" => /\ table'[f].evidence = table[f].evidence
                                  /\ table[f].status = "resolved" => table'[f].status = "resolved"
            /\ \/ a = "reachable" \/ table'[f] = table[f]
               \/ failures'[f] = 2 /\ table'[f].evidence = url[f]
        BY <1>1, <2>3, <3>2, RecordedAnswer
      <4>3. CASE a = "reachable" \/ table'[f] = table[f]
        BY <2>1, <4>2, <4>3
      <4>4. CASE failures'[f] = 2 /\ table'[f].evidence = url[f]
        <5>1. streak = 2
          BY <4>1, <4>4
        <5>2. QED
          BY <2>1, <4>1, <4>4, <5>1
      <4>5. QED
        BY <4>2, <4>3, <4>4
    <3>3. QED
      BY <3>1, <3>2
  <2>4. ASSUME NEW g \in Fields, NEW t \in {"open", "exception"}, Review(g, t) PROVE Fits(f)
    BY <1>1, <2>1, <2>4, ReviewedUrl
  <2>5. \/ table' = table
        \/ \E w \in Workers, g \in Fields, a \in Outcomes : Recorded(w, g, a)
        \/ \E g \in Fields, t \in {"open", "exception"} : Review(g, t)
    <3>1. ASSUME NEW w \in Workers, NEW g \in Fields, NEW a \in Outcomes, Finish(w, g, a)
          PROVE  table' = table \/ Recorded(w, g, a)
      BY <3>1 DEF Finish, Recorded
    <3>2. QED
      BY <1>1, <3>1
      DEF Next, Step, BeginCycle, Discover, Crash, TakeSlot, Enter, Claim, Pause, DueAgain, Tick,
          SourceChanges, vars
  <2>6. QED
    BY <2>2, <2>3, <2>4, <2>5
<1>2. UrlsInv /\ UrlsInv' /\ [Next]_vars => [\A f \in Fields : Fits(f)]_vars
  BY <1>1
<1>3. QED
  BY <1>2, UrlsInvariant, PTL DEF Spec, FindingsFollowAnswers


----------------------------------------------------------------------------
(* Lists: the order of rows, and the first of a set of them.               *)

Record == [id : Ids, at : Hours]
\* r comes later in the list than s; what of S comes before r.
Later(r, s) == After(r.at, r.id, s.at, s.id)
Earlier(r, S) == {s \in S : Later(r, s)}

LEMMA LaterOrder ==
    ASSUME NEW r \in Record, NEW s \in Record, NEW t \in Record
    PROVE  /\ ~Later(r, r)
           /\ ~(Later(r, s) /\ Later(s, r))
           /\ Later(r, s) /\ Later(s, t) => Later(r, t)
           /\ r = s \/ Later(r, s) \/ Later(s, r)
<1>1. \A x \in Record : x.at \in Int /\ x.id \in Int
  <2>1. \A x \in Hours : x \in Int
    BY PageBounds DEF Hours
  <2>2. \A x \in Ids : x \in Int
    BY IdsAssumption
  <2>3. QED
    BY <2>1, <2>2 DEF Record
<1>2. r.at = s.at /\ r.id = s.id => r = s
  BY DEF Record
<1>3. QED
  BY <1>1, <1>2 DEF Later, After

LEMMA FiniteRecords ==
    ASSUME NEW S \in SUBSET Record
    PROVE  IsFiniteSet(S) /\ Cardinality(S) \in Nat
<1> DEFINE place == [r \in Record |-> <<r.id, r.at>>]
<1>1. IsFiniteSet(Ids) /\ IsFiniteSet(Hours)
  BY IdsAssumption, PageBounds, FS_Interval DEF Hours
<1>2. IsFiniteSet(Ids \X Hours)
  BY <1>1, FS_Product
<1>3. place \in [Record -> Ids \X Hours]
  BY DEF Record
<1>4. \A r, s \in Record : place[r] = place[s] => r = s
  BY DEF Record
<1> HIDE DEF place
<1>5. place \in Injection(Record, Ids \X Hours)
  BY <1>3, <1>4 DEF Injection, IsInjective
<1>6. IsFiniteSet(Record)
  BY <1>2, <1>5, FS_Injection
<1>7. QED
  BY <1>6, FS_Subset, FS_CardinalityType

\* Counting what comes before numbers the records of a set in order.
LEMMA Numbered ==
    ASSUME NEW S \in SUBSET Record
    PROVE  LET number == [r \in S |-> Cardinality(Earlier(r, S)) + 1]
           IN  /\ number \in Bijection(S, 1..Cardinality(S))
               /\ \A r, s \in S : Later(r, s) <=> number[s] < number[r]
<1> DEFINE number == [r \in S |-> Cardinality(Earlier(r, S)) + 1]
           size == Cardinality(S)
<1>1. IsFiniteSet(S) /\ size \in Nat
  BY FiniteRecords
<1>2. \A r \in S : Earlier(r, S) \in SUBSET (S \ {r})
  BY LaterOrder DEF Earlier
<1>3. \A r \in S : IsFiniteSet(Earlier(r, S)) /\ Cardinality(Earlier(r, S)) \in Nat
  <2> TAKE r \in S
  <2>1. Earlier(r, S) \in SUBSET Record
    BY <1>2
  <2>2. QED
    BY <2>1, FiniteRecords
<1>4. \A r \in S : Cardinality(Earlier(r, S)) < size
  <2> TAKE r \in S
  <2>1. IsFiniteSet(S \ {r}) /\ Cardinality(S \ {r}) = size - 1
    BY <1>1, FS_RemoveElement
  <2>2. Cardinality(Earlier(r, S)) <= Cardinality(S \ {r})
    BY <2>1, <1>2, FS_Subset
  <2>3. QED
    BY <2>1, <2>2, <1>1, <1>3
<1>5. \A r, s \in S : Later(r, s) => Cardinality(Earlier(s, S)) < Cardinality(Earlier(r, S))
  <2> SUFFICES ASSUME NEW r \in S, NEW s \in S, Later(r, s)
               PROVE  Cardinality(Earlier(s, S)) < Cardinality(Earlier(r, S))
    OBVIOUS
  <2>1. Earlier(s, S) \in SUBSET Earlier(r, S)
    BY LaterOrder DEF Earlier
  <2>2. s \in Earlier(r, S) /\ s \notin Earlier(s, S)
    BY LaterOrder DEF Earlier
  <2>3. Cardinality(Earlier(s, S)) <= Cardinality(Earlier(r, S)) /\ Cardinality(Earlier(s, S)) # Cardinality(Earlier(r, S))
    BY <2>1, <2>2, <1>3, FS_Subset
  <2>4. QED
    BY <2>3, <1>3
<1>6. number \in [S -> 1..size]
  <2> HIDE DEF size
  <2>1. \A r \in S : Cardinality(Earlier(r, S)) + 1 \in 1..size
    BY <1>1, <1>3, <1>4
  <2>2. QED
    BY <2>1
<1>7. \A r, s \in S : Later(r, s) => number[s] < number[r]
  BY <1>3, <1>5
<1>8. \A r, s \in S : number[s] < number[r] => Later(r, s)
  <2> SUFFICES ASSUME NEW r \in S, NEW s \in S, number[s] < number[r], ~Later(r, s) PROVE FALSE
    OBVIOUS
  <2>1. CASE r = s
    BY <2>1, <1>3
  <2>2. CASE Later(s, r)
    BY <2>2, <1>3, <1>5
  <2>3. QED
    BY <2>1, <2>2, LaterOrder
<1>9. \A r, s \in S : number[r] = number[s] => r = s
  <2> SUFFICES ASSUME NEW r \in S, NEW s \in S, number[r] = number[s], r # s PROVE FALSE
    OBVIOUS
  <2>1. Later(r, s) \/ Later(s, r)
    BY LaterOrder
  <2>2. QED
    BY <2>1, <1>3, <1>5
<1> HIDE DEF number, size
<1>10. number \in Injection(S, 1..size)
  BY <1>6, <1>9 DEF Injection, IsInjective
<1>11. IsFiniteSet(1..size) /\ Cardinality(1..size) = size
  BY <1>1, FS_Interval
<1>12. number \in Surjection(S, 1..size)
  BY <1>10, <1>11, FS_Injection DEF size
<1>13. number \in Bijection(S, 1..size) /\ \A r, s \in S : Later(r, s) <=> number[s] < number[r]
  BY <1>7, <1>8, <1>10, <1>12 DEF Bijection
<1>14. QED
  BY <1>13 DEF number, size

\* The first n of a set: they come before the others, and there are n of them if
\* there are others.
LEMMA FirstFacts ==
    ASSUME NEW S \in SUBSET Record, NEW n \in Nat
    PROVE  /\ First(n, S) \in SUBSET S
           /\ \A s \in First(n, S), r \in S \ First(n, S) : Later(r, s)
           /\ \A s \in First(n, S) : Cardinality(Earlier(s, S)) < n
           /\ Cardinality(S) <= n => First(n, S) = S
           /\ First(n, S) # S => n <= Cardinality(First(n, S))
<1> DEFINE number == [r \in S |-> Cardinality(Earlier(r, S)) + 1]
           size == Cardinality(S)
           F == First(n, S)
<1>1. PICK num : num = number
  OBVIOUS
<1>2. /\ num \in Bijection(S, 1..size)
      /\ \A r, s \in S : Later(r, s) <=> num[s] < num[r]
  BY <1>1, Numbered
<1>3. /\ num \in [S -> 1..size] /\ size \in Nat
      /\ \A k \in 1..size : \E r \in S : num[r] = k
  BY <1>2, FiniteRecords DEF Bijection, Injection, Surjection
<1>4. \A r \in S : Cardinality(Earlier(r, S)) \in Nat /\ num[r] = Cardinality(Earlier(r, S)) + 1
  <2> TAKE r \in S
  <2>1. Earlier(r, S) \in SUBSET Record
    BY DEF Earlier
  <2>2. QED
    BY <2>1, <1>1, FiniteRecords
<1>5. F = {r \in S : Cardinality(Earlier(r, S)) < n}
  BY DEF First, Earlier, Later
<1> HIDE DEF number, size, F
<1>6. \A r \in S : r \in F <=> num[r] <= n
  BY <1>4, <1>5
<1>7. \A s \in F, r \in S \ F : Later(r, s)
  <2> TAKE s \in F, r \in S \ F
  <2>1. s \in S /\ num[s] <= n /\ ~(num[r] <= n) /\ num[s] \in Nat /\ num[r] \in Nat
    BY <1>3, <1>5, <1>6
  <2>2. QED
    BY <2>1, <1>2
<1>8. size <= n => F = S
  BY <1>3, <1>5, <1>6
<1>9. ASSUME F # S PROVE n <= Cardinality(F)
  <2>1. PICK r \in S : r \notin F
    BY <1>9, <1>5
  <2>2. n < size
    BY <2>1, <1>3, <1>6
  <2>3. \A k \in 1..n : \E s \in F : num[s] = k
    BY <2>2, <1>3, <1>6
  <2> DEFINE cut == [s \in F |-> num[s]]
  <2>4. cut \in [F -> 1..n]
    BY <1>3, <1>5, <1>6
  <2>5. cut \in Surjection(F, 1..n)
    BY <2>3, <2>4 DEF Surjection
  <2>6. IsFiniteSet(F) /\ Cardinality(F) \in Nat
    BY <1>5, FiniteRecords
  <2> HIDE DEF cut
  <2>7. Cardinality(1..n) <= Cardinality(F)
    BY <2>5, <2>6, FS_Surjection
  <2>8. Cardinality(1..n) = n
    BY FS_Interval
  <2>9. QED
    BY <2>7, <2>8
<1>10. QED
  BY <1>5, <1>7, <1>8, <1>9 DEF F, size

\* A page is what it holds, in order.
LEMMA InOrderFacts ==
    ASSUME NEW S \in SUBSET Record
    PROVE  /\ InOrder(S) \in [1..Cardinality(S) -> S]
           /\ \A m, n \in 1..Cardinality(S) : m < n => Later(InOrder(S)[n], InOrder(S)[m])
           /\ \A r \in S : \E n \in 1..Cardinality(S) : InOrder(S)[n] = r
<1> DEFINE number == [r \in S |-> Cardinality(Earlier(r, S)) + 1]
           size == Cardinality(S)
           Sorted(list) == \A m, n \in DOMAIN list :
                              m < n => After(list[n].at, list[n].id, list[m].at, list[m].id)
<1>1. PICK num : num = number
  OBVIOUS
<1>2. /\ num \in Bijection(S, 1..size)
      /\ \A r, s \in S : Later(r, s) <=> num[s] < num[r]
  BY <1>1, Numbered
<1>3. /\ num \in [S -> 1..size] /\ size \in Nat
      /\ \A k \in 1..size : \E r \in S : num[r] = k
  BY <1>2, FiniteRecords DEF Bijection, Injection, Surjection
<1> HIDE DEF number, size
<1>4. \E list \in [1..size -> S] : Sorted(list)
  <2> DEFINE list == [k \in 1..size |-> CHOOSE r \in S : num[r] = k]
  <2>1. \A k \in 1..size : list[k] \in S /\ num[list[k]] = k
    BY <1>3
  <2>2. list \in [1..size -> S]
    BY <2>1
  <2> HIDE DEF list
  <2>3. Sorted(list)
    BY <2>1, <2>2, <1>2 DEF Later
  <2>4. QED
    BY <2>2, <2>3
<1>5. PICK list \in [1..size -> S] : list = InOrder(S) /\ Sorted(list)
  <2>1. InOrder(S) = CHOOSE list \in [1..size -> S] : Sorted(list)
    BY DEF InOrder, size
  <2>2. QED
    BY <1>4, <2>1
<1>6. \A m, n \in 1..size : m < n => Later(list[n], list[m])
  BY <1>5 DEF Later
<1>7. \A m, n \in 1..size : list[m] = list[n] => m = n
  <2> SUFFICES ASSUME NEW m \in 1..size, NEW n \in 1..size, list[m] = list[n], m < n PROVE FALSE
    BY <1>3
  <2>1. Later(list[n], list[m]) /\ list[n] \in Record
    BY <1>5, <1>6
  <2>2. QED
    BY <2>1, LaterOrder
<1>8. list \in Injection(1..size, S)
  BY <1>5, <1>7 DEF Injection, IsInjective
<1>9. IsFiniteSet(S) /\ Cardinality(1..size) = size
  BY <1>3, FiniteRecords, FS_Interval
<1>10. list \in Surjection(1..size, S)
  BY <1>8, <1>9, FS_Injection DEF size
<1>11. \A r \in S : \E n \in 1..size : list[n] = r
  BY <1>10 DEF Surjection
<1>12. QED
  BY <1>5, <1>6, <1>11 DEF size

----------------------------------------------------------------------------
(* Lists: a walk with a cursor.                                            *)

Rec(i) == [id |-> i, at |-> rows[i].at]
CursorRow == [id |-> walk.cursor[2], at |-> walk.cursor[1]]
Shown == {pages[n] : n \in DOMAIN pages}
Stops == {"start", "read", "more", "end"}

\* A row is a record of its number and hour, kept in the database its list reads;
\* the cursor is one of them.
PagesTypeOK ==
    /\ stream \in {"timeline", "activity", "findings"}
    /\ hour \in Nat /\ touches \in Nat
    /\ DOMAIN rows \in SUBSET Ids /\ \A i \in DOMAIN rows : rows[i] \in Placed
    /\ walk \in [at : Stops, cursor : {NoCursor} \cup (Hours \X Ids), window : Seq(Int),
                 read : SUBSET Record]
    /\ pages \in Seq(Ids)
    /\ untouched \in SUBSET DOMAIN rows

KeptWhere ==
    \A i \in DOMAIN rows : /\ stream = "activity" => rows[i].store = "source"
                           /\ stream = "findings" => rows[i].store = "admin"
                           /\ stream # "findings" => rows[i].inside

NotBegun == walk.at = "start" => pages = <<>> /\ untouched = {} /\ walk.cursor = NoCursor

\* Of the rows that stay, those up to the cursor have been shown, and no other.
ShownSoFar ==
    /\ walk.at \in {"read", "more"} => \A i \in untouched : i \in Shown <=> ~Passed(i)
    /\ walk.at = "more" => walk.cursor # NoCursor

WindowKept ==
    stream = "activity" /\ walk.at \in {"read", "more"} =>
        \A i \in untouched : rows[i].at >= walk.window[1] /\ rows[i].at < walk.window[2]

InsideKept == \A i \in untouched : rows[i].inside

\* What was read for a page has the rows that stay and follow the cursor, or
\* more than a page of earlier ones.
ReadFits ==
    walk.at = "read" =>
        /\ \A r \in walk.read : r.id \in untouched => r = Rec(r.id)
        /\ stream # "findings" => \A r \in walk.read : walk.cursor = NoCursor \/ Later(r, CursorRow)
        /\ \A i \in untouched :
              Passed(i) /\ (stream = "timeline" => rows[i].store = "source") =>
                \/ Rec(i) \in walk.read
                \/ /\ stream # "findings" /\ Cardinality(walk.read) > PageLength
                   /\ \A r \in walk.read : Later(Rec(i), r)

PagesInv ==
    /\ PagesTypeOK /\ KeptWhere /\ NotBegun /\ ShownSoFar
    /\ WindowKept /\ InsideKept /\ ReadFits /\ UnchangedOnce

LEMMA PagesInvInit == PagesInit => PagesInv
<1> SUFFICES ASSUME PagesInit PROVE PagesInv
  OBVIOUS
<1>1. hour \in Nat /\ touches \in Nat
  BY DEF PagesInit, Period
<1>2. PICK present \in SUBSET Ids : rows \in [present -> {r \in Placed : r.at < hour
          /\ (stream = "activity" => r.store = "source")
          /\ (stream = "findings" => r.store = "admin") /\ (stream # "findings" => r.inside)}]
  BY DEF PagesInit
<1>3. /\ DOMAIN rows \in SUBSET Ids /\ \A i \in DOMAIN rows : rows[i] \in Placed
      /\ KeptWhere
  BY <1>2 DEF KeptWhere
<1>4. /\ walk \in [at : Stops, cursor : {NoCursor} \cup (Hours \X Ids), window : Seq(Int),
                   read : SUBSET Record]
      /\ pages \in Seq(Ids) /\ untouched = {} /\ pages = <<>>
      /\ walk.at = "start" /\ walk.cursor = NoCursor
  BY DEF PagesInit, Stops
<1>5. PagesTypeOK
  BY <1>1, <1>3, <1>4 DEF PagesTypeOK, PagesInit
<1>6. QED
  BY <1>3, <1>4, <1>5
  DEF PagesInv, NotBegun, ShownSoFar, WindowKept, InsideKept, ReadFits, UnchangedOnce

\* The row at the cursor divides the list.
LEMMA CursorRowFacts ==
    ASSUME PagesTypeOK
    PROVE  /\ \A i \in DOMAIN rows : Rec(i) \in Record
           /\ walk.cursor # NoCursor => CursorRow \in Record
           /\ \A i \in DOMAIN rows :
                 Passed(i) <=> walk.cursor = NoCursor \/ Later(Rec(i), CursorRow)
<1>1. \A i \in DOMAIN rows : i \in Ids /\ rows[i].at \in Hours
  BY DEF PagesTypeOK, Placed
<1>2. walk.cursor # NoCursor => walk.cursor \in Hours \X Ids
  BY DEF PagesTypeOK
<1>3. QED
  BY <1>1, <1>2 DEF Rec, CursorRow, Record, Passed, Later

\* Rows of a database are records, and each stands for the row of its number.
LEMMA ContinuedFacts ==
    ASSUME PagesTypeOK, NEW store
    PROVE  /\ Here(store) \in SUBSET Record /\ Continued(store) \in SUBSET Record
           /\ \A r \in Here(store) : r.id \in DOMAIN rows /\ r = Rec(r.id)
           /\ \A r \in Continued(store) :
                 r \in Here(store) /\ (walk.cursor = NoCursor \/ Later(r, CursorRow))
           /\ \A i \in DOMAIN rows : rows[i].store = store =>
                 /\ Rec(i) \in Here(store)
                 /\ Listed(i) /\ Passed(i) => Rec(i) \in Continued(store)
<1>1. \A r \in Here(store) : r.id \in DOMAIN rows /\ r = Rec(r.id)
  BY DEF Here, Rec
<1>2. \A i \in DOMAIN rows : rows[i].store = store => Rec(i) \in Here(store)
  BY DEF Here, Rec
<1>3. Here(store) \in SUBSET Record
  BY <1>1, CursorRowFacts
<1>4. \A i \in DOMAIN rows : Rec(i).id = i
  BY DEF Rec
<1>5. Continued(store) \in SUBSET Here(store)
  BY DEF Continued
<1>6. \A r \in Continued(store) : walk.cursor = NoCursor \/ Later(r, CursorRow)
  <2> TAKE r \in Continued(store)
  <2>1. Passed(r.id) /\ r.id \in DOMAIN rows /\ r = Rec(r.id)
    BY <1>1 DEF Continued
  <2>2. QED
    BY <2>1, CursorRowFacts
<1>7. \A i \in DOMAIN rows : rows[i].store = store /\ Listed(i) /\ Passed(i) => Rec(i) \in Continued(store)
  BY <1>2, <1>4 DEF Continued
<1>8. QED
  BY <1>1, <1>2, <1>3, <1>5, <1>6, <1>7

\* The first read of a page.
LEMMA ReadRowsKeeps == PagesInv /\ ReadRows => PagesInv'
<1> SUFFICES ASSUME PagesInv, ReadRows PROVE PagesInv'
  OBVIOUS
<1>1. PagesTypeOK /\ KeptWhere
  BY DEF PagesInv
<1>2. PICK set : set = IF stream = "findings" THEN Here("admin")
                       ELSE First(PageLength + 1, Continued("source"))
  OBVIOUS
<1>3. PICK win : win = Window
  OBVIOUS
<1>4. win \in Seq(Int)
  BY <1>1, <1>3 DEF Window, PagesTypeOK, Period
<1>5. /\ Here("admin") \in SUBSET Record /\ Continued("source") \in SUBSET Record
      /\ PageLength + 1 \in Nat /\ PageLength \in Nat
  BY <1>1, ContinuedFacts, PageBounds
<1>6. First(PageLength + 1, Continued("source")) \in SUBSET Continued("source")
  BY <1>5, FirstFacts
<1>7. set \in SUBSET Record
  BY <1>2, <1>5, <1>6
<1>8. /\ walk' = [walk EXCEPT !.at = "read", !.window = win, !.read = set]
      /\ walk.at \in {"start", "more"}
  BY <1>2, <1>3 DEF ReadRows
<1>9. /\ walk' \in [at : Stops, cursor : {NoCursor} \cup (Hours \X Ids), window : Seq(Int),
                    read : SUBSET Record]
      /\ walk'.at = "read" /\ walk'.window = win /\ walk'.read = set
      /\ walk'.cursor = walk.cursor
  BY <1>1, <1>4, <1>7, <1>8 DEF PagesTypeOK, Stops
<1>10. /\ rows' = rows /\ pages' = pages /\ stream' = stream
       /\ hour' = hour /\ touches' = touches
  BY DEF ReadRows
<1>11. /\ untouched' \in SUBSET DOMAIN rows
       /\ \A i \in untouched' : Listed(i) /\ rows[i].inside
  <2>1. CASE walk.at = "more"
    <3>1. untouched' = untouched /\ walk.cursor # NoCursor
      BY <2>1 DEF ReadRows, PagesInv, ShownSoFar
    <3>2. QED
      BY <1>1, <2>1, <3>1 DEF PagesInv, WindowKept, InsideKept, Listed, Window, PagesTypeOK
  <2>2. CASE walk.at = "start"
    BY <2>2 DEF ReadRows
  <2>3. QED
    BY <1>8, <2>1, <2>2
<1>12. \A i \in DOMAIN rows : /\ Rec(i)' = Rec(i) /\ (Passed(i))' = Passed(i)
                              /\ CursorRow' = CursorRow
  BY <1>9, <1>10 DEF Rec, Passed, CursorRow
<1>13. PagesTypeOK' /\ KeptWhere' /\ NotBegun'
  BY <1>1, <1>9, <1>10, <1>11 DEF PagesTypeOK, KeptWhere, NotBegun
<1>14. ShownSoFar' /\ UnchangedOnce'
  <2>1. CASE walk.at = "more"
    <3>1. untouched' = untouched
      BY <2>1 DEF ReadRows
    <3>2. ShownSoFar /\ UnchangedOnce
      BY DEF PagesInv
    <3>3. \A i \in untouched' : i \in Shown' <=> ~Passed(i)'
      BY <1>10, <1>11, <1>12, <2>1, <3>1, <3>2 DEF ShownSoFar, Shown
    <3>4. UnchangedOnce'
      BY <1>9, <1>10, <3>1, <3>2 DEF UnchangedOnce
    <3>5. QED
      BY <1>9, <3>3, <3>4 DEF ShownSoFar
  <2>2. CASE walk.at = "start"
    <3>1. pages' = <<>> /\ walk'.cursor = NoCursor
      BY <1>9, <1>10, <2>2 DEF PagesInv, NotBegun
    <3>2. QED
      BY <1>9, <3>1 DEF ShownSoFar, UnchangedOnce, Shown, Passed
  <2>3. QED
    BY <1>8, <2>1, <2>2
<1>15. WindowKept' /\ InsideKept'
  BY <1>3, <1>9, <1>10, <1>11 DEF WindowKept, InsideKept, Listed
<1>16. /\ \A r \in set : r.id \in DOMAIN rows /\ r = Rec(r.id)
       /\ stream # "findings" => \A r \in set : walk.cursor = NoCursor \/ Later(r, CursorRow)
  BY <1>1, <1>2, <1>6, ContinuedFacts
<1>17. ASSUME NEW i \in untouched', Passed(i), stream = "timeline" => rows[i].store = "source"
       PROVE  \/ Rec(i) \in set
              \/ /\ stream # "findings" /\ Cardinality(set) > PageLength
                 /\ \A r \in set : Later(Rec(i), r)
  <2>1. CASE stream = "findings"
    BY <1>1, <1>2, <1>11, <1>17, <2>1, ContinuedFacts DEF KeptWhere
  <2>2. CASE stream # "findings"
    <3>1. rows[i].store = "source"
      BY <1>1, <1>11, <1>17, <2>2 DEF KeptWhere, PagesTypeOK
    <3>2. Rec(i) \in Continued("source")
      BY <1>1, <1>11, <1>17, <3>1, ContinuedFacts
    <3>3. set = First(PageLength + 1, Continued("source"))
      BY <1>2, <2>2
    <3>4. CASE Rec(i) \notin set
      <4>1. \A r \in set : Later(Rec(i), r)
        BY <1>5, <3>2, <3>3, <3>4, FirstFacts
      <4>2. PageLength + 1 <= Cardinality(set)
        BY <1>5, <3>2, <3>3, <3>4, FirstFacts
      <4>3. Cardinality(set) > PageLength
        BY <1>5, <1>7, <4>2, FiniteRecords
      <4>4. QED
        BY <2>2, <4>1, <4>3
    <3>5. QED
      BY <3>4
  <2>3. QED
    BY <2>1, <2>2
<1>18. ReadFits'
  <2>1. \A r \in walk'.read : r.id \in untouched' => r = (Rec(r.id))'
    BY <1>9, <1>12, <1>16
  <2>2. stream' # "findings" => \A r \in walk'.read : walk'.cursor = NoCursor \/ Later(r, CursorRow')
    BY <1>9, <1>10, <1>16 DEF CursorRow
  <2>3. \A i \in untouched' : (Passed(i))' /\ (stream' = "timeline" => rows'[i].store = "source") =>
           \/ (Rec(i))' \in walk'.read
           \/ /\ stream' # "findings" /\ Cardinality(walk'.read) > PageLength
              /\ \A r \in walk'.read : Later((Rec(i))', r)
    BY <1>9, <1>10, <1>11, <1>12, <1>17
  <2>4. QED
    BY <2>1, <2>2, <2>3 DEF ReadFits, Later
<1>19. QED
  BY <1>13, <1>14, <1>15, <1>18 DEF PagesInv

\* What a page is chosen from: rows after the cursor, those that stay as they are,
\* and none of these is missing unless a page and more come before it.
LEMMA MatchedFacts ==
    ASSUME PagesInv, walk.at = "read"
    PROVE  /\ Matched \in SUBSET Record
           /\ \A r \in Matched : walk.cursor = NoCursor \/ Later(r, CursorRow)
           /\ \A r \in Matched : r.id \in untouched => r = Rec(r.id)
           /\ \A i \in untouched : Passed(i) =>
                 \/ Rec(i) \in Matched
                 \/ \E X \in SUBSET Matched :
                       Cardinality(X) > PageLength /\ \A r \in X : Later(Rec(i), r)
<1> DEFINE Due(i) == \/ Rec(i) \in Matched
                     \/ \E X \in SUBSET Matched :
                           Cardinality(X) > PageLength /\ \A r \in X : Later(Rec(i), r)
<1>1. PagesTypeOK /\ KeptWhere /\ ReadFits /\ InsideKept
  BY DEF PagesInv
<1>2. /\ walk.read \in SUBSET Record /\ untouched \in SUBSET DOMAIN rows
      /\ PageLength \in Nat /\ PageLength + 1 \in Nat
  BY <1>1, PageBounds DEF PagesTypeOK
<1>3. \A i \in untouched : Rec(i).id = i
  BY DEF Rec
<1>4. CASE stream = "timeline"
  <2> DEFINE C == Continued("admin")
             A == First(PageLength + 1, C)
  <2>1. Matched = walk.read \cup A
    BY <1>4 DEF Matched
  <2>2. /\ C \in SUBSET Record
        /\ \A r \in C : r = Rec(r.id) /\ (walk.cursor = NoCursor \/ Later(r, CursorRow))
        /\ \A i \in DOMAIN rows : rows[i].store = "admin" /\ Listed(i) /\ Passed(i) => Rec(i) \in C
    BY <1>1, ContinuedFacts
  <2> HIDE DEF C
  <2>3. /\ A \in SUBSET C
        /\ \A s \in A, r \in C \ A : Later(r, s)
        /\ A # C => PageLength + 1 <= Cardinality(A)
    BY <1>2, <2>2, FirstFacts
  <2> HIDE DEF A
  <2>4. \A i \in untouched : Passed(i) => Due(i)
    <3> TAKE i \in untouched
    <3> HAVE Passed(i)
    <3>1. CASE rows[i].store = "source"
      <4>1. \/ Rec(i) \in walk.read
            \/ Cardinality(walk.read) > PageLength /\ \A r \in walk.read : Later(Rec(i), r)
        BY <1>1, <3>1, <1>4 DEF ReadFits
      <4>2. QED
        BY <2>1, <4>1
    <3>2. CASE rows[i].store = "admin"
      <4>1. Rec(i) \in C
        BY <1>2, <1>4, <2>2, <3>2 DEF Listed
      <4>2. CASE Rec(i) \notin A
        <5>1. (\A r \in A : Later(Rec(i), r)) /\ PageLength + 1 <= Cardinality(A)
          BY <2>3, <4>1, <4>2
        <5>2. Cardinality(A) \in Nat
          BY <2>2, <2>3, FiniteRecords
        <5>3. Cardinality(A) > PageLength
          BY <1>2, <5>1, <5>2
        <5>4. QED
          BY <2>1, <5>1, <5>3
      <4>3. QED
        BY <2>1, <4>2
    <3>3. QED
      BY <1>1, <1>2, <3>1, <3>2 DEF PagesTypeOK, Placed
  <2>5. \A r \in Matched : r.id \in untouched => r = Rec(r.id)
    BY <1>1, <2>1, <2>2, <2>3 DEF ReadFits
  <2>6. \A r \in Matched : walk.cursor = NoCursor \/ Later(r, CursorRow)
    BY <1>1, <1>4, <2>1, <2>2, <2>3 DEF ReadFits
  <2>7. Matched \in SUBSET Record
    BY <1>2, <2>1, <2>2, <2>3
  <2>8. QED
    BY <2>4, <2>5, <2>6, <2>7
<1>5. CASE stream = "activity"
  <2>1. Matched = walk.read
    BY <1>5 DEF Matched
  <2>2. \A i \in untouched : Passed(i) => Due(i)
    BY <1>1, <1>5, <2>1 DEF ReadFits
  <2>3. QED
    BY <1>1, <1>2, <1>5, <2>1, <2>2 DEF ReadFits
<1>6. CASE stream = "findings"
  <2>1. Matched = {r \in walk.read :
            /\ r.id \in DOMAIN rows => rows[r.id].inside
            /\ walk.cursor = NoCursor \/ After(r.at, r.id, walk.cursor[1], walk.cursor[2])}
    BY <1>6 DEF Matched
  <2>2. \A r \in Matched : walk.cursor = NoCursor \/ Later(r, CursorRow)
    BY <2>1 DEF Later, CursorRow
  <2>3. \A i \in untouched : Passed(i) => Rec(i) \in Matched
    <3> TAKE i \in untouched
    <3> HAVE Passed(i)
    <3>1. Rec(i) \in walk.read
      BY <1>1, <1>6 DEF ReadFits
    <3>2. rows[i].inside
      BY <1>1 DEF InsideKept
    <3>3. Rec(i).id = i /\ Rec(i).at = rows[i].at
      BY DEF Rec
    <3>4. QED
      BY <2>1, <3>1, <3>2, <3>3 DEF Passed
  <2>4. \A r \in Matched : r \in walk.read
    BY <2>1
  <2>5. \A r \in Matched : r.id \in untouched => r = Rec(r.id)
    BY <1>1, <2>4 DEF ReadFits
  <2>6. QED
    BY <1>2, <2>2, <2>3, <2>4, <2>5
<1>7. QED
  BY <1>1, <1>4, <1>5, <1>6 DEF PagesTypeOK

\* A page holds every row that stays and follows the cursor, or a full page of
\* rows that come before it.
LEMMA PageFacts ==
    ASSUME PagesInv, walk.at = "read", NEW P, P = First(PageLength, Matched)
    PROVE  /\ P \in SUBSET Matched /\ P \in SUBSET Record
           /\ Cardinality(Matched) > PageLength => PageLength <= Cardinality(P)
           /\ \A i \in untouched : Passed(i) =>
                 \/ Rec(i) \in P
                 \/ Cardinality(Matched) > PageLength /\ \A r \in P : Later(Rec(i), r)
<1> DEFINE M == Matched
<1>1. PagesTypeOK /\ PageLength \in Nat /\ M \in SUBSET Record
  BY MatchedFacts, PageBounds DEF PagesInv
<1>2. \A i \in untouched : Passed(i) =>
         \/ Rec(i) \in M
         \/ \E X \in SUBSET M : Cardinality(X) > PageLength /\ \A r \in X : Later(Rec(i), r)
  BY MatchedFacts
<1>3. P = First(PageLength, M)
  OBVIOUS
<1> HIDE DEF M
<1>4. /\ P \in SUBSET M
      /\ \A s \in P, r \in M \ P : Later(r, s)
      /\ \A s \in P : Cardinality(Earlier(s, M)) < PageLength
      /\ Cardinality(M) <= PageLength => P = M
      /\ P # M => PageLength <= Cardinality(P)
  BY <1>1, <1>3, FirstFacts
<1>5. \A X \in SUBSET M : /\ IsFiniteSet(X) /\ Cardinality(X) \in Nat
                          /\ Cardinality(X) <= Cardinality(M) /\ Cardinality(M) \in Nat
  <2> TAKE X \in SUBSET M
  <2>1. X \in SUBSET Record
    BY <1>1
  <2>2. IsFiniteSet(X) /\ Cardinality(X) \in Nat /\ IsFiniteSet(M) /\ Cardinality(M) \in Nat
    BY <1>1, <2>1, FiniteRecords
  <2>3. QED
    BY <2>2, FS_Subset
<1>6. Cardinality(M) > PageLength => PageLength <= Cardinality(P)
  BY <1>1, <1>4, <1>5
<1>7. ASSUME NEW i \in untouched, Passed(i)
      PROVE  Rec(i) \in P \/ (Cardinality(M) > PageLength /\ \A r \in P : Later(Rec(i), r))
  <2>1. CASE Rec(i) \in M
    <3>1. CASE Rec(i) \notin P
      <4>1. \A r \in P : Later(Rec(i), r)
        BY <1>4, <2>1, <3>1
      <4>2. ~(Cardinality(M) <= PageLength)
        BY <1>4, <2>1, <3>1
      <4>3. QED
        BY <1>1, <1>4, <1>5, <4>1, <4>2
    <3>2. QED
      BY <3>1
  <2>2. ASSUME NEW X \in SUBSET M, Cardinality(X) > PageLength, \A r \in X : Later(Rec(i), r)
        PROVE  Cardinality(M) > PageLength /\ \A r \in P : Later(Rec(i), r)
    <3>1. Cardinality(M) > PageLength
      BY <1>1, <1>5, <2>2
    <3>2. ASSUME NEW s \in P, ~Later(Rec(i), s) PROVE FALSE
      <4>1. Rec(i) \in Record /\ s \in Record
        BY <1>1, <1>4, CursorRowFacts DEF PagesTypeOK
      <4>2. \A r \in X : r \in Record /\ Later(Rec(i), r)
        BY <1>1, <2>2
      <4>3. \A r \in X : Later(s, r)
        BY <3>2, <4>1, <4>2, LaterOrder
      <4>4. X \in SUBSET Earlier(s, M)
        BY <4>3 DEF Earlier
      <4>5. Earlier(s, M) \in SUBSET M
        BY DEF Earlier
      <4>6. Cardinality(X) <= Cardinality(Earlier(s, M))
        BY <1>5, <4>4, <4>5, FS_Subset
      <4>7. Cardinality(Earlier(s, M)) < PageLength
        BY <1>4
      <4>8. QED
        BY <1>1, <1>5, <2>2, <4>5, <4>6, <4>7
    <3>3. QED
      BY <3>1, <3>2
  <2>3. QED
    BY <1>2, <1>7, <2>1, <2>2
<1>8. QED
  BY <1>1, <1>4, <1>6, <1>7 DEF M

LEMMA Appended ==
    ASSUME NEW S, NEW s \in Seq(S), NEW k \in Nat, NEW f \in [1..k -> S]
    PROVE  /\ s \o f \in Seq(S) /\ DOMAIN (s \o f) = 1..Len(s) + k /\ Len(s) \in Nat
           /\ \A n \in 1..Len(s) : (s \o f)[n] = s[n]
           /\ \A n \in 1..k : (s \o f)[Len(s) + n] = f[n]
<1>1. f \in Seq(S) /\ Len(f) = k
  OBVIOUS
<1>2. QED
  BY <1>1

\* The page and the cursor.
LEMMA ShowPageKeeps == PagesInv /\ ShowPage => PagesInv'
<1> SUFFICES ASSUME PagesInv, ShowPage PROVE PagesInv'
  OBVIOUS
<1> DEFINE M == Matched
           length == Len(pages)
<1>1. PagesTypeOK /\ KeptWhere /\ ShownSoFar /\ InsideKept /\ UnchangedOnce
  BY DEF PagesInv
<1>2. walk.at = "read" /\ M \in SUBSET Record
  BY MatchedFacts DEF ShowPage
<1>3. PICK P : P = First(PageLength, M)
  OBVIOUS
<1>4. PICK k : k = Cardinality(P)
  OBVIOUS
<1>5. PICK page : page = InOrder(P)
  OBVIOUS
<1>6. /\ P \in SUBSET M /\ P \in SUBSET Record
      /\ Cardinality(M) > PageLength => PageLength <= k
      /\ \A i \in untouched : Passed(i) =>
            \/ Rec(i) \in P
            \/ Cardinality(M) > PageLength /\ \A r \in P : Later(Rec(i), r)
  BY <1>2, <1>3, <1>4, PageFacts
<1>7. /\ k \in Nat /\ page \in [1..k -> P]
      /\ \A m, n \in 1..k : m < n => Later(page[n], page[m])
      /\ \A r \in P : \E n \in 1..k : page[n] = r
  BY <1>4, <1>5, <1>6, FiniteRecords, InOrderFacts
<1>8. PICK names : names = [n \in 1..k |-> page[n].id]
  OBVIOUS
<1>9. names \in [1..k -> Ids] /\ \A n \in 1..k : names[n] = page[n].id
  BY <1>6, <1>7, <1>8 DEF Record
<1>10. /\ pages' = pages \o names
       /\ walk' = [walk EXCEPT !.at = IF Cardinality(M) > PageLength THEN "more" ELSE "end", !.read = {},
                      !.cursor = IF Cardinality(M) > PageLength THEN <<page[Len(page)].at, page[Len(page)].id>> ELSE @]
       /\ UNCHANGED <<stream, hour, rows, touches, untouched>>
  BY <1>3, <1>5, <1>7, <1>8 DEF ShowPage
<1>11. Len(page) = k
  BY <1>7
<1>12. /\ pages' \in Seq(Ids) /\ DOMAIN pages' = 1..length + k /\ length \in Nat
       /\ DOMAIN pages = 1..length
       /\ \A n \in 1..length : pages'[n] = pages[n]
       /\ \A n \in 1..k : pages'[length + n] = page[n].id
  BY <1>1, <1>7, <1>9, <1>10, Appended DEF PagesTypeOK
<1> HIDE DEF M, length
<1>13. Cardinality(M) > PageLength =>
         k \in 1..k /\ page[k] \in P /\ page[k] \in Record
  BY <1>6, <1>7, PageBounds
<1>14. /\ walk' \in [at : Stops, cursor : {NoCursor} \cup (Hours \X Ids), window : Seq(Int),
                     read : SUBSET Record]
       /\ Cardinality(M) > PageLength => walk'.at = "more" /\ walk'.cursor = <<page[k].at, page[k].id>>
       /\ ~(Cardinality(M) > PageLength) => walk'.at = "end"
       /\ walk'.window = walk.window
  <2>1. CASE Cardinality(M) > PageLength
    <3>1. page[k].at \in Hours /\ page[k].id \in Ids
      BY <1>13, <2>1 DEF Record
    <3>2. walk' = [walk EXCEPT !.at = "more", !.read = {}, !.cursor = <<page[k].at, page[k].id>>]
      BY <1>10, <1>11, <2>1
    <3>3. QED
      BY <1>1, <2>1, <3>1, <3>2 DEF PagesTypeOK, Stops
  <2>2. CASE ~(Cardinality(M) > PageLength)
    <3>1. walk' = [walk EXCEPT !.at = "end", !.read = {}]
      BY <1>1, <1>10, <2>2 DEF PagesTypeOK
    <3>2. QED
      BY <1>1, <2>2, <3>1 DEF PagesTypeOK, Stops
  <2>3. QED
    BY <2>1, <2>2
<1>15. \A i \in untouched : Rec(i) \in Record /\ (Rec(i))' = Rec(i) /\ Rec(i).id = i
  BY <1>1, <1>10, CursorRowFacts DEF PagesTypeOK, Rec
<1>16. \A i \in untouched :
          /\ i \in Shown <=> ~Passed(i)
          /\ Passed(i) <=> walk.cursor = NoCursor \/ Later(Rec(i), CursorRow)
  BY <1>1, <1>2, CursorRowFacts DEF ShownSoFar, PagesTypeOK
\* What the page shows of the rows that stay.
<1>17. \A n \in 1..k : page[n].id \in untouched => page[n] = Rec(page[n].id)
  BY <1>2, <1>6, <1>7, MatchedFacts DEF M
<1>18. \A i \in untouched : Rec(i) \in P => \E n \in 1..k : page[n].id = i
  BY <1>7, <1>15
<1>19. \A r \in P : walk.cursor = NoCursor \/ Later(r, CursorRow)
  BY <1>2, <1>6, MatchedFacts DEF M
<1>20. walk.cursor # NoCursor => CursorRow \in Record
  BY <1>1, CursorRowFacts
<1>21. \A i \in Ids : i \in Shown' <=> i \in Shown \/ \E n \in 1..k : page[n].id = i
  <2> TAKE i \in Ids
  <2>1. ASSUME i \in Shown PROVE i \in Shown'
    BY <1>7, <1>12, <2>1 DEF Shown
  <2>2. ASSUME NEW n \in 1..k, page[n].id = i PROVE i \in Shown'
    <3>1. length + n \in 1..length + k
      BY <1>7, <1>12
    <3>2. QED
      BY <1>12, <2>2, <3>1 DEF Shown
  <2>3. ASSUME NEW m \in 1..length + k, pages'[m] = i
        PROVE  i \in Shown \/ \E n \in 1..k : page[n].id = i
    <3>1. CASE m <= length
      BY <1>7, <1>12, <2>3, <3>1 DEF Shown
    <3>2. CASE m > length
      <4>1. m - length \in 1..k /\ m = length + (m - length)
        BY <1>7, <1>12, <3>2
      <4>2. QED
        BY <1>12, <2>3, <4>1
    <3>3. QED
      BY <1>7, <1>12, <3>1, <3>2
  <2>4. QED
    BY <1>12, <2>1, <2>2, <2>3 DEF Shown
\* The new cursor lies between what was shown and what follows.
<1>22. ASSUME Cardinality(M) > PageLength, NEW i \in untouched
       PROVE  i \in Shown' <=> ~Later(Rec(i), page[k])
  <2>1. page[k] \in P /\ page[k] \in Record /\ Rec(i) \in Record /\ k \in 1..k
    BY <1>13, <1>15, <1>22
  <2>2. ASSUME i \in Shown PROVE ~Later(Rec(i), page[k])
    <3>1. walk.cursor # NoCursor /\ ~Later(Rec(i), CursorRow)
      BY <1>16, <2>2
    <3>2. Later(page[k], CursorRow) /\ CursorRow \in Record
      BY <1>19, <1>20, <2>1, <3>1
    <3>3. QED
      BY <2>1, <3>1, <3>2, LaterOrder
  <2>3. ASSUME NEW n \in 1..k, page[n].id = i PROVE ~Later(Rec(i), page[k])
    <3>1. page[n] = Rec(i)
      BY <1>17, <2>3
    <3>2. CASE n = k
      BY <2>1, <3>1, <3>2, LaterOrder
    <3>3. CASE n < k
      <4>1. Later(page[k], page[n])
        BY <1>7, <2>1, <3>3
      <4>2. QED
        BY <2>1, <3>1, <4>1, LaterOrder
    <3>4. QED
      BY <1>7, <3>2, <3>3
  <2>4. ASSUME ~Later(Rec(i), page[k]) PROVE i \in Shown \/ \E n \in 1..k : page[n].id = i
    BY <1>6, <1>16, <1>18, <2>1, <2>4
  <2>5. i \in Ids
    BY <1>1 DEF PagesTypeOK
  <2>6. QED
    BY <1>21, <2>2, <2>3, <2>4, <2>5
<1>23. PagesTypeOK' /\ KeptWhere' /\ NotBegun' /\ WindowKept' /\ InsideKept' /\ ReadFits'
  <2>1. walk'.at \in {"more", "end"}
    BY <1>14
  <2>2. PagesTypeOK'
    BY <1>1, <1>10, <1>12, <1>14 DEF PagesTypeOK
  <2>3. WindowKept'
    BY <1>2, <1>10, <1>14 DEF PagesInv, WindowKept
  <2>4. QED
    BY <1>1, <1>10, <2>1, <2>2, <2>3 DEF KeptWhere, NotBegun, InsideKept, ReadFits
<1>24. ShownSoFar'
  <2>1. CASE Cardinality(M) > PageLength
    <3>1. walk'.cursor = <<page[k].at, page[k].id>> /\ walk'.cursor # NoCursor
      <4>1. \A a, b : Len(<<a, b>>) = 2
        OBVIOUS
      <4>2. Len(NoCursor) = 0
        BY DEF NoCursor
      <4>3. walk'.cursor = <<page[k].at, page[k].id>>
        BY <1>14, <2>1
      <4>4. QED
        BY <4>1, <4>2, <4>3
    <3>2. \A i \in untouched : (Passed(i))' <=> Later(Rec(i), page[k])
      BY <1>10, <3>1 DEF Passed, Later, Rec, NoCursor
    <3>3. QED
      BY <1>10, <1>22, <2>1, <3>1, <3>2 DEF ShownSoFar
  <2>2. CASE ~(Cardinality(M) > PageLength)
    BY <1>14, <2>2 DEF ShownSoFar
  <2>3. QED
    BY <2>1, <2>2
<1>25. ASSUME NEW m \in DOMAIN pages', NEW n \in DOMAIN pages', m < n,
              pages'[m] \in untouched, pages'[n] \in untouched
       PROVE  Later(Rec(pages'[n]), Rec(pages'[m]))
  <2>1. m \in 1..length + k /\ n \in 1..length + k
    BY <1>12
  <2>2. CASE n <= length
    <3>1. m \in DOMAIN pages /\ n \in DOMAIN pages
      BY <1>7, <1>12, <1>25, <2>1, <2>2
    <3>2. pages'[m] = pages[m] /\ pages'[n] = pages[n]
      BY <1>12, <3>1
    <3>3. QED
      BY <1>1, <1>25, <3>1, <3>2 DEF UnchangedOnce, Later, Rec
  <2>3. CASE m <= length /\ length < n
    <3>1. m \in 1..length /\ n - length \in 1..k /\ n = length + (n - length)
      BY <1>7, <1>12, <2>1, <2>3
    <3>2. /\ pages'[m] = pages[m] /\ pages[m] \in Shown
          /\ pages'[n] = page[n - length].id
      BY <1>12, <3>1 DEF Shown
    <3>3. page[n - length] = Rec(pages'[n]) /\ page[n - length] \in P
      BY <1>7, <1>17, <1>25, <3>1, <3>2
    <3>4. walk.cursor # NoCursor /\ ~Later(Rec(pages'[m]), CursorRow)
      BY <1>16, <1>25, <3>2
    <3>5. Later(Rec(pages'[n]), CursorRow)
      BY <1>19, <3>3, <3>4
    <3>6. QED
      BY <1>15, <1>20, <1>25, <3>4, <3>5, LaterOrder
  <2>4. CASE length < m
    <3>1. /\ m - length \in 1..k /\ n - length \in 1..k /\ m - length < n - length
          /\ m = length + (m - length) /\ n = length + (n - length)
      <4>1. m \in Int /\ n \in Int /\ length \in Int /\ k \in Int
        BY <1>7, <1>12
      <4>2. m <= length + k /\ n <= length + k /\ length < m /\ length < n
        BY <1>25, <2>1, <2>4, <4>1
      <4>3. QED
        BY <1>25, <4>1, <4>2
    <3>2. pages'[m] = page[m - length].id /\ pages'[n] = page[n - length].id
      BY <1>12, <3>1
    <3>3. page[m - length] = Rec(pages'[m]) /\ page[n - length] = Rec(pages'[n])
      BY <1>17, <1>25, <3>1, <3>2
    <3>4. QED
      BY <1>7, <3>1, <3>3
  <2>5. QED
    BY <1>7, <1>12, <2>1, <2>2, <2>3, <2>4
<1>26. walk'.at = "end" => untouched \subseteq Shown'
  <2> SUFFICES ASSUME walk'.at = "end", NEW i \in untouched PROVE i \in Shown'
    OBVIOUS
  <2>1. ~(Cardinality(M) > PageLength)
    BY <1>14
  <2>2. i \in Shown \/ \E n \in 1..k : page[n].id = i
    BY <1>6, <1>16, <1>18, <2>1
  <2>3. QED
    BY <1>1, <1>21, <2>2 DEF PagesTypeOK
<1>27. UnchangedOnce'
  <2>1. \A m, n \in DOMAIN pages' : (m < n /\ {pages'[m], pages'[n]} \subseteq untouched') =>
           After(rows'[pages'[n]].at, pages'[n], rows'[pages'[m]].at, pages'[m])
    BY <1>10, <1>25 DEF Later, Rec
  <2>2. QED
    BY <1>10, <1>26, <2>1 DEF UnchangedOnce, Shown
<1>28. QED
  BY <1>23, <1>24, <1>27 DEF PagesInv

\* Rows that come, move or go disturb nothing of those that stay.
LEMMA TouchKeeps == PagesInv /\ Touch => PagesInv'
<1> SUFFICES ASSUME PagesInv, Touch PROVE PagesInv'
  OBVIOUS
<1>1. /\ PagesTypeOK /\ KeptWhere /\ ShownSoFar /\ WindowKept /\ InsideKept /\ ReadFits
      /\ UnchangedOnce
  BY DEF PagesInv
<1>2. /\ touches' = touches + 1 /\ walk.at \notin {"start", "end"}
      /\ UNCHANGED <<stream, hour, walk, pages>>
  BY DEF Touch
<1>3. PICK i \in Ids :
        /\ \/ i \in DOMAIN rows /\ rows' = [j \in DOMAIN rows \ {i} |-> rows[j]]
           \/ \E r \in Placed :
                 /\ stream = "activity" => r.store = "source"
                 /\ stream = "findings" => r.store = "admin"
                 /\ stream # "findings" => r.inside
                 /\ rows' = [j \in DOMAIN rows \cup {i} |-> IF j = i THEN r ELSE rows[j]]
        /\ untouched' = untouched \ {i}
  BY DEF Touch
<1> DEFINE RowsStay ==
             /\ DOMAIN rows' \in SUBSET Ids /\ \A j \in DOMAIN rows' : rows'[j] \in Placed
             /\ KeptWhere'
             /\ untouched' \in SUBSET DOMAIN rows'
             /\ \A j \in untouched' : j \in untouched /\ rows'[j] = rows[j]
<1>4. RowsStay
  <2>1. CASE i \in DOMAIN rows /\ rows' = [j \in DOMAIN rows \ {i} |-> rows[j]]
    BY <1>1, <1>2, <1>3, <2>1 DEF PagesTypeOK, KeptWhere
  <2>2. ASSUME NEW r \in Placed,
               stream = "activity" => r.store = "source",
               stream = "findings" => r.store = "admin",
               stream # "findings" => r.inside,
               rows' = [j \in DOMAIN rows \cup {i} |-> IF j = i THEN r ELSE rows[j]]
        PROVE  RowsStay
    BY <1>1, <1>2, <1>3, <2>2 DEF PagesTypeOK, KeptWhere
  <2>3. QED
    BY <1>3, <2>1, <2>2
<1>5. PagesTypeOK'
  BY <1>1, <1>2, <1>4 DEF PagesTypeOK
<1>6. \A j \in untouched' : (Rec(j))' = Rec(j) /\ (Passed(j))' = Passed(j)
  BY <1>2, <1>4 DEF Rec, Passed
<1>7. NotBegun' /\ ShownSoFar' /\ WindowKept' /\ InsideKept'
  BY <1>1, <1>2, <1>4, <1>6 DEF NotBegun, ShownSoFar, WindowKept, InsideKept, Shown
<1>8. ReadFits'
  <2> SUFFICES ASSUME walk.at = "read" PROVE ReadFits'
    BY <1>2 DEF ReadFits
  <2>1. \A r \in walk.read : r.id \in untouched' => r = (Rec(r.id))'
    BY <1>1, <1>4, <1>6 DEF ReadFits
  <2>2. CursorRow' = CursorRow
    BY <1>2 DEF CursorRow
  <2>3. stream # "findings" => \A r \in walk.read : walk.cursor = NoCursor \/ Later(r, CursorRow)
    BY <1>1 DEF ReadFits
  <2>4. \A j \in untouched' : (Passed(j))' /\ (stream = "timeline" => rows'[j].store = "source") =>
           \/ (Rec(j))' \in walk.read
           \/ /\ stream # "findings" /\ Cardinality(walk.read) > PageLength
              /\ \A r \in walk.read : Later((Rec(j))', r)
    BY <1>1, <1>4, <1>6 DEF ReadFits
  <2>5. QED
    BY <1>2, <2>1, <2>2, <2>3, <2>4 DEF ReadFits, Later
<1>9. UnchangedOnce'
  BY <1>1, <1>2, <1>4 DEF UnchangedOnce
<1>10. QED
  BY <1>4, <1>5, <1>7, <1>8, <1>9 DEF PagesInv

LEMMA PagesInvStep == PagesInv /\ [PagesNext]_pageVars => PagesInv'
<1> SUFFICES ASSUME PagesInv, [PagesNext]_pageVars PROVE PagesInv'
  OBVIOUS
<1>1. ASSUME UNCHANGED <<stream, rows, touches, walk, pages, untouched>>, hour' \in Nat
      PROVE  PagesInv'
  <2>1. /\ PagesTypeOK' /\ KeptWhere' /\ NotBegun' /\ InsideKept' /\ WindowKept'
    BY <1>1 DEF PagesInv, PagesTypeOK, KeptWhere, NotBegun, InsideKept, WindowKept
  <2>2. ShownSoFar' /\ UnchangedOnce'
    BY <1>1 DEF PagesInv, ShownSoFar, UnchangedOnce, Shown, Passed
  <2>3. ReadFits'
    BY <1>1 DEF PagesInv, ReadFits, Rec, CursorRow, Passed, Later
  <2>4. QED
    BY <2>1, <2>2, <2>3 DEF PagesInv
<1>2. hour \in Nat
  BY DEF PagesInv, PagesTypeOK
<1>3. CASE HourPasses
  BY <1>1, <1>2, <1>3 DEF HourPasses
<1>4. CASE UNCHANGED pageVars
  BY <1>1, <1>2, <1>4 DEF pageVars
<1>5. QED
  BY <1>3, <1>4, ReadRowsKeeps, ShowPageKeeps, TouchKeeps DEF PagesNext

\* A row that stays as it is while others come, move and go, is shown once, in its
\* place, by whichever list is walked: the cursor names a row and the next page
\* starts after it, both databases give a page and one row more, and the page
\* that says it is the last has nothing left out (ReadRows, ShowPage, Touch).
THEOREM WalkShowsOnce == PagesSpec => []UnchangedOnce
<1>1. PagesInv => UnchangedOnce
  BY DEF PagesInv
<1>2. QED
  BY <1>1, PagesInvInit, PagesInvStep, PTL DEF PagesSpec

=============================================================================
