---------------------------- MODULE TaskOwnership ----------------------------
(* What assigning work promises (services/assignments.py): whoever looks at   *)
(* a task finds at most one assignment responsible for it. A task gets one    *)
(* only while it has none, and loses it only by that assignment's own end;    *)
(* in between the assignment may pass from one administrator to another.      *)
CONSTANTS Tasks, Assignments, Admins

VARIABLE responsible  \* the assignments responsible for each task, and whose they are

OwnershipInit == responsible = [t \in Tasks |-> {}]

Take(t) ==
    /\ responsible[t] = {}
    /\ \E i \in Assignments, a \in Admins : responsible' = [responsible EXCEPT ![t] = {<<i, a>>}]
PassOn(t) ==
    \E i \in Assignments, a \in Admins :
        /\ responsible[t] = {<<i, a>>}
        /\ \E b \in Admins \ {a} : responsible' = [responsible EXCEPT ![t] = {<<i, b>>}]
GiveUp(t) ==
    /\ \E i \in Assignments, a \in Admins : responsible[t] = {<<i, a>>}
    /\ responsible' = [responsible EXCEPT ![t] = {}]

\* Every step of it changes somebody's responsibility.
OwnershipNext ==
    /\ responsible' # responsible
    /\ \E t \in Tasks : Take(t) \/ PassOn(t) \/ GiveUp(t)
OwnershipSpec == OwnershipInit /\ [][OwnershipNext]_responsible
=============================================================================
