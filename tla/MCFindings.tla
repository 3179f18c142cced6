------------------------------ MODULE MCFindings ------------------------------
(* The findings that check runs maintain and the assignments of the work they *)
(* make, side by side: they share no state, for here a task is only what its  *)
(* status allows to do with it, so in each behaviour one of the two moves and *)
(* the other stays as it starts.                                              *)
EXTENDS QualityChecks, Assignments, TLC

CONSTANTS r1, r2, w1, w2, e1, e2, m1, m2, a1, a2, anna, bert

VARIABLE part
findingsVars == <<qualityVars, assignmentVars, part>>

QualityRests == world = [v \in 0 .. MaxSource |-> [f \in Findings |-> "fine"]]
AssignmentsRest == standing = [t \in Tasks |-> "closed"]

FindingsInit ==
    /\ part \in {"findings", "assignments"}
    /\ QualityInit /\ (part # "findings" => QualityRests)
    /\ AssignmentsInit /\ (part # "assignments" => AssignmentsRest)
FindingsNext ==
    /\ UNCHANGED part
    /\ \/ part = "findings" /\ QualityNext /\ UNCHANGED assignmentVars
       \/ part = "assignments" /\ AssignmentsNext /\ UNCHANGED qualityVars
FindingsSpec == FindingsInit /\ [][FindingsNext]_findingsVars

\* Only one part moves, so one symmetry may exchange members of a set of each.
Exchanged == r1 :> r2 @@ r2 :> r1 @@ m1 :> m2 @@ m2 :> m1
AlsoExchanged == w1 :> w2 @@ w2 :> w1 @@ a1 :> a2 @@ a2 :> a1
ExchangedToo == e1 :> e2 @@ e2 :> e1 @@ anna :> bert @@ bert :> anna
Symmetry == {Exchanged} \cup {AlsoExchanged} \cup {ExchangedToo}
=============================================================================
