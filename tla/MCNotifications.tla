-------------------------- MODULE MCNotifications --------------------------
(* Two instances of the deliveries side by side. In one, two workers serve *)
(* a single notification through two stages, and what SMTP accepted is not *)
(* recorded. In the other, two notifications of one stage share the cap,   *)
(* and workers follow one another: no two are at work at once.             *)
EXTENDS NotificationCap, TLC

VARIABLES part, only
sideVars == <<capVars, part, only>>

SideInit ==
    /\ CapInit
    /\ \/ part = "overlap" /\ \E n \in Notifications : only = {n}
       \/ part = "cap" /\ only = Notifications
SideNext ==
    /\ UNCHANGED <<part, only>>
    /\ \/ /\ part = "overlap"
          /\ Next /\ UNCHANGED <<mailed, lost, mistaken>>
          /\ \A n \in Notifications \ only : UNCHANGED world[n]
          /\ \A n \in only : world'[n] # world[n] => world'[n].status # "suppressed"
       \/ /\ part = "cap"
          /\ CapNext /\ OneAtWork'
          /\ \A n \in Notifications : world'[n].status # "ended" /\ world'[n].stage <= 1
SideSpec == SideInit /\ [][SideNext]_sideVars

\* What no step and no property reads any more is left out of the states that are
\* told apart: of a row that is not being sent its lease, of one that ended its
\* attempts and delays, of a cancelled one its anchors, of a check of the evidence
\* everything but its answer, of a worker that can record nothing more of its
\* delivery which one that was and how far it got.
Live(f, S, rest) == [d \in Deliveries |-> IF status[d] \in S THEN f[d] ELSE rest]
Lost(w) ==
    /\ part = "overlap"
    /\ \/ pc[w] \in {"valid", "sending", "accepted", "refused", "failing"} /\ ~HoldsLease(w)
       \/ pc[w] \in {"claimed", "fresh", "obsolete"} /\ ~Owns(w)
Told(w) ==
    IF Lost(w) THEN <<"lost">>
    ELSE <<pc[w], job[w],
           IF pc[w] = "fresh"
           THEN \A n \in Items(content[job[w]]) : seen[w][n].stage = content[job[w]][n].stage
           ELSE seen[w]>>
View ==
    <<status, worker, rank, content, parent, known, world, plan,
      Live(lease, {"sending"}, 0), Live(attempts, Outstanding, 0), Live(wait, Outstanding, "now"),
      Live(today, {"sending", "sent"}, FALSE),
      Live(anchor, (Outstanding \cup Terminal) \ {"cancelled"}, <<>>),
      [w \in Workers |-> Told(w)], mailed, lost, mistaken, part, only>>

\* Workers and notifications are interchangeable.
Symmetry == Permutations(Notifications) \cup Permutations(Workers)
=============================================================================
