-------------------------- MODULE NotificationCap --------------------------
(***************************************************************************)
(* What the recipient sees: the deliveries whose mail the SMTP server      *)
(* accepted in the current day, whatever the database came to know of it.  *)
(* A mail whose acceptance was never answered is left out, so the history  *)
(* is the smallest one.                                                    *)
(***************************************************************************)
EXTENDS NotificationDelivery

VARIABLES
    mailed,  \* history: deliveries SMTP accepted in the current day
    lost,    \* history: a lease ran out on a claim of the current day
    mistaken \* history: an accepted mail was taken for a failure

capVars == <<vars, mailed, lost, mistaken>>

CapInit == Init /\ mailed = {} /\ lost = FALSE /\ mistaken = FALSE

Accepted == {job[w] : w \in {v \in Workers : pc[v] = "sending" /\ pc'[v] = "accepted"}}
Ambiguous == \E d \in Deliveries : status[d] = "sending" /\ lease[d] = 0
RunOut == \E d \in Deliveries : status[d] = "sending" /\ lease[d] > 0 /\ lease'[d] = 0

CapNext ==
    \/ NewDay /\ mailed' = {} /\ lost' = Ambiguous /\ UNCHANGED mistaken
    \/ Tick /\ lost' = (lost \/ RunOut) /\ UNCHANGED <<mailed, mistaken>>
    \/ \E w \in Workers : /\ Break(w)
                          /\ mistaken' = (mistaken \/ pc[w] = "accepted")
                          /\ UNCHANGED <<mailed, lost>>
    \/ /\ \/ \E w \in Workers : Work(w) \/ Heartbeat(w) \/ Crash(w)
          \/ \E d \in Deliveries : Retry(d) \/ RetryDue(d)
          \/ \E n \in Notifications, e \in Evidences : WorldChanges(n, e)
       /\ mailed' = mailed \cup Accepted
       /\ UNCHANGED <<lost, mistaken>>

\* The systemd timer starts a pass when the one before it has ended: no two
\* workers are at work at once.
OneAtWork == \E w \in Workers : \A v \in Workers \ {w} : pc[v] = "idle"
SingleSpec == CapInit /\ [][CapNext /\ OneAtWork']_capVars

\* "In-flight reservations count; ambiguous expired leases count by sending_at
\* too, conservatively preserving the daily cap after a process crash"
\* (claim()): as long as no accepted mail is mistaken for a failure, no more
\* than Cap distinct mails are accepted in one day.
DailyCap == ~mistaken => Cardinality(mailed) <= Cap

\* The daily cap holds of what was really mailed while no lease runs out and
\* no accepted mail is taken for a failure: a crashed pass keeps its
\* reservation until then (one worker at a time).
CapWhileLeasesHold == ~lost /\ ~mistaken => Cardinality(mailed) <= Cap
=============================================================================
