---------------------------- MODULE CheckLedger -----------------------------
(***************************************************************************)
(* What the check queue promises to its callers, without workers, leases,  *)
(* locks or clocks: runs are executed one at a time, each ends exactly     *)
(* once, and the finding table changes only when a run succeeds, to what   *)
(* that run saw, which is never older than what the table already showed.  *)
(***************************************************************************)
EXTENDS Naturals

CONSTANTS Runs, MaxSource

VARIABLES status, source, stored

ledgerVars == <<status, source, stored>>

LedgerInit ==
    /\ status = [r \in Runs |-> "absent"]
    /\ source = 0
    /\ stored = 0

Submit(r) ==
    /\ \A e \in Runs : status[e] \notin {"queued", "running"}
    /\ status[r] = "absent"
    /\ status' = [status EXCEPT ![r] = "queued"]
    /\ UNCHANGED <<source, stored>>

Start(r) ==
    /\ status[r] = "queued"
    /\ status' = [status EXCEPT ![r] = "running"]
    /\ UNCHANGED <<source, stored>>

Fail(r) ==
    /\ status[r] = "running"
    /\ status' = [status EXCEPT ![r] = "failed"]
    /\ UNCHANGED <<source, stored>>

Succeed(r) ==
    /\ status[r] = "running"
    /\ status' = [status EXCEPT ![r] = "success"]
    /\ stored' \in stored .. source
    /\ UNCHANGED source

Evolve ==
    /\ source < MaxSource
    /\ source' = source + 1
    /\ UNCHANGED <<status, stored>>

LedgerNext ==
    \/ \E r \in Runs : Submit(r) \/ Start(r) \/ Fail(r) \/ Succeed(r)
    \/ Evolve

LedgerSpec == LedgerInit /\ [][LedgerNext]_ledgerVars
=============================================================================
