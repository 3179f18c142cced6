---------------------------- MODULE ReleaseControl ----------------------------
(***************************************************************************)
(* The controller's side of a release: packaging main and writing its pins *)
(* into the local files (ansible/scripts/package_release.py, with          *)
(* build_release.py), deploying what the files pin after a dry run         *)
(* (scripts/deploy.py), and the playbook run by hand. Packaging and        *)
(* deploying share the lock of the approval file, which ends with its      *)
(* process; operators edit the files, and put other archives in place,     *)
(* without it. Several files are replaced one after the other.             *)
(***************************************************************************)
EXTENDS FiniteSets, Naturals

CONSTANTS
    Revisions,        \* commits of main that are packaged, with their archives
    APPROVALS,      \* approvals.local.yml, whose pins override the inventories'
    Inventories,    \* the local inventories
    Operators,      \* invocations of the scripts under way
    MaxEdited, \* bound: edits and archives put in place without the scripts
    NoOperator, NoCommit

ASSUME OperatorAssumption == NoOperator \notin Operators
ASSUME CommitAssumption == NoCommit \notin Revisions
ASSUME FileAssumption == APPROVALS \notin Inventories
ASSUME HandEditBound == MaxEdited \in Nat

VARIABLES
    main,       \* origin/main
    archive,    \* what lies at each commit's archive path
    pin,        \* the commit each local file pins, and its other content
    confirmed,  \* the approval file records a confirmation
    flock,      \* who holds approvals.local.yml.lock
    script,     \* where each invocation is, and what it has read
    deployed,   \* the commit on the host, and the dry runs that passed
    edited,     \* edits by hand so far
    torn        \* a replacement of the files was cut off, or not undone

releaseVars == <<main, archive, pin, confirmed, flock, script, deployed, edited, torn>>

LocalFiles == {APPROVALS} \cup Inventories
Resting == [at |-> "resting"]
Contents == [commit : Revisions, note : 0 .. MaxEdited]

ReleaseInit ==
    /\ main \in Revisions
    /\ archive = [c \in Revisions |-> "none"]
    /\ \E c \in Revisions : pin = [f \in LocalFiles |-> [commit |-> c, note |-> 0]]
    /\ confirmed \in BOOLEAN
    /\ flock = NoOperator
    /\ script = [o \in Operators |-> Resting]
    /\ deployed = [commit |-> NoCommit, checked |-> {}]
    /\ edited = 0 /\ torn = FALSE

ScriptAt(o, where) == script[o].at = where
Ends(o) ==
    /\ script' = [script EXCEPT ![o] = Resting]
    /\ flock' = IF flock = o THEN NoOperator ELSE flock

----------------------------------------------------------------------------
\* package_release.py. The archive is of main as it was fetched, and is created
\* only where there is none.
Package(o) ==
    /\ ScriptAt(o, "resting") /\ archive[main] = "none"
    /\ archive' = [archive EXCEPT ![main] = "whole"]
    /\ script' = [script EXCEPT ![o] = [at |-> "packaged", commit |-> main]]
    /\ UNCHANGED <<main, pin, confirmed, flock, deployed, edited, torn>>

\* local_configuration_lock, without waiting: the pins stay as they are if it
\* is taken, and the archive stays too.
\* Mutant: packaging does not look at the lock.
FlockIgnored(o) == o \in Operators
FlockFree(o) == flock = NoOperator
ReadPins(o) ==
    /\ ScriptAt(o, "packaged")
    /\ IF FlockFree(o)
       THEN /\ flock' = o
            /\ script' = [script EXCEPT ![o] = [at |-> "staged", commit |-> @.commit, seen |-> pin]]
       ELSE Ends(o)
    /\ UNCHANGED <<main, archive, pin, confirmed, deployed, edited, torn>>

\* replace_configurations: everything is staged, every file must still be as it
\* was read, and then each one that changes is replaced.
VerifyPins(o) ==
    /\ ScriptAt(o, "staged")
    /\ IF pin = script[o].seen
       THEN /\ script' = [script EXCEPT ![o] =
                 [at |-> "replacing", commit |-> @.commit, seen |-> @.seen,
                  left |-> {f \in LocalFiles : pin[f].commit # script[o].commit}]]
            /\ UNCHANGED flock
       ELSE Ends(o)
    /\ UNCHANGED <<main, archive, pin, confirmed, deployed, edited, torn>>
ReplacePin(o) ==
    /\ ScriptAt(o, "replacing")
    /\ \E f \in script[o].left :
          /\ pin' = [pin EXCEPT ![f] = [script[o].seen[f] EXCEPT !.commit = script[o].commit]]
          /\ script' = [script EXCEPT ![o].left = @ \ {f}]
    /\ UNCHANGED <<main, archive, confirmed, flock, deployed, edited, torn>>
PinsReplaced(o) ==
    /\ ScriptAt(o, "replacing") /\ script[o].left = {}
    /\ Ends(o)
    /\ UNCHANGED <<main, archive, pin, confirmed, deployed, edited, torn>>

\* A write that fails puts back what was replaced; putting back can fail too.
ReplaceFails(o) ==
    /\ ScriptAt(o, "replacing") /\ script[o].left # {}
    /\ \E lost \in SUBSET {f \in LocalFiles \ script[o].left : script[o].seen[f].commit # script[o].commit} :
          /\ pin' = [f \in LocalFiles |->
                      IF f \in script[o].left \cup lost \/ script[o].seen[f].commit = script[o].commit
                      THEN pin[f] ELSE script[o].seen[f]]
          /\ torn' = (torn \/ lost # {})
    /\ Ends(o)
    /\ UNCHANGED <<main, archive, confirmed, deployed, edited>>

----------------------------------------------------------------------------
\* deploy.py, up to the dry run: the release is frozen, with all it was read from.
Freeze(o) ==
    /\ ScriptAt(o, "resting") /\ flock = NoOperator
    /\ archive[pin[APPROVALS].commit] = "whole"
    /\ flock' = o
    /\ script' = [script EXCEPT ![o] =
                   [at |-> "checking", commit |-> pin[APPROVALS].commit,
                    seen |-> pin, editedThen |-> edited]]
    /\ UNCHANGED <<main, archive, pin, confirmed, deployed, edited, torn>>

\* The dry run passes, and neither the approval file nor the one inventory the script
\* was given nor the archive has changed since; other inventories are not looked at.
InputsKept(o, inventory) ==
    /\ \A f \in {APPROVALS, inventory} : pin[f] = script[o].seen[f]
    /\ archive[script[o].commit] = "whole"
DryRunPasses(o) ==
    /\ ScriptAt(o, "checking")
    /\ \E inventory \in Inventories :
       IF InputsKept(o, inventory)
       THEN /\ script' = [script EXCEPT ![o].at = "confirming"]
            /\ deployed' = [deployed EXCEPT !.checked = @ \cup {script[o].commit}]
            /\ UNCHANGED flock
       ELSE Ends(o) /\ UNCHANGED deployed
    /\ UNCHANGED <<main, archive, pin, confirmed, edited, torn>>
Confirm(o) ==
    /\ ScriptAt(o, "confirming")
    /\ pin' = [pin EXCEPT ![APPROVALS] = script[o].seen[APPROVALS]]
    /\ confirmed' = TRUE
    /\ script' = [script EXCEPT ![o].at = "applying"]
    /\ UNCHANGED <<main, archive, flock, deployed, edited, torn>>

\* The playbook authenticates the archive against the frozen pins (inputs.yml).
ApplyArchive(o) ==
    /\ ScriptAt(o, "applying") /\ archive[script[o].commit] = "whole"
    /\ deployed' = [deployed EXCEPT !.commit = script[o].commit]
    /\ Ends(o)
    /\ UNCHANGED <<main, archive, pin, confirmed, edited, torn>>

\* The dry run or the apply fails, or any process is ended.
ScriptEnds(o) ==
    /\ ~ ScriptAt(o, "resting")
    /\ torn' = (torn \/ (ScriptAt(o, "replacing") /\ \E f, g \in LocalFiles : pin[f].commit # pin[g].commit))
    /\ Ends(o)
    /\ UNCHANGED <<main, archive, pin, confirmed, deployed, edited>>

\* ansible-playbook -e @approvals.local.yml, with a confirmation on record.
ApplyByHand ==
    /\ confirmed /\ archive[pin[APPROVALS].commit] = "whole"
    /\ deployed' = [deployed EXCEPT !.commit = pin[APPROVALS].commit]
    /\ UNCHANGED <<main, archive, pin, confirmed, flock, script, edited, torn>>

EditByHand ==
    /\ edited < MaxEdited /\ edited' = edited + 1
    /\ \/ \E f \in LocalFiles, c \in Revisions, yes \in BOOLEAN :
             /\ pin' = [pin EXCEPT ![f] = [commit |-> c, note |-> edited']]
             /\ confirmed' = (IF f = APPROVALS THEN yes ELSE confirmed)
             /\ UNCHANGED archive
       \/ \E c \in Revisions, what \in {"none", "other"} :
             archive' = [archive EXCEPT ![c] = what] /\ UNCHANGED <<pin, confirmed>>
    /\ UNCHANGED <<main, flock, script, deployed, torn>>
MainMoves ==
    /\ \E c \in Revisions \ {main} : main' = c
    /\ UNCHANGED <<archive, pin, confirmed, flock, script, deployed, edited, torn>>

ReleaseNext ==
    \/ ApplyByHand \/ EditByHand \/ MainMoves
    \/ \E o \in Operators :
          \/ Package(o) \/ ReadPins(o) \/ VerifyPins(o) \/ ReplacePin(o) \/ PinsReplaced(o)
          \/ ReplaceFails(o) \/ Freeze(o) \/ DryRunPasses(o) \/ Confirm(o) \/ ApplyArchive(o) \/ ScriptEnds(o)
ReleaseSpec == ReleaseInit /\ [][ReleaseNext]_releaseVars

----------------------------------------------------------------------------
\* package_release.py:119: approval changes do not race an apply. While nobody
\* holds the lock, the local files pin one release, unless one was edited by
\* hand or a replacement was cut off; and from its dry run to the end of its
\* apply, a deployment's release is the one they pin, and one whose dry run
\* passed once it is applied, unless somebody edits them by hand meanwhile.
PinsAgree ==
    /\ flock = NoOperator /\ edited = 0 /\ ~ torn =>
          \A f, g \in LocalFiles : pin[f].commit = pin[g].commit
    /\ \A o \in Operators : script[o].at \in {"checking", "confirming", "applying"} =>
          /\ script[o].editedThen = edited => pin = script[o].seen
          /\ ScriptAt(o, "applying") => script[o].commit \in deployed.checked
=============================================================================
