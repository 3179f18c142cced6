------------------------------ MODULE Activation ------------------------------
(***************************************************************************)
(* The activation of a built release on its host and the recovery from a   *)
(* failed one (ansible/roles/uranus_admin/tasks: prepare_activation.yml,   *)
(* activate.yml, maintenance_*.yml, system_recovery.yml; the decisions are *)
(* those of filter_plugins/uranus_admin.py).                               *)
(*                                                                         *)
(* A file is the version of its contents. An application's unit stands for *)
(* the unit and the runtime environment, TIMER for the geocode worker's    *)
(* timer and service, PROXY for the nginx files and the link to the site.  *)
(* What nginx and systemd have loaded is apart from what is installed.     *)
(* "Up" is active and enabled. Every task can fail, with its effect or     *)
(* without; the connection to the host can be lost between two tasks,      *)
(* which no rescue catches; the next attempt starts from what was left.    *)
(* Notification management and the tunnel are at their default, off.       *)
(***************************************************************************)
EXTENDS Naturals, FiniteSets

CONSTANTS
    Apps,         \* application services
    TIMER, PROXY,
    Releases,     \* versions this role can install
    LEGACY,       \* what was there before the role: a site that knows no marker
    MaxAttempts,  \* bound: deployments
    MaxBreaks,    \* bound: deployments that lose their host or whose recovery fails
    MaxDown,      \* bound: units that are down at first
    MaxHands      \* bound: markers the operator sets or removes

ASSUME PartsDistinct == TIMER \notin Apps /\ PROXY \notin Apps \cup {TIMER}
ASSUME LegacyApart == LEGACY \notin Releases /\ {LEGACY, "absent", "down"} \cap Releases = {}
                      /\ LEGACY \notin {"absent", "down"}
ASSUME ActivationBounds == MaxAttempts \in Nat /\ MaxBreaks \in Nat /\ MaxDown \in Nat /\ MaxHands \in Nat

VARIABLES
    file,     \* installed version of each file, or "absent"
    loaded,   \* the version systemd or nginx has loaded
    run,      \* the version each unit runs, or "down"
    marker,   \* the maintenance marker: absent, ansible, operator
    current,  \* the release pointer
    page,     \* ua_maintenance_page_enabled
    at,       \* the task the playbook stands at
    target,   \* the release to activate
    upgrade,  \* the plan found the admin schema UPGRADEABLE
    before,   \* the recovery snapshot
    flags,    \* what has been attempted
    attempts, breaks, hands,
    removed   \* history: the operator removed a marker

hostVars == <<file, loaded, run, marker, current, page>>
attemptVars == <<target, upgrade, before>>
countVars == <<attempts, breaks, hands, removed>>
activationVars == <<hostVars, attemptVars, countVars, at, flags>>

Units == Apps \cup {TIMER}
Files == Units \cup {PROXY}
Installable == Releases \cup {LEGACY}

Ended == {"idle", "done", "recovered", "broken", "lost"}
Activating == {"marking", "proxying", "draining", "stopping", "pausing", "installing",
               "reloading", "starting", "opening", "publishing", "scheduling", "verifying"}
Recovering == {"remarking", "unscheduling", "halting", "restoring", "repointing",
               "redefining", "resuming", "rescheduling", "reproxying", "unmarking"}

Host == [file |-> file, loaded |-> loaded, run |-> run, marker |-> marker, current |-> current]
ActivationInit ==
    /\ page \in BOOLEAN
    /\ \E v \in Installable \cup {"absent"} :
          /\ file = [f \in Files |-> v]
          /\ loaded = [f \in Files |-> v]
          /\ run \in [Units -> {"down", IF v = "absent" THEN "down" ELSE v}]
          /\ v = "absent" \/ Cardinality({u \in Units : run[u] = "down"}) <= MaxDown
          /\ current = IF v \in Releases THEN v ELSE "absent"
    /\ marker \in (IF page THEN {"absent", "operator"} ELSE {"absent"})
    /\ at = "idle"
    /\ target = LEGACY /\ upgrade = FALSE  \* no attempt yet
    /\ before = Host
    /\ flags = {}
    /\ attempts = 0 /\ breaks = 0 /\ hands = 0 /\ removed = FALSE

----------------------------------------------------------------------------
\* Decisions, all from the snapshot and the candidate.

ChangedFiles == {f \in Files : before.file[f] # target}
UnitsChanged == ChangedFiles \cap Units # {}
Restart == {a \in Apps : a \in ChangedFiles \/ before.run[a] = "down" \/ upgrade}
TimerChanges == TIMER \in ChangedFiles \/ upgrade
FirstBootstrap == before.file[PROXY] = "absent" /\ \A a \in Apps : before.file[a] = "absent"
ActivationRequired ==
    \/ ChangedFiles # {} \/ Restart # {} \/ upgrade
    \/ before.marker = "ansible"
    \/ before.run[TIMER] = "down"
    \/ before.current # target

At(here, next) == at = here /\ at' = next
Loop(here) == at = here /\ UNCHANGED at
Flag(f) == flags' = flags \cup {f}
RunsAs(u, v) == run' = [run EXCEPT ![u] = v]
Loads(parts) == loaded' = [f \in Files |-> IF f \in parts THEN file[f] ELSE loaded[f]]
Same == UNCHANGED <<page, attemptVars, countVars>>

\* The marker is written only where there is none (force: false).
Marked == IF marker = "absent" THEN "ansible" ELSE marker

\* prepare_activation.yml: the states that recovery goes back to. A marker is
\* refused where the maintenance page is disabled.
InspectHost ==
    /\ at \in Ended /\ attempts < MaxAttempts
    /\ marker # "absent" => page
    /\ at' = "deciding"
    /\ target' \in Releases /\ upgrade' \in BOOLEAN
    /\ before' = Host
    /\ flags' = {}
    /\ attempts' = attempts + 1
    /\ UNCHANGED <<hostVars, breaks, hands, removed>>
Decide ==
    /\ At("deciding", IF ~ ActivationRequired THEN "done"
                      ELSE IF page THEN "marking" ELSE "stopping")
    /\ UNCHANGED <<hostVars, attemptVars, countVars, flags>>

----------------------------------------------------------------------------
\* activate.yml.

\* maintenance_enable.yml, and the marker of a first bootstrap.
Mark ==
    /\ At("marking", IF FirstBootstrap THEN "stopping" ELSE "proxying")
    /\ Flag("maintenance")
    /\ marker' = Marked
    /\ UNCHANGED <<file, loaded, run, current>> /\ Same
InstallProxy ==
    /\ At("proxying", "draining")
    /\ Flag("install")
    /\ file' = [file EXCEPT ![PROXY] = target]
    /\ UNCHANGED <<loaded, run, marker, current>> /\ Same
\* nginx -t, reload, the end of the old workers, the public 503.
DrainWorkers ==
    /\ At("draining", "stopping")
    /\ Loads({PROXY})
    /\ UNCHANGED <<file, run, marker, current, flags>> /\ Same

StopApp ==
    /\ Loop("stopping")
    /\ Flag("stop")
    /\ \E a \in Restart : run[a] # "down" /\ RunsAs(a, "down")
    /\ UNCHANGED <<file, loaded, marker, current>> /\ Same
AppsStopped ==
    /\ At("stopping", "pausing")
    /\ \A a \in Restart : run[a] = "down"
    /\ Flag("stop")
    /\ UNCHANGED hostVars /\ Same
\* The geocode units, then the upgrade of the admin schema, if one is due.
PauseTimer ==
    /\ At("pausing", "installing")
    /\ IF TimerChanges THEN Flag("timer") /\ RunsAs(TIMER, "down") ELSE UNCHANGED <<flags, run>>
    /\ UNCHANGED <<file, loaded, marker, current>> /\ Same

InstallFile ==
    /\ Loop("installing")
    /\ Flag("install")
    /\ \E f \in ChangedFiles : file[f] # target /\ file' = [file EXCEPT ![f] = target]
    /\ UNCHANGED <<loaded, run, marker, current>> /\ Same
FilesInstalled ==
    /\ At("installing", "reloading")
    /\ \A f \in ChangedFiles : file[f] = target
    /\ Flag("install")
    /\ UNCHANGED hostVars /\ Same
ReloadUnits ==
    /\ At("reloading", "starting")
    /\ Loads(IF UnitsChanged THEN Units ELSE {})
    /\ UNCHANGED <<file, run, marker, current, flags>> /\ Same

StartApp ==
    /\ Loop("starting")
    /\ \E a \in Restart : run[a] = "down" /\ loaded[a] # "absent" /\ RunsAs(a, loaded[a])
    /\ UNCHANGED <<file, loaded, marker, current, flags>> /\ Same
\* The reload of a changed nginx, and the local health checks.
AppsStarted ==
    /\ At("starting", "opening")
    /\ \A a \in Restart : run[a] # "down"
    /\ Loads({PROXY} \cap ChangedFiles)
    /\ UNCHANGED <<file, run, marker, current, flags>> /\ Same

\* maintenance_disable.yml.
LeaveMaintenance ==
    /\ At("opening", "publishing")
    /\ IF page /\ before.marker # "operator"
       THEN marker' = "absent" /\ Loads({PROXY})
       ELSE UNCHANGED <<marker, loaded>>
    /\ UNCHANGED <<file, run, current, flags>> /\ Same

\* The public check expects the login, or the operator's maintenance page.
Publish ==
    /\ At("publishing", "scheduling")
    /\ page => (marker = "absent" <=> before.marker # "operator")
    /\ Flag("pointer")
    /\ current' = target
    /\ UNCHANGED <<file, loaded, run, marker>> /\ Same
TimerStarts ==
    \/ run[TIMER] # "down" /\ UNCHANGED run
    \/ run[TIMER] = "down" /\ loaded[TIMER] # "absent" /\ RunsAs(TIMER, loaded[TIMER])
\* Mutant: recovery is not told of the timer.
ScheduleUnrecorded ==
    /\ At("scheduling", "verifying")
    /\ TimerStarts
    /\ UNCHANGED <<file, loaded, marker, current, flags>> /\ Same
Schedule ==
    /\ At("scheduling", "verifying")
    /\ Flag("timer")
    /\ TimerStarts
    /\ UNCHANGED <<file, loaded, marker, current>> /\ Same
Finish == At("verifying", "done") /\ UNCHANGED <<hostVars, flags>> /\ Same

\* rescue.
TaskFails ==
    /\ at \in Activating
    /\ at' = "remarking"
    /\ UNCHANGED <<hostVars, flags>> /\ Same

----------------------------------------------------------------------------
\* system_recovery.yml.

\* Mutant: the marker is taken to be there.
RemarkAssumed ==
    /\ At("remarking", "unscheduling")
    /\ UNCHANGED <<hostVars, flags>> /\ Same
\* The marker comes back after a failure behind LeaveMaintenance.
Remark ==
    /\ At("remarking", "unscheduling")
    /\ marker' = IF "maintenance" \in flags THEN Marked ELSE marker
    /\ UNCHANGED <<file, loaded, run, current, flags>> /\ Same
Unschedule ==
    /\ At("unscheduling", "halting")
    /\ IF "timer" \in flags /\ loaded[TIMER] # "absent" THEN RunsAs(TIMER, "down") ELSE UNCHANGED run
    /\ UNCHANGED <<file, loaded, marker, current, flags>> /\ Same

ToHalt == {a \in Restart : "stop" \in flags /\ run[a] # "down"}
HaltApp ==
    /\ Loop("halting")
    /\ \E a \in ToHalt : RunsAs(a, "down")
    /\ UNCHANGED <<file, loaded, marker, current, flags>> /\ Same
AppsHalted ==
    /\ At("halting", "restoring")
    /\ ToHalt = {}
    /\ UNCHANGED <<hostVars, flags>> /\ Same

RestoreFile ==
    /\ Loop("restoring")
    /\ \E f \in ChangedFiles : file[f] # before.file[f] /\ file' = [file EXCEPT ![f] = before.file[f]]
    /\ UNCHANGED <<loaded, run, marker, current, flags>> /\ Same
FilesRestored ==
    /\ At("restoring", "repointing")
    /\ \A f \in ChangedFiles : file[f] = before.file[f]
    /\ UNCHANGED <<hostVars, flags>> /\ Same
Repoint ==
    /\ At("repointing", "redefining")
    /\ current' = IF "pointer" \in flags THEN before.current ELSE current
    /\ UNCHANGED <<file, loaded, run, marker, flags>> /\ Same
\* daemon_reload and nginx -t.
Redefine ==
    /\ At("redefining", "resuming")
    /\ Loads(IF UnitsChanged THEN Units ELSE {})
    /\ UNCHANGED <<file, run, marker, current, flags>> /\ Same

ToResume == {a \in Restart : "stop" \in flags /\ before.run[a] # "down" /\ run[a] = "down"}
ResumeApp ==
    /\ Loop("resuming")
    /\ \E a \in ToResume : RunsAs(a, loaded[a])
    /\ UNCHANGED <<file, loaded, marker, current, flags>> /\ Same
AppsResumed ==
    /\ At("resuming", "rescheduling")
    /\ ToResume = {}
    /\ UNCHANGED <<hostVars, flags>> /\ Same
Reschedule ==
    /\ At("rescheduling", "reproxying")
    /\ IF "timer" \in flags /\ before.file[TIMER] # "absent"
       THEN RunsAs(TIMER, IF before.run[TIMER] = "down" THEN "down" ELSE loaded[TIMER])
       ELSE UNCHANGED run
    /\ UNCHANGED <<file, loaded, marker, current, flags>> /\ Same
Reproxy ==
    /\ At("reproxying", "unmarking")
    /\ Loads(IF "install" \in flags THEN {PROXY} \cap ChangedFiles ELSE {})
    /\ UNCHANGED <<file, run, marker, current, flags>> /\ Same
Unmark ==
    /\ At("unmarking", "recovered")
    /\ marker' = IF "maintenance" \in flags /\ before.marker = "absent" THEN "absent" ELSE marker
    /\ UNCHANGED <<file, loaded, run, current, flags>> /\ Same

\* The rescue of the rescue: keep the marker, where that works.
RecoveryFails ==
    /\ at \in Recovering
    /\ breaks < MaxBreaks
    /\ breaks' = breaks + 1
    /\ at' = "broken"
    /\ marker' \in {marker} \cup (IF "maintenance" \in flags THEN {Marked} ELSE {})
    /\ UNCHANGED <<file, loaded, run, current, page, attemptVars, flags, attempts, hands, removed>>

----------------------------------------------------------------------------
\* The controller or the connection dies; nothing is rescued.
LoseHost ==
    /\ at \in Activating \cup Recovering
    /\ breaks < MaxBreaks
    /\ breaks' = breaks + 1
    /\ at' = "lost"
    /\ UNCHANGED <<hostVars, attemptVars, flags, attempts, hands, removed>>

\* The operator opens or closes the site by hand.
Operate ==
    /\ hands < MaxHands
    /\ hands' = hands + 1
    /\ page
    /\ \/ marker = "absent" /\ marker' = "operator" /\ UNCHANGED removed
       \/ marker = "operator" /\ marker' = "absent" /\ removed' = TRUE
    /\ UNCHANGED <<file, loaded, run, current, page, attemptVars, at, flags, attempts, breaks>>

ActivateStep ==
    \/ Mark \/ InstallProxy \/ DrainWorkers \/ StopApp \/ AppsStopped \/ PauseTimer
    \/ InstallFile \/ FilesInstalled \/ ReloadUnits \/ StartApp \/ AppsStarted
    \/ LeaveMaintenance \/ Publish \/ Schedule \/ Finish \/ TaskFails
RecoverStep ==
    \/ Remark \/ Unschedule \/ HaltApp \/ AppsHalted \/ RestoreFile \/ FilesRestored \/ Repoint
    \/ Redefine \/ ResumeApp \/ AppsResumed \/ Reschedule \/ Reproxy \/ Unmark \/ RecoveryFails
ActivationNext ==
    InspectHost \/ Decide \/ ActivateStep \/ RecoverStep \/ LoseHost \/ Operate
ActivationSpec == ActivationInit /\ [][ActivationNext]_activationVars

----------------------------------------------------------------------------
\* Earlier attempts left systemd and nginx with what is installed, and services
\* that run it.
AsInstalled ==
    /\ before.loaded = before.file
    /\ \A u \in Units : before.run[u] # "down" => before.run[u] = before.file[u]

\* "Previous configuration and service states restored" (activate.yml:273): a
\* recovered attempt leaves the files, the release pointer and, unless the
\* operator intervened, the marker as it found them. What ran runs again, in
\* its old version, and what did not stays down, the timer included.
RecoveredAsBefore ==
    at = "recovered" =>
        /\ file = before.file
        /\ current = before.current
        /\ hands = 0 => marker = before.marker
        /\ AsInstalled => run = before.run /\ loaded = before.loaded

\* The public sees the applications only while every service that ran before
\* runs: between the first stop and the last start, in recovery, and after
\* attempts that broke or lost their host, the marker and a proxy that honours it
\* stand in front. With the maintenance page disabled, or a marker removed by
\* hand, this is not promised. And no attempt lets two services run in different
\* versions, unless it found the host otherwise than installed: an attempt that
\* finds its files in place reloads nothing, so that a host which lost several
\* attempts on their way may start two versions (activate.yml, "Reload changed
\* systemd units").
SiteOpen == loaded[PROXY] # "absent" /\ (marker = "absent" \/ loaded[PROXY] = LEGACY)
MaintenanceCovers ==
    /\ page /\ ~ removed /\ SiteOpen => \A a \in Apps : before.run[a] # "down" => run[a] # "down"
    /\ AsInstalled => \A a, b \in Apps : run[a] # "down" /\ run[b] # "down" => run[a] = run[b]

\* A successful attempt, from wherever earlier ones left the host, ends with
\* the release installed, loaded, running and named by "current", provided the
\* host ran what was installed when it began: an attempt that finds its files in
\* place reloads nothing.
DoneIsWhole ==
    at = "done" /\ AsInstalled =>
        /\ current = target
        /\ \A f \in Files : file[f] = target /\ loaded[f] = target
        /\ \A u \in Units : run[u] = target

\* However an attempt ends, the host is as it was, or as the release wants it.
EndsWhole == RecoveredAsBefore /\ DoneIsWhole

=============================================================================
