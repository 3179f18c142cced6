---------------------------- MODULE AdminDatabase ----------------------------
(***************************************************************************)
(* First installation and upgrade of the admin schema by a deployment      *)
(* (ansible/roles/uranus_admin/library/uranus_admin_database.py, the       *)
(* launcher files/admin_database_migrate.py it starts, and the tasks       *)
(* admin_database_bootstrap.yml and admin_database_upgrade.yml around it). *)
(*                                                                         *)
(* A controller plans without a lock, builds the release, and then runs    *)
(* the module under a session lock. The module may give admin_migrator     *)
(* CREATE on the database for the time of the migration, and takes it back *)
(* in a finally; a task of its own takes it back once more, without the    *)
(* lock. The migration is another process with one transaction on a        *)
(* connection of its own: when the module stops waiting for it, or dies,   *)
(* only the launcher is killed, and the transaction goes on.               *)
(*                                                                         *)
(* The inspections read one state each: they are separate READ COMMITTED   *)
(* queries, of which the model takes the answers together. Rights, owners, *)
(* attributes, source tables and unknown objects that only make an         *)
(* inspection report DRIFTED are one flag.                                 *)
(***************************************************************************)
EXTENDS Naturals, FiniteSets

CONSTANTS
    Controllers,   \* ansible runs against this database
    MayBootstrap,  \* those with ua_admin_database_bootstrap_approved, in staging or test
    MayUpgrade,    \* those with ua_admin_database_upgrade_approved
    MaxChanges,    \* bound: objects an administrator adds to or removes from the schema
    MaxLosses,     \* bound: modules killed and cleanup tasks that do not reach the host
    NoController

ASSUME ControllersMay ==
    MayBootstrap \subseteq Controllers /\ MayUpgrade \subseteq Controllers
ASSUME ControllerBounds ==
    MaxChanges \in Nat /\ MaxLosses \in Nat /\ NoController \notin Controllers

VARIABLES
    schema,    \* the committed admin schema: absent, an upgrade contract's, the release's
    odd,       \* there is something in it that no contract knows
    roles,     \* the four roles exist
    create,    \* admin_migrator has CREATE on the database
    holder,    \* holder of pg_advisory_lock(762083)
    play,      \* where each controller stands
    task,      \* bootstrap or upgrade, by the controller's plan
    fine,      \* the module of that task has not failed
    migration, \* where the migration each controller started stands
    origin,    \* the schema its verify_origin found
    orphan,    \* controllers that no longer wait for their migration
    changes, losses,
    lost       \* history: a cleanup did not happen

schemaVars == <<schema, odd, roles, create>>
playVars == <<holder, play, task, fine>>
migrationVars == <<migration, origin, orphan>>
boundVars == <<changes, losses, lost>>
databaseVars == <<schemaVars, playVars, migrationVars, boundVars>>

Running == {"started", "verified", "changed", "checked"}
InModule == {"inspecting", "preparing", "reinspecting", "granting", "starting",
             "migrating", "revoking", "concluding"}

\* AdminDatabase.inspect: missing roles are a problem only of an existing
\* schema, CREATE only of an existing role.
State ==
    IF create \/ odd \/ (schema # "absent" /\ ~ roles) THEN "DRIFTED"
    ELSE CASE schema = "absent" -> "ABSENT"
           [] schema = "old" -> "UPGRADEABLE"
           [] schema = "target" -> "READY"

DatabaseInit ==
    /\ schema \in {"absent", "old", "target"}
    /\ odd = FALSE
    /\ roles \in (IF schema = "absent" THEN BOOLEAN ELSE {TRUE})
    /\ create = FALSE
    /\ holder = NoController
    /\ play = [c \in Controllers |-> "idle"]
    /\ task = [c \in Controllers |-> "none"]
    /\ fine = [c \in Controllers |-> TRUE]
    /\ migration = [c \in Controllers |-> "none"]
    /\ origin = [c \in Controllers |-> schema]
    /\ orphan = {}
    /\ changes = 0 /\ losses = 0 /\ lost = FALSE

Moves(c, from, to) == play[c] = from /\ play' = [play EXCEPT ![c] = to]

\* After the module: only a bootstrap has an "always" that revokes; the
\* controller goes on to verify when the module did not fail.
AfterModule(c) ==
    IF task[c] = "bootstrap" THEN "cleaning" ELSE IF fine'[c] THEN "verifying" ELSE "failed"
ModuleEnds(c, good) ==
    /\ fine' = [fine EXCEPT ![c] = good]
    /\ play' = [play EXCEPT ![c] = AfterModule(c)]
    /\ holder' = NoController
    /\ UNCHANGED task

----------------------------------------------------------------------------
\* The controller.

PlanDatabase(c) ==
    /\ play[c] = "idle"
    /\ LET to == CASE State = "ABSENT" /\ c \in MayBootstrap -> "bootstrap"
                   [] State = "UPGRADEABLE" /\ c \in MayUpgrade -> "upgrade"
                   [] OTHER -> "none"
       IN /\ task' = [task EXCEPT ![c] = to]
          /\ Moves(c, "idle", IF to # "none" THEN "locking"
                              ELSE IF State = "READY" THEN "done" ELSE "failed")
    /\ UNCHANGED <<holder, fine, schemaVars, migrationVars, boundVars>>

LockFree(c) == holder = NoController

TakeLock(c) ==
    /\ LockFree(c)
    /\ Moves(c, "locking", "inspecting")
    /\ holder' = c
    /\ UNCHANGED <<task, fine, schemaVars, migrationVars, boundVars>>

\* lock_timeout, after two seconds.
LockRefused(c) ==
    /\ play[c] = "locking"
    /\ holder # NoController
    /\ fine' = [fine EXCEPT ![c] = FALSE]
    /\ play' = [play EXCEPT ![c] = AfterModule(c)]
    /\ UNCHANGED <<holder, task, schemaVars, migrationVars, boundVars>>

\* bootstrap and upgrade: what is READY by now is left alone, what is not as
\* planned is refused.
InspectLocked(c) ==
    /\ play[c] = "inspecting"
    /\ CASE State = "READY" -> ModuleEnds(c, TRUE)
         [] task[c] = "bootstrap" /\ State = "ABSENT" ->
              Moves(c, "inspecting", "preparing") /\ UNCHANGED <<holder, task, fine>>
         [] task[c] = "upgrade" /\ State = "UPGRADEABLE" ->
              Moves(c, "inspecting", "starting") /\ UNCHANGED <<holder, task, fine>>
         [] OTHER -> ModuleEnds(c, FALSE)
    /\ UNCHANGED <<schemaVars, migrationVars, boundVars>>

PrepareRoles(c) ==
    /\ Moves(c, "preparing", "reinspecting")
    /\ roles' = TRUE
    /\ UNCHANGED <<schema, odd, create, holder, task, fine, migrationVars, boundVars>>

Reinspect(c) ==
    /\ play[c] = "reinspecting"
    /\ IF State = "ABSENT"
       THEN Moves(c, "reinspecting", "granting") /\ UNCHANGED <<holder, task, fine>>
       ELSE ModuleEnds(c, FALSE)
    /\ UNCHANGED <<schemaVars, migrationVars, boundVars>>

GrantCreate(c) ==
    /\ Moves(c, "granting", "starting")
    /\ create' = TRUE
    /\ UNCHANGED <<schema, odd, roles, holder, task, fine, migrationVars, boundVars>>

\* release_migration: the launcher, and the wait for it.
StartMigration(c) ==
    /\ Moves(c, "starting", "migrating")
    /\ migration' = [migration EXCEPT ![c] = "started"]
    /\ UNCHANGED <<origin, orphan, holder, task, fine, schemaVars, boundVars>>

Proceeds(c, good) ==
    /\ Moves(c, "migrating", IF task[c] = "bootstrap" THEN "revoking" ELSE "concluding")
    /\ fine' = [fine EXCEPT ![c] = good]
MigrationEnds(c) ==
    /\ migration[c] \in {"committed", "failed"}
    /\ Proceeds(c, migration[c] = "committed")
    /\ UNCHANGED <<holder, task, schemaVars, migrationVars, boundVars>>
\* subprocess timeout: uv is killed, the python it started is not.
MigrationTimeout(c) ==
    /\ migration[c] \in Running
    /\ Proceeds(c, FALSE)
    /\ orphan' = orphan \cup {c}
    /\ UNCHANGED <<migration, origin, holder, task, schemaVars, boundVars>>

\* bootstrap's finally.
RevokeFinally(c) ==
    /\ Moves(c, "revoking", "concluding")
    /\ create' = FALSE
    /\ UNCHANGED <<schema, odd, roles, holder, task, fine, migrationVars, boundVars>>

Conclude(c) ==
    /\ play[c] = "concluding"
    /\ ModuleEnds(c, fine[c] /\ State = "READY")
    /\ UNCHANGED <<schemaVars, migrationVars, boundVars>>

\* Mutant: the task runs only after a module that succeeded.
CleanUpAfterSuccess(c) ==
    /\ play[c] = "cleaning"
    /\ create' = (create /\ ~ fine[c])
    /\ play' = [play EXCEPT ![c] = IF fine[c] THEN "verifying" ELSE "failed"]
    /\ UNCHANGED <<schema, odd, roles, holder, task, fine, migrationVars, boundVars>>

\* The "always" of admin_database_bootstrap.yml: state=revoke_create, which
\* takes no lock.
CleanUp(c) ==
    /\ play[c] = "cleaning"
    /\ create' = FALSE
    /\ play' = [play EXCEPT ![c] = IF fine[c] THEN "verifying" ELSE "failed"]
    /\ UNCHANGED <<schema, odd, roles, holder, task, fine, migrationVars, boundVars>>

\* A new read-only connection has to find READY.
VerifyReady(c) ==
    /\ Moves(c, "verifying", IF State = "READY" THEN "done" ELSE "failed")
    /\ UNCHANGED <<holder, task, fine, schemaVars, migrationVars, boundVars>>

----------------------------------------------------------------------------
\* The migration.

MigrationMoves(c, from, to) ==
    /\ migration[c] = from
    /\ migration' = [migration EXCEPT ![c] = to]

VerifyOrigin(c) ==
    /\ MigrationMoves(c, "started", IF schema = "old" /\ odd THEN "failed" ELSE "verified")
    /\ origin' = [origin EXCEPT ![c] = schema]
    /\ UNCHANGED <<orphan, schemaVars, playVars, boundVars>>

\* alembic upgrade head and apply_grants. Its statements wait for those of
\* another migration; when that one committed since verify_origin, they find
\* their objects in place or, where the head was read before, fail.
ChangeSchema(c) ==
    /\ \A d \in Controllers : migration[d] \notin {"changed", "checked"}
    /\ \E works \in BOOLEAN :
          /\ schema = origin[c] => works
          /\ MigrationMoves(c, "verified",
                IF works /\ (schema = "absent" => create) THEN "changed" ELSE "failed")
    /\ UNCHANGED <<origin, orphan, schemaVars, playVars, boundVars>>

VerifyTarget(c) ==
    /\ MigrationMoves(c, "changed", IF odd THEN "failed" ELSE "checked")
    /\ UNCHANGED <<origin, orphan, schemaVars, playVars, boundVars>>

CommitMigration(c) ==
    /\ MigrationMoves(c, "checked", "committed")
    /\ schema' = "target"
    /\ UNCHANGED <<odd, roles, create, origin, orphan, playVars, boundVars>>

\* A statement or the connection fails: one transaction, nothing is left.
MigrationFails(c) ==
    /\ migration[c] \in Running
    /\ migration' = [migration EXCEPT ![c] = "failed"]
    /\ UNCHANGED <<origin, orphan, schemaVars, playVars, boundVars>>

----------------------------------------------------------------------------
\* The module is killed or loses its connection: the session ends, and with it
\* the lock. A migration it started goes on.
KillModule(c) ==
    /\ play[c] \in InModule
    /\ losses < MaxLosses
    /\ losses' = losses + 1
    /\ ModuleEnds(c, FALSE)
    /\ orphan' = IF migration[c] \in Running THEN orphan \cup {c} ELSE orphan
    /\ UNCHANGED <<migration, origin, changes, lost, schemaVars>>

\* The cleanup task does not reach the host.
LoseCleanup(c) ==
    /\ losses < MaxLosses
    /\ losses' = losses + 1
    /\ Moves(c, "cleaning", "failed")
    /\ lost' = TRUE
    /\ UNCHANGED <<changes, holder, task, fine, schemaVars, migrationVars>>

Alter ==
    /\ changes < MaxChanges
    /\ schema # "absent"
    /\ changes' = changes + 1
    /\ odd' = ~ odd
    /\ UNCHANGED <<schema, roles, create, playVars, migrationVars, losses, lost>>

Control(c) ==
    \/ PlanDatabase(c) \/ TakeLock(c) \/ LockRefused(c) \/ InspectLocked(c) \/ PrepareRoles(c)
    \/ Reinspect(c) \/ GrantCreate(c) \/ StartMigration(c) \/ MigrationEnds(c)
    \/ MigrationTimeout(c) \/ RevokeFinally(c) \/ Conclude(c) \/ CleanUp(c) \/ VerifyReady(c)
Migrate(c) ==
    \/ VerifyOrigin(c) \/ ChangeSchema(c) \/ VerifyTarget(c) \/ CommitMigration(c)
    \/ MigrationFails(c)
DatabaseNext ==
    \/ Alter
    \/ \E c \in Controllers : Control(c) \/ Migrate(c) \/ KillModule(c) \/ LoseCleanup(c)
DatabaseSpec == DatabaseInit /\ [][DatabaseNext]_databaseVars

----------------------------------------------------------------------------
DatabaseTypeOK ==
    /\ schema \in {"absent", "old", "target"}
    /\ odd \in BOOLEAN /\ roles \in BOOLEAN /\ create \in BOOLEAN
    /\ holder \in Controllers \cup {NoController}
    /\ play \in [Controllers -> InModule \cup {"idle", "locking", "cleaning", "verifying",
                                               "done", "failed"}]
    /\ task \in [Controllers -> {"none", "bootstrap", "upgrade"}]
    /\ fine \in [Controllers -> BOOLEAN]
    /\ migration \in [Controllers -> Running \cup {"none", "committed", "failed"}]
    /\ origin \in [Controllers -> {"absent", "old", "target"}]
    /\ orphan \subseteq Controllers
    /\ changes \in 0 .. MaxChanges /\ losses \in 0 .. MaxLosses /\ lost \in BOOLEAN

\* ansible/README.md:242: a finally path takes CREATE back whatever becomes of
\* the migration, and an independent task does so once more. So admin_migrator
\* has CREATE only while a controller that granted it has one of the two still
\* before it, whatever dies in between and whoever else runs, unless that
\* controller's cleanup was lost.
Pending(c) == play[c] \in {"starting", "migrating", "revoking", "concluding", "cleaning"}
CreateIsTemporary ==
    create => lost \/ \E c \in Controllers : task[c] = "bootstrap" /\ Pending(c)

\* ansible/README.md:248: a session lock keeps bootstraps and upgrades from
\* running side by side. That is true of the modules, and so of the migrations
\* a module still waits for; a second one can only be left over from a module
\* that timed out or died.
MigrationsAlone ==
    \A c, d \in Controllers :
        migration[c] \in Running /\ migration[d] \in Running /\ c # d => {c, d} \cap orphan # {}
=============================================================================
