--------------------------- MODULE DeploymentProofs ---------------------------
(***************************************************************************)
(* Proofs about the deployment, for any number of controllers, operators,  *)
(* files, services and releases: the admin database (AdminDatabase),       *)
(* the pins of a release (ReleaseControl), its activation on the host      *)
(* (Activation) and the boundary of the SQL console (ConsoleBoundary).     *)
(***************************************************************************)
EXTENDS AdminDatabase, ReleaseControl, Activation, ConsoleBoundary, FiniteSetTheorems, TLAPS

----------------------------------------------------------------------------
(* The admin database.                                                     *)

USE ControllersMay, ControllerBounds

Places == InModule \cup {"idle", "locking", "cleaning", "verifying", "done", "failed"}
LEMMA DatabaseTypeInit == DatabaseInit => DatabaseTypeOK
<1> SUFFICES ASSUME DatabaseInit PROVE DatabaseTypeOK
  OBVIOUS
<1>1. roles \in BOOLEAN
  BY DEF DatabaseInit
<1>2. changes \in 0 .. MaxChanges /\ losses \in 0 .. MaxLosses
  BY DEF DatabaseInit
<1>3. QED
  BY <1>1, <1>2 DEF DatabaseInit, DatabaseTypeOK, InModule, Running

\* Leaving the module leaves every variable it touches in its type.
LEMMA ModuleEndsType ==
    ASSUME DatabaseTypeOK, NEW c \in Controllers, NEW good \in BOOLEAN, ModuleEnds(c, good)
    PROVE  /\ play' \in [Controllers -> Places]
           /\ fine' \in [Controllers -> BOOLEAN]
           /\ task' = task /\ holder' = NoController
  BY DEF DatabaseTypeOK, ModuleEnds, AfterModule, Places, InModule

LEMMA DatabaseTypeNext == DatabaseTypeOK /\ [DatabaseNext]_databaseVars => DatabaseTypeOK'
<1> SUFFICES ASSUME DatabaseTypeOK, [DatabaseNext]_databaseVars
             PROVE  DatabaseTypeOK'
  OBVIOUS
<1> USE DEF DatabaseTypeOK, InModule, Running, schemaVars, playVars, migrationVars, boundVars
<1>1. CASE Alter
  BY <1>1 DEF Alter
<1>2. ASSUME NEW c \in Controllers, PlanDatabase(c) PROVE DatabaseTypeOK'
  BY <1>2 DEF PlanDatabase, Moves
<1>3. ASSUME NEW c \in Controllers, TakeLock(c) PROVE DatabaseTypeOK'
  BY <1>3 DEF TakeLock, Moves
<1>4. ASSUME NEW c \in Controllers, LockRefused(c) PROVE DatabaseTypeOK'
  BY <1>4 DEF LockRefused, AfterModule
<1>5. ASSUME NEW c \in Controllers, InspectLocked(c) PROVE DatabaseTypeOK'
  <2>1. CASE \E good \in BOOLEAN : ModuleEnds(c, good)
    BY <1>5, <2>1, ModuleEndsType DEF InspectLocked, Places
  <2>2. CASE \E to \in {"preparing", "starting"} :
               Moves(c, "inspecting", to) /\ UNCHANGED <<holder, task, fine>>
    BY <1>5, <2>2 DEF InspectLocked, Moves
  <2>3. QED
    BY <1>5, <2>1, <2>2 DEF InspectLocked
<1>6. ASSUME NEW c \in Controllers, PrepareRoles(c) PROVE DatabaseTypeOK'
  BY <1>6 DEF PrepareRoles, Moves
<1>7. ASSUME NEW c \in Controllers, Reinspect(c) PROVE DatabaseTypeOK'
  <2>1. CASE ModuleEnds(c, FALSE)
    BY <1>7, <2>1, ModuleEndsType DEF Reinspect, Places
  <2>2. CASE Moves(c, "reinspecting", "granting") /\ UNCHANGED <<holder, task, fine>>
    BY <1>7, <2>2 DEF Reinspect, Moves
  <2>3. QED
    BY <1>7, <2>1, <2>2 DEF Reinspect
<1>8. ASSUME NEW c \in Controllers, GrantCreate(c) PROVE DatabaseTypeOK'
  BY <1>8 DEF GrantCreate, Moves
<1>9. ASSUME NEW c \in Controllers, StartMigration(c) PROVE DatabaseTypeOK'
  BY <1>9 DEF StartMigration, Moves
<1>10. ASSUME NEW c \in Controllers, MigrationEnds(c) PROVE DatabaseTypeOK'
  BY <1>10 DEF MigrationEnds, Proceeds, Moves
<1>11. ASSUME NEW c \in Controllers, MigrationTimeout(c) PROVE DatabaseTypeOK'
  BY <1>11 DEF MigrationTimeout, Proceeds, Moves
<1>12. ASSUME NEW c \in Controllers, RevokeFinally(c) PROVE DatabaseTypeOK'
  BY <1>12 DEF RevokeFinally, Moves
<1>13. ASSUME NEW c \in Controllers, Conclude(c) PROVE DatabaseTypeOK'
  <2>1. (fine[c] /\ State = "READY") \in BOOLEAN
    OBVIOUS
  <2>2. QED
    BY <1>13, <2>1, ModuleEndsType DEF Conclude, Places
<1>14. ASSUME NEW c \in Controllers, CleanUp(c) PROVE DatabaseTypeOK'
  BY <1>14 DEF CleanUp
<1>15. ASSUME NEW c \in Controllers, VerifyReady(c) PROVE DatabaseTypeOK'
  BY <1>15 DEF VerifyReady, Moves
<1>16. ASSUME NEW c \in Controllers, Migrate(c) PROVE DatabaseTypeOK'
  BY <1>16 DEF Migrate, VerifyOrigin, ChangeSchema, VerifyTarget, CommitMigration,
     MigrationFails, MigrationMoves
<1>17. ASSUME NEW c \in Controllers, KillModule(c) PROVE DatabaseTypeOK'
  <2>1. losses' \in 0 .. MaxLosses
    BY <1>17 DEF KillModule
  <2>2. orphan' \subseteq Controllers
    BY <1>17 DEF KillModule
  <2>3. QED
    BY <1>17, <2>1, <2>2, ModuleEndsType DEF KillModule, Places
<1>18. ASSUME NEW c \in Controllers, LoseCleanup(c) PROVE DatabaseTypeOK'
  BY <1>18 DEF LoseCleanup, Moves
<1>19. CASE UNCHANGED databaseVars
  BY <1>19 DEF databaseVars
<1>20. QED
  BY <1>1, <1>2, <1>3, <1>4, <1>5, <1>6, <1>7, <1>8, <1>9, <1>10, <1>11, <1>12, <1>13,
     <1>14, <1>15, <1>16, <1>17, <1>18, <1>19 DEF DatabaseNext, Control

\* Every state of the schema, the lock, the controllers and the migrations is one
\* the deployment knows.
THEOREM DatabaseTypeCorrect == DatabaseSpec => []DatabaseTypeOK
  BY DatabaseTypeInit, DatabaseTypeNext, PTL DEF DatabaseSpec

----------------------------------------------------------------------------
(* CREATE on the database. *)

\* Only a bootstrap reaches the places where CREATE is given and taken back.
BootstrapPlaces ==
    \A c \in Controllers :
        play[c] \in {"preparing", "reinspecting", "granting", "revoking", "cleaning"} =>
            task[c] = "bootstrap"
CreateInv == DatabaseTypeOK /\ BootstrapPlaces /\ CreateIsTemporary

\* A controller that leaves the module leaves for a place where its own cleanup
\* is still before it, if it had anything to clean up; the others do not move.
LEMMA ModuleEndsKeepsPending ==
    ASSUME CreateInv, NEW c \in Controllers, NEW good \in BOOLEAN, ModuleEnds(c, good),
           create' => create, lost' = lost
    PROVE  BootstrapPlaces' /\ CreateIsTemporary'
<1> USE DEF CreateInv, DatabaseTypeOK
<1>1. /\ \A d \in Controllers \ {c} : play'[d] = play[d]
      /\ play'[c] = IF task[c] = "bootstrap" THEN "cleaning"
                    ELSE IF fine'[c] THEN "verifying" ELSE "failed"
      /\ task' = task
  BY DEF ModuleEnds, AfterModule
<1>2. BootstrapPlaces'
  BY <1>1 DEF BootstrapPlaces
<1>3. CreateIsTemporary'
  BY <1>1 DEF CreateIsTemporary, Pending
<1>4. QED
  BY <1>2, <1>3

\* A controller that takes one step inside its play keeps the invariant, when
\* the step does not bring it to a bootstrap's place without a bootstrap, does
\* not end what is still before it, and gives CREATE only with that before it.
LEMMA MovesKeepPending ==
    ASSUME CreateInv, NEW c \in Controllers, NEW to,
           play' = [play EXCEPT ![c] = to], task' = task, lost' = lost,
           to \in {"preparing", "reinspecting", "granting", "revoking", "cleaning"} =>
               task[c] = "bootstrap",
           \/ ~ create'
           \/ /\ create' = create
              /\ Pending(c) => to \in {"starting", "migrating", "revoking", "concluding", "cleaning"}
           \/ to = "starting" /\ task[c] = "bootstrap"
    PROVE  BootstrapPlaces' /\ CreateIsTemporary'
<1> USE DEF CreateInv, DatabaseTypeOK
<1>1. play'[c] = to /\ \A d \in Controllers \ {c} : play'[d] = play[d]
  OBVIOUS
<1>2. BootstrapPlaces'
  BY <1>1 DEF BootstrapPlaces
<1>3. CreateIsTemporary'
  BY <1>1 DEF CreateIsTemporary, Pending
<1>4. QED
  BY <1>2, <1>3

LEMMA CreateInit == DatabaseInit => CreateInv
  BY DatabaseTypeInit DEF DatabaseInit, CreateInv, BootstrapPlaces, CreateIsTemporary

LEMMA CreateNext == CreateInv /\ [DatabaseNext]_databaseVars => CreateInv'
<1> SUFFICES ASSUME CreateInv, [DatabaseNext]_databaseVars
             PROVE  BootstrapPlaces' /\ CreateIsTemporary'
  BY DatabaseTypeNext DEF CreateInv
<1> USE DEF schemaVars, playVars, migrationVars, boundVars
<1> DEFINE Good == BootstrapPlaces' /\ CreateIsTemporary'
<1>a. DatabaseTypeOK
  BY DEF CreateInv
<1>b. ASSUME play' = play, task' = task, create' = create, lost' = lost PROVE Good
  BY <1>b DEF CreateInv, BootstrapPlaces, CreateIsTemporary, Pending
<1>1. CASE Alter
  BY <1>1, <1>b DEF Alter
<1>2. ASSUME NEW c \in Controllers, PlanDatabase(c) PROVE Good
  <2>1. PICK to : play' = [play EXCEPT ![c] = to] /\ to \in {"locking", "done", "failed"}
    BY <1>2 DEF PlanDatabase, Moves
  <2>2. play[c] = "idle" /\ create' = create /\ lost' = lost
        /\ \A d \in Controllers \ {c} : play'[d] = play[d] /\ task'[d] = task[d]
    BY <1>2, <2>1, <1>a DEF PlanDatabase, DatabaseTypeOK
  <2>3. play'[c] = to
    BY <2>1, <1>a DEF DatabaseTypeOK
  <2>4. QED
    BY <2>1, <2>2, <2>3 DEF CreateInv, BootstrapPlaces, CreateIsTemporary, Pending
<1>3. ASSUME NEW c \in Controllers, TakeLock(c) PROVE Good
  BY <1>3, MovesKeepPending DEF TakeLock, Moves, Pending
<1>4. ASSUME NEW c \in Controllers, LockRefused(c) PROVE Good
  <2>1. /\ AfterModule(c) \in {"cleaning", "verifying", "failed"}
        /\ AfterModule(c) = "cleaning" => task[c] = "bootstrap"
        /\ play' = [play EXCEPT ![c] = AfterModule(c)]
    BY <1>4 DEF LockRefused, AfterModule
  <2>2. QED
    BY <1>4, <2>1, MovesKeepPending DEF LockRefused, Pending
<1>5. ASSUME NEW c \in Controllers, InspectLocked(c) PROVE Good
  <2>1. CASE \E good \in BOOLEAN : ModuleEnds(c, good)
    BY <1>5, <2>1, ModuleEndsKeepsPending DEF InspectLocked
  <2>2. CASE \E to \in {"preparing", "starting"} :
               /\ Moves(c, "inspecting", to) /\ UNCHANGED <<holder, task, fine>>
               /\ to = "preparing" => task[c] = "bootstrap"
    BY <1>5, <2>2, MovesKeepPending DEF InspectLocked, Moves, Pending
  <2>3. QED
    BY <1>5, <2>1, <2>2 DEF InspectLocked
<1>6. ASSUME NEW c \in Controllers, PrepareRoles(c) PROVE Good
  BY <1>6, MovesKeepPending DEF PrepareRoles, Moves, Pending, CreateInv, BootstrapPlaces
<1>7. ASSUME NEW c \in Controllers, Reinspect(c) PROVE Good
  <2>1. CASE ModuleEnds(c, FALSE)
    BY <1>7, <2>1, ModuleEndsKeepsPending DEF Reinspect
  <2>2. CASE Moves(c, "reinspecting", "granting") /\ UNCHANGED <<holder, task, fine>>
    BY <1>7, <2>2, MovesKeepPending
       DEF Reinspect, Moves, Pending, CreateInv, BootstrapPlaces
  <2>3. QED
    BY <1>7, <2>1, <2>2 DEF Reinspect
<1>8. ASSUME NEW c \in Controllers, GrantCreate(c) PROVE Good
  <2>1. task[c] = "bootstrap"
    BY <1>8 DEF GrantCreate, Moves, CreateInv, BootstrapPlaces
  <2>2. QED
    BY <1>8, <2>1, MovesKeepPending DEF GrantCreate, Moves
<1>9. ASSUME NEW c \in Controllers, StartMigration(c) PROVE Good
  BY <1>9, MovesKeepPending DEF StartMigration, Moves
<1>10. ASSUME NEW c \in Controllers, MigrationEnds(c) \/ MigrationTimeout(c) PROVE Good
  <2>1. PICK to \in {"revoking", "concluding"} :
           play' = [play EXCEPT ![c] = to] /\ (to = "revoking" => task[c] = "bootstrap")
    BY <1>10 DEF MigrationEnds, MigrationTimeout, Proceeds, Moves
  <2>2. QED
    BY <1>10, <2>1, MovesKeepPending DEF MigrationEnds, MigrationTimeout
<1>11. ASSUME NEW c \in Controllers, RevokeFinally(c) PROVE Good
  BY <1>11, MovesKeepPending DEF RevokeFinally, Moves
<1>12. ASSUME NEW c \in Controllers, Conclude(c) PROVE Good
  <2>1. (fine[c] /\ State = "READY") \in BOOLEAN
    BY <1>a DEF DatabaseTypeOK
  <2>2. QED
    BY <1>12, <2>1, ModuleEndsKeepsPending DEF Conclude
<1>13. ASSUME NEW c \in Controllers, CleanUp(c) PROVE Good
  <2>1. PICK to \in {"verifying", "failed"} : play' = [play EXCEPT ![c] = to]
    BY <1>13 DEF CleanUp
  <2>2. QED
    BY <1>13, <2>1, MovesKeepPending DEF CleanUp
<1>14. ASSUME NEW c \in Controllers, VerifyReady(c) PROVE Good
  BY <1>14, MovesKeepPending DEF VerifyReady, Moves, Pending
<1>15. ASSUME NEW c \in Controllers, Migrate(c) PROVE Good
  BY <1>15, <1>b DEF Migrate, VerifyOrigin, ChangeSchema, VerifyTarget, CommitMigration,
     MigrationFails
<1>16. ASSUME NEW c \in Controllers, KillModule(c) PROVE Good
  BY <1>16, ModuleEndsKeepsPending DEF KillModule
<1>17. ASSUME NEW c \in Controllers, LoseCleanup(c) PROVE Good
  BY <1>17, <1>a DEF LoseCleanup, Moves, CreateInv, DatabaseTypeOK, BootstrapPlaces, CreateIsTemporary
<1>18. CASE UNCHANGED databaseVars
  BY <1>18, <1>b DEF databaseVars
<1>19. QED
  BY <1>1, <1>2, <1>3, <1>4, <1>5, <1>6, <1>7, <1>8, <1>9, <1>10, <1>11, <1>12, <1>13,
     <1>14, <1>15, <1>16, <1>17, <1>18 DEF DatabaseNext, Control

\* admin_migrator has CREATE on the database only while a bootstrap that gave it
\* has its revocation still before it, or its cleanup did not happen: the finally
\* of the module and the "always" of the tasks around it are enough for any
\* number of concurrent controllers, killed modules and migrations left over.
THEOREM CreateTakenBack == DatabaseSpec => []CreateIsTemporary
<1>1. CreateInv => CreateIsTemporary
  BY DEF CreateInv
<1>2. QED
  BY <1>1, CreateInit, CreateNext, PTL DEF DatabaseSpec

----------------------------------------------------------------------------
(* One migration at a time. *)

\* The holder of the session lock is the controller that is in the module.
LockHeld == \A c \in Controllers : play[c] \in InModule <=> holder = c

\* A module waits for the migration it started, or has given it up.
WaitedFor ==
    \A c \in Controllers : migration[c] \in Running => play[c] = "migrating" \/ c \in orphan

AloneInv == DatabaseTypeOK /\ LockHeld /\ WaitedFor

LEMMA ModuleEndsReleases ==
    ASSUME AloneInv, NEW c \in Controllers, NEW good \in BOOLEAN, ModuleEnds(c, good),
           play[c] \in InModule, migration' = migration, orphan \subseteq orphan',
           migration[c] \in Running => c \in orphan'
    PROVE  LockHeld' /\ WaitedFor'
<1> USE DEF AloneInv, DatabaseTypeOK
<1>1. /\ \A d \in Controllers \ {c} : play'[d] = play[d]
      /\ play'[c] \in {"cleaning", "verifying", "failed"}
      /\ holder' = NoController
  BY DEF ModuleEnds, AfterModule
<1>2. \A d \in Controllers \ {c} : play[d] \notin InModule
  BY DEF LockHeld
<1>3. LockHeld'
  BY <1>1, <1>2 DEF LockHeld, InModule
<1>4. WaitedFor'
  BY <1>1 DEF WaitedFor
<1>5. QED
  BY <1>3, <1>4

LEMMA MovesKeepLock ==
    ASSUME AloneInv, NEW c \in Controllers, NEW to,
           play' = [play EXCEPT ![c] = to], holder' = holder, orphan \subseteq orphan',
           to \in InModule <=> play[c] \in InModule,
           \A d \in Controllers \ {c} : migration'[d] = migration[d],
           migration'[c] \in Running => to = "migrating" \/ c \in orphan'
    PROVE  LockHeld' /\ WaitedFor'
<1> USE DEF AloneInv, DatabaseTypeOK
<1>1. play'[c] = to /\ \A d \in Controllers \ {c} : play'[d] = play[d]
  OBVIOUS
<1>2. LockHeld'
  BY <1>1 DEF LockHeld
<1>3. WaitedFor'
  BY <1>1 DEF WaitedFor
<1>4. QED
  BY <1>2, <1>3

LEMMA AloneInit == DatabaseInit => AloneInv
  BY DatabaseTypeInit DEF DatabaseInit, AloneInv, LockHeld, WaitedFor, InModule, Running

LEMMA AloneNext == AloneInv /\ [DatabaseNext]_databaseVars => AloneInv'
<1> SUFFICES ASSUME AloneInv, [DatabaseNext]_databaseVars
             PROVE  LockHeld' /\ WaitedFor'
  BY DatabaseTypeNext DEF AloneInv
<1> USE DEF schemaVars, playVars, migrationVars, boundVars, InModule
<1> DEFINE Good == LockHeld' /\ WaitedFor'
<1>a. DatabaseTypeOK
  BY DEF AloneInv
<1>b. ASSUME play' = play, holder' = holder, orphan' = orphan,
             \A d \in Controllers : migration'[d] \in Running => migration[d] \in Running
      PROVE Good
  BY <1>b DEF AloneInv, LockHeld, WaitedFor
<1>c. ASSUME NEW c \in Controllers, NEW to, Moves(c, play[c], to), UNCHANGED holder,
             UNCHANGED migrationVars, to \in InModule <=> play[c] \in InModule,
             play[c] # "migrating"
      PROVE Good
  BY <1>c, MovesKeepLock DEF Moves, AloneInv, WaitedFor
<1>1. CASE Alter
  BY <1>1, <1>b DEF Alter
<1>2. ASSUME NEW c \in Controllers, PlanDatabase(c) PROVE Good
  <2>1. PICK to \in {"locking", "done", "failed"} : Moves(c, "idle", to)
    BY <1>2 DEF PlanDatabase
  <2>2. QED
    BY <1>2, <2>1, <1>c DEF PlanDatabase, Moves
<1>3. ASSUME NEW c \in Controllers, TakeLock(c) PROVE Good
  <2>1. \A d \in Controllers : play[d] \notin InModule
    BY <1>3 DEF TakeLock, LockFree, AloneInv, LockHeld
  <2>2. /\ play'[c] = "inspecting" /\ \A d \in Controllers \ {c} : play'[d] = play[d]
        /\ play[c] = "locking" /\ holder' = c /\ UNCHANGED migrationVars
    BY <1>3, <1>a DEF TakeLock, Moves, DatabaseTypeOK
  <2>3. QED
    BY <2>1, <2>2 DEF AloneInv, LockHeld, WaitedFor
<1>4. ASSUME NEW c \in Controllers, LockRefused(c) PROVE Good
  <2>1. PICK to \in {"cleaning", "verifying", "failed"} : Moves(c, "locking", to)
    BY <1>4 DEF LockRefused, AfterModule, Moves
  <2>2. QED
    BY <1>4, <2>1, <1>c DEF LockRefused, Moves
<1>5. ASSUME NEW c \in Controllers, InspectLocked(c) PROVE Good
  <2>1. CASE \E good \in BOOLEAN : ModuleEnds(c, good)
    BY <1>5, <2>1, ModuleEndsReleases DEF InspectLocked, AloneInv, WaitedFor
  <2>2. CASE \E to \in {"preparing", "starting"} :
               Moves(c, "inspecting", to) /\ UNCHANGED <<holder, task, fine>>
    BY <1>5, <2>2, <1>c DEF InspectLocked, Moves
  <2>3. QED
    BY <1>5, <2>1, <2>2 DEF InspectLocked
<1>6. ASSUME NEW c \in Controllers, PrepareRoles(c) PROVE Good
  BY <1>6, <1>c DEF PrepareRoles, Moves
<1>7. ASSUME NEW c \in Controllers, Reinspect(c) PROVE Good
  <2>1. CASE ModuleEnds(c, FALSE)
    BY <1>7, <2>1, ModuleEndsReleases DEF Reinspect, AloneInv, WaitedFor
  <2>2. CASE Moves(c, "reinspecting", "granting") /\ UNCHANGED <<holder, task, fine>>
    BY <1>7, <2>2, <1>c DEF Reinspect, Moves
  <2>3. QED
    BY <1>7, <2>1, <2>2 DEF Reinspect
<1>8. ASSUME NEW c \in Controllers, GrantCreate(c) PROVE Good
  BY <1>8, <1>c DEF GrantCreate, Moves
<1>9. ASSUME NEW c \in Controllers, StartMigration(c) PROVE Good
  BY <1>9, <1>a, MovesKeepLock DEF StartMigration, Moves, DatabaseTypeOK
<1>10. ASSUME NEW c \in Controllers, MigrationEnds(c) \/ MigrationTimeout(c) PROVE Good
  <2>1. PICK to \in {"revoking", "concluding"} :
           play' = [play EXCEPT ![c] = to] /\ play[c] = "migrating" /\ holder' = holder
    BY <1>10 DEF MigrationEnds, MigrationTimeout, Proceeds, Moves
  <2>2. migration' = migration /\ orphan \subseteq orphan'
    BY <1>10 DEF MigrationEnds, MigrationTimeout
  <2>3. migration[c] \in Running => c \in orphan'
    BY <1>10 DEF MigrationEnds, MigrationTimeout, Running
  <2>4. QED
    BY <2>1, <2>2, <2>3, MovesKeepLock
<1>11. ASSUME NEW c \in Controllers, RevokeFinally(c) PROVE Good
  BY <1>11, <1>c DEF RevokeFinally, Moves
<1>12. ASSUME NEW c \in Controllers, Conclude(c) PROVE Good
  <2>1. (fine[c] /\ State = "READY") \in BOOLEAN
    BY <1>a DEF DatabaseTypeOK
  <2>2. QED
    BY <1>12, <2>1, ModuleEndsReleases DEF Conclude, AloneInv, WaitedFor
<1>13. ASSUME NEW c \in Controllers, CleanUp(c) PROVE Good
  <2>1. PICK to \in {"verifying", "failed"} : Moves(c, "cleaning", to)
    BY <1>13 DEF CleanUp, Moves
  <2>2. QED
    BY <1>13, <2>1, <1>c DEF CleanUp, Moves
<1>14. ASSUME NEW c \in Controllers, VerifyReady(c) PROVE Good
  <2>1. PICK to \in {"done", "failed"} : Moves(c, "verifying", to)
    BY <1>14 DEF VerifyReady
  <2>2. QED
    BY <1>14, <2>1, <1>c DEF VerifyReady, Moves
<1>15. ASSUME NEW c \in Controllers, Migrate(c) PROVE Good
  <2>1. play' = play /\ holder' = holder /\ orphan' = orphan
    BY <1>15 DEF Migrate, VerifyOrigin, ChangeSchema, VerifyTarget, CommitMigration,
       MigrationFails
  <2>2. migration[c] \in Running /\ \A d \in Controllers \ {c} : migration'[d] = migration[d]
    BY <1>15, <1>a DEF Migrate, VerifyOrigin, ChangeSchema, VerifyTarget, CommitMigration,
       MigrationFails, MigrationMoves, Running, DatabaseTypeOK
  <2>3. QED
    BY <2>1, <2>2, <1>b
<1>16. ASSUME NEW c \in Controllers, KillModule(c) PROVE Good
  <2>1. orphan \subseteq orphan' /\ (migration[c] \in Running => c \in orphan')
    BY <1>16 DEF KillModule
  <2>2. QED
    BY <1>16, <2>1, ModuleEndsReleases DEF KillModule
<1>17. ASSUME NEW c \in Controllers, LoseCleanup(c) PROVE Good
  BY <1>17, <1>c DEF LoseCleanup, Moves
<1>18. CASE UNCHANGED databaseVars
  BY <1>18, <1>b DEF databaseVars
<1>19. QED
  BY <1>1, <1>2, <1>3, <1>4, <1>5, <1>6, <1>7, <1>8, <1>9, <1>10, <1>11, <1>12, <1>13,
     <1>14, <1>15, <1>16, <1>17, <1>18 DEF DatabaseNext, Control

\* Two migrations never run beside each other while both are waited for: one of
\* them is left over from a module that timed out or died, which gave the session
\* lock back.
THEOREM OneMigration == DatabaseSpec => []MigrationsAlone
<1>1. AloneInv => MigrationsAlone
  BY DEF AloneInv, LockHeld, WaitedFor, MigrationsAlone, InModule
<1>2. QED
  BY <1>1, AloneInit, AloneNext, PTL DEF DatabaseSpec

----------------------------------------------------------------------------
(* The pins of a release.                                                  *)

Pins == [LocalFiles -> Contents]
Scripts ==
    {Resting} \cup [at : {"packaged"}, commit : Revisions]
    \cup [at : {"staged"}, commit : Revisions, seen : Pins]
    \cup [at : {"replacing"}, commit : Revisions, seen : Pins, left : SUBSET LocalFiles]
    \cup [at : {"checking", "confirming", "applying"}, commit : Revisions, seen : Pins,
          editedThen : 0 .. MaxEdited]

\* Files, archives, scripts and the host keep their types.
ReleaseTypeOK ==
    /\ main \in Revisions /\ archive \in [Revisions -> {"none", "whole", "other"}]
    /\ pin \in Pins /\ confirmed \in BOOLEAN
    /\ flock \in Operators \cup {NoOperator}
    /\ script \in [Operators -> Scripts]
    /\ deployed \in [commit : Revisions \cup {NoCommit}, checked : SUBSET Revisions]
    /\ edited \in 0 .. MaxEdited /\ torn \in BOOLEAN

LEMMA ReleaseTypeInit == ReleaseInit => ReleaseTypeOK
<1> SUFFICES ASSUME ReleaseInit PROVE ReleaseTypeOK
  OBVIOUS
<1>1. 0 \in 0 .. MaxEdited
  BY HandEditBound
<1>2. pin \in Pins
  BY <1>1 DEF ReleaseInit, Pins, Contents
<1>3. script \in [Operators -> Scripts]
  BY DEF ReleaseInit, Scripts
<1>4. deployed \in [commit : Revisions \cup {NoCommit}, checked : SUBSET Revisions]
  BY DEF ReleaseInit
<1>5. QED
  BY <1>1, <1>2, <1>3, <1>4 DEF ReleaseInit, ReleaseTypeOK

\* What each script knows where it stands.
LEMMA ScriptFields ==
    ASSUME ReleaseTypeOK, NEW o \in Operators
    PROVE  /\ script[o] \in Scripts
           /\ ScriptAt(o, "packaged") => script[o].commit \in Revisions
           /\ ScriptAt(o, "staged") => script[o].commit \in Revisions /\ script[o].seen \in Pins
           /\ ScriptAt(o, "replacing") =>
                 /\ script[o] \in [at : {"replacing"}, commit : Revisions, seen : Pins, left : SUBSET LocalFiles]
                 /\ script[o].commit \in Revisions /\ script[o].seen \in Pins
                 /\ script[o].left \in SUBSET LocalFiles
           /\ script[o].at \in {"checking", "confirming", "applying"} =>
                 /\ script[o] \in [at : {"checking", "confirming", "applying"}, commit : Revisions,
                                   seen : Pins, editedThen : 0 .. MaxEdited]
                 /\ script[o].commit \in Revisions /\ script[o].seen \in Pins
                 /\ script[o].editedThen \in 0 .. MaxEdited
<1>1. script[o] \in Scripts
  BY DEF ReleaseTypeOK
<1>2. QED
  BY <1>1 DEF Scripts, Resting, ScriptAt

LEMMA EndsType ==
    ASSUME ReleaseTypeOK, NEW o \in Operators, Ends(o)
    PROVE  /\ script' \in [Operators -> Scripts] /\ flock' \in Operators \cup {NoOperator}
           /\ script' = [script EXCEPT ![o] = Resting]
  BY DEF ReleaseTypeOK, Ends, Scripts

LEMMA ReleaseTypeStep == ReleaseTypeOK /\ [ReleaseNext]_releaseVars => ReleaseTypeOK'
<1> SUFFICES ASSUME ReleaseTypeOK, [ReleaseNext]_releaseVars PROVE ReleaseTypeOK'
  OBVIOUS
<1>1. CASE ApplyByHand
  <2>1. pin[APPROVALS].commit \in Revisions
    BY DEF ReleaseTypeOK, Pins, Contents, LocalFiles
  <2>2. QED
    BY <1>1, <2>1 DEF ApplyByHand, ReleaseTypeOK
<1>2. CASE EditByHand
  <2>1. edited' \in 0 .. MaxEdited
    BY <1>2, HandEditBound DEF EditByHand, ReleaseTypeOK
  <2>2. ASSUME NEW f \in LocalFiles, NEW c \in Revisions, NEW yes \in BOOLEAN,
               pin' = [pin EXCEPT ![f] = [commit |-> c, note |-> edited']],
               confirmed' = (IF f = APPROVALS THEN yes ELSE confirmed), UNCHANGED archive
        PROVE  ReleaseTypeOK'
    BY <1>2, <2>1, <2>2 DEF EditByHand, ReleaseTypeOK, Pins, Contents
  <2>3. ASSUME NEW c \in Revisions, NEW what \in {"none", "other"},
               archive' = [archive EXCEPT ![c] = what], UNCHANGED <<pin, confirmed>>
        PROVE  ReleaseTypeOK'
    BY <1>2, <2>1, <2>3 DEF EditByHand, ReleaseTypeOK
  <2>4. QED
    BY <1>2, <2>2, <2>3 DEF EditByHand
<1>3. CASE MainMoves
  BY <1>3 DEF MainMoves, ReleaseTypeOK
<1>4. ASSUME NEW o \in Operators, Package(o) PROVE ReleaseTypeOK'
  BY <1>4 DEF Package, ReleaseTypeOK, Scripts
<1>5. ASSUME NEW o \in Operators, ReadPins(o) PROVE ReleaseTypeOK'
  <2>1. CASE FlockFree(o)
    <3>1. script' = [script EXCEPT ![o] = [at |-> "staged", commit |-> script[o].commit, seen |-> pin]]
          /\ flock' = o
      BY <1>5, <2>1 DEF ReadPins, ReleaseTypeOK
    <3>2. script[o].commit \in Revisions
      BY <1>5, ScriptFields DEF ReadPins
    <3>3. QED
      BY <1>5, <3>1, <3>2 DEF ReadPins, ReleaseTypeOK, Scripts
  <2>2. CASE ~FlockFree(o)
    BY <1>5, <2>2, EndsType DEF ReadPins, ReleaseTypeOK
  <2>3. QED
    BY <2>1, <2>2
<1>6. ASSUME NEW o \in Operators, VerifyPins(o) PROVE ReleaseTypeOK'
  <2>1. CASE pin = script[o].seen
    <3>1. /\ script' = [script EXCEPT ![o] =
                 [at |-> "replacing", commit |-> script[o].commit, seen |-> script[o].seen,
                  left |-> {f \in LocalFiles : pin[f].commit # script[o].commit}]]
          /\ UNCHANGED flock
      BY <1>6, <2>1 DEF VerifyPins, ReleaseTypeOK
    <3>2. script[o].commit \in Revisions /\ script[o].seen \in Pins
      BY <1>6, ScriptFields DEF VerifyPins
    <3>3. QED
      BY <1>6, <3>1, <3>2 DEF VerifyPins, ReleaseTypeOK, Scripts
  <2>2. CASE ~(pin = script[o].seen)
    BY <1>6, <2>2, EndsType DEF VerifyPins, ReleaseTypeOK
  <2>3. QED
    BY <2>1, <2>2
<1>7. ASSUME NEW o \in Operators, ReplacePin(o) PROVE ReleaseTypeOK'
  <2>1. PICK f \in script[o].left :
          /\ pin' = [pin EXCEPT ![f] = [script[o].seen[f] EXCEPT !.commit = script[o].commit]]
          /\ script' = [script EXCEPT ![o].left = @ \ {f}]
    BY <1>7 DEF ReplacePin
  <2>2. /\ script[o] \in [at : {"replacing"}, commit : Revisions, seen : Pins, left : SUBSET LocalFiles]
        /\ f \in LocalFiles
    BY <1>7, <2>1, ScriptFields DEF ReplacePin
  <2>3. script[o].seen[f] \in Contents /\ script[o].commit \in Revisions
    BY <2>2 DEF Pins
  <2>4. pin' \in Pins
    BY <2>1, <2>2, <2>3 DEF ReleaseTypeOK, Pins, Contents
  <2>5. script' = [script EXCEPT ![o] = [script[o] EXCEPT !.left = script[o].left \ {f}]]
    BY <2>1 DEF ReleaseTypeOK
  <2>6. [script[o] EXCEPT !.left = script[o].left \ {f}]
           \in [at : {"replacing"}, commit : Revisions, seen : Pins, left : SUBSET LocalFiles]
    BY <2>2
  <2>7. script' \in [Operators -> Scripts]
    BY <2>5, <2>6 DEF ReleaseTypeOK, Scripts
  <2>8. QED
    BY <1>7, <2>4, <2>7 DEF ReplacePin, ReleaseTypeOK
<1>8. ASSUME NEW o \in Operators, PinsReplaced(o) PROVE ReleaseTypeOK'
  BY <1>8, EndsType DEF PinsReplaced, ReleaseTypeOK
<1>9. ASSUME NEW o \in Operators, ReplaceFails(o) PROVE ReleaseTypeOK'
  <2>1. PICK cutoff \in SUBSET LocalFiles :
          /\ pin' = [f \in LocalFiles |->
                      IF f \in script[o].left \cup cutoff \/ script[o].seen[f].commit = script[o].commit
                      THEN pin[f] ELSE script[o].seen[f]]
          /\ torn' = (torn \/ cutoff # {})
    BY <1>9 DEF ReplaceFails
  <2>2. script[o].seen \in Pins
    BY <1>9, ScriptFields DEF ReplaceFails
  <2>3. pin' \in Pins
    BY <2>1, <2>2 DEF ReleaseTypeOK, Pins
  <2>4. torn' \in BOOLEAN
    BY <2>1
  <2>5. QED
    BY <1>9, <2>3, <2>4, EndsType DEF ReplaceFails, ReleaseTypeOK
<1>10. ASSUME NEW o \in Operators, Freeze(o) PROVE ReleaseTypeOK'
  <2>1. pin[APPROVALS].commit \in Revisions
    BY DEF ReleaseTypeOK, Pins, Contents, LocalFiles
  <2>2. QED
    BY <1>10, <2>1 DEF Freeze, ReleaseTypeOK, Scripts
<1>11. ASSUME NEW o \in Operators, DryRunPasses(o) PROVE ReleaseTypeOK'
  <2>0. PICK inventory \in Inventories :
           IF InputsKept(o, inventory)
           THEN /\ script' = [script EXCEPT ![o].at = "confirming"]
                /\ deployed' = [deployed EXCEPT !.checked = @ \cup {script[o].commit}]
                /\ UNCHANGED flock
           ELSE Ends(o) /\ UNCHANGED deployed
    BY <1>11 DEF DryRunPasses
  <2>1. CASE InputsKept(o, inventory)
    <3>1. /\ script[o] \in [at : {"checking", "confirming", "applying"}, commit : Revisions,
                            seen : Pins, editedThen : 0 .. MaxEdited]
          /\ script[o].commit \in Revisions
      BY <1>11, ScriptFields DEF DryRunPasses, ScriptAt
    <3>2. script' = [script EXCEPT ![o] = [script[o] EXCEPT !.at = "confirming"]] /\ UNCHANGED flock
      BY <2>0, <2>1 DEF ReleaseTypeOK
    <3>3. [script[o] EXCEPT !.at = "confirming"]
             \in [at : {"checking", "confirming", "applying"}, commit : Revisions,
                  seen : Pins, editedThen : 0 .. MaxEdited]
      BY <3>1
    <3>4. script' \in [Operators -> Scripts]
      BY <3>2, <3>3 DEF ReleaseTypeOK, Scripts
    <3>5. deployed' \in [commit : Revisions \cup {NoCommit}, checked : SUBSET Revisions]
      BY <2>0, <2>1, <3>1 DEF ReleaseTypeOK
    <3>6. QED
      BY <1>11, <3>2, <3>4, <3>5 DEF DryRunPasses, ReleaseTypeOK
  <2>2. CASE ~ InputsKept(o, inventory)
    BY <1>11, <2>0, <2>2, EndsType DEF DryRunPasses, ReleaseTypeOK
  <2>3. QED
    BY <2>1, <2>2
<1>12. ASSUME NEW o \in Operators, Confirm(o) PROVE ReleaseTypeOK'
  <2>1. /\ script[o] \in [at : {"checking", "confirming", "applying"}, commit : Revisions,
                          seen : Pins, editedThen : 0 .. MaxEdited]
        /\ script[o].seen \in Pins
    BY <1>12, ScriptFields DEF Confirm, ScriptAt
  <2>2. script' = [script EXCEPT ![o] = [script[o] EXCEPT !.at = "applying"]]
    BY <1>12 DEF Confirm, ReleaseTypeOK
  <2>3. [script[o] EXCEPT !.at = "applying"]
           \in [at : {"checking", "confirming", "applying"}, commit : Revisions,
                seen : Pins, editedThen : 0 .. MaxEdited]
    BY <2>1
  <2>4. script' \in [Operators -> Scripts]
    BY <2>2, <2>3 DEF ReleaseTypeOK, Scripts
  <2>5. pin' \in Pins
    BY <1>12, <2>1 DEF Confirm, ReleaseTypeOK, Pins, LocalFiles
  <2>6. QED
    BY <1>12, <2>4, <2>5 DEF Confirm, ReleaseTypeOK
<1>13. ASSUME NEW o \in Operators, ApplyArchive(o) PROVE ReleaseTypeOK'
  <2>1. script[o].commit \in Revisions
    BY <1>13, ScriptFields DEF ApplyArchive, ScriptAt
  <2>2. deployed' \in [commit : Revisions \cup {NoCommit}, checked : SUBSET Revisions]
    BY <1>13, <2>1 DEF ApplyArchive, ReleaseTypeOK
  <2>3. QED
    BY <1>13, <2>2, EndsType DEF ApplyArchive, ReleaseTypeOK
<1>14. ASSUME NEW o \in Operators, ScriptEnds(o) PROVE ReleaseTypeOK'
  <2>1. torn' \in BOOLEAN
    BY <1>14 DEF ScriptEnds
  <2>2. QED
    BY <1>14, <2>1, EndsType DEF ScriptEnds, ReleaseTypeOK
<1>15. CASE UNCHANGED releaseVars
  BY <1>15 DEF releaseVars, ReleaseTypeOK
<1>16. QED
  BY <1>1, <1>2, <1>3, <1>4, <1>5, <1>6, <1>7, <1>8, <1>9, <1>10, <1>11, <1>12, <1>13, <1>14, <1>15
  DEF ReleaseNext

Agreed(p) == \A f, g \in LocalFiles : p[f].commit = p[g].commit
Changing == {"staged", "replacing"}
Deploying == {"checking", "confirming", "applying"}

\* The lock is held exactly by whoever is about to change the pins or deploys.
HolderAlone == \A o \in Operators : script[o].at \in Changing \cup Deploying <=> flock = o

\* Files nobody edited disagree only while they are being replaced.
FilesAgree == edited = 0 /\ ~ torn => Agreed(pin) \/ \E o \in Operators : ScriptAt(o, "replacing")

\* A replacement has replaced what it has not left to do, from pins that agreed.
Replaced(o) ==
    /\ Agreed(script[o].seen)
    /\ \A f \in LocalFiles :
          /\ script[o].seen[f].commit = script[o].commit => f \notin script[o].left
          /\ IF f \in script[o].left \/ script[o].seen[f].commit = script[o].commit
             THEN pin[f] = script[o].seen[f]
             ELSE pin[f].commit = script[o].commit
StagedFits ==
    \A o \in Operators : edited = 0 /\ ~ torn =>
        /\ ScriptAt(o, "staged") => Agreed(script[o].seen)
        /\ ScriptAt(o, "replacing") => Replaced(o)

\* A deployment sees the pins as they were, unless somebody edited them since.
DeployFits ==
    \A o \in Operators : script[o].at \in Deploying =>
        /\ script[o].editedThen <= edited
        /\ script[o].editedThen = edited => pin = script[o].seen
        /\ script[o].at \in {"confirming", "applying"} => script[o].commit \in deployed.checked

ReleaseInv == ReleaseTypeOK /\ HolderAlone /\ FilesAgree /\ StagedFits /\ DeployFits

LEMMA ReleaseInvInit == ReleaseInit => ReleaseInv
<1> SUFFICES ASSUME ReleaseInit PROVE ReleaseInv
  OBVIOUS
<1>1. ReleaseTypeOK
  BY ReleaseTypeInit
<1>2. \A o \in Operators : script[o].at = "resting" /\ flock # o
  BY OperatorAssumption DEF ReleaseInit, Resting
<1>3. Agreed(pin)
  BY DEF ReleaseInit, Agreed
<1>4. QED
  BY <1>1, <1>2, <1>3
  DEF ReleaseInv, HolderAlone, FilesAgree, StagedFits, DeployFits, Changing, Deploying, ScriptAt

\* Steps that change neither a file nor what a script holds of them.
LEMMA ReleaseRests ==
    ASSUME ReleaseInv, ReleaseTypeOK', UNCHANGED <<pin, flock, script, edited, torn>>,
           deployed.checked \subseteq deployed'.checked
    PROVE  ReleaseInv'
<1>1. HolderAlone' /\ FilesAgree' /\ StagedFits'
  BY DEF ReleaseInv, HolderAlone, FilesAgree, StagedFits, Agreed, Replaced, ScriptAt
<1>2. DeployFits'
  BY DEF ReleaseInv, DeployFits
<1>3. QED
  BY <1>1, <1>2 DEF ReleaseInv

\* A script that ends, or comes to hold nothing, leaves the others where they are.
LEMMA ScriptLetsGo ==
    ASSUME ReleaseInv, ReleaseTypeOK', NEW o \in Operators, Ends(o),
           edited' = edited, torn \in BOOLEAN, torn => torn',
           deployed.checked \subseteq deployed'.checked,
           pin' = pin \/ flock = o,
           flock = o /\ edited = 0 /\ ~ torn' => Agreed(pin')
    PROVE  ReleaseInv'
<1>1. /\ script' = [script EXCEPT ![o] = Resting]
      /\ flock' = IF flock = o THEN NoOperator ELSE flock
      /\ script \in [Operators -> Scripts]
  BY DEF Ends, ReleaseInv, ReleaseTypeOK
<1>2. script'[o].at = "resting"
  BY <1>1 DEF Resting
<1>3. \A q \in Operators : q # o => script'[q] = script[q]
  BY <1>1
<1>4. HolderAlone'
  BY <1>1, <1>2, <1>3, OperatorAssumption DEF ReleaseInv, HolderAlone, Changing, Deploying
<1>5. FilesAgree'
  <2> SUFFICES ASSUME edited' = 0, ~ torn', flock # o
               PROVE  Agreed(pin') \/ \E q \in Operators : (ScriptAt(q, "replacing"))'
    BY DEF FilesAgree, Agreed
  <2>1. Agreed(pin) \/ \E q \in Operators : ScriptAt(q, "replacing")
    BY DEF ReleaseInv, FilesAgree
  <2>2. \A q \in Operators : ScriptAt(q, "replacing") => q # o
    BY DEF ReleaseInv, HolderAlone, Changing, ScriptAt
  <2>3. QED
    BY <1>3, <2>1, <2>2 DEF ScriptAt
<1>6. \A q \in Operators : script'[q].at \in Changing \cup Deploying =>
         q # o /\ flock = q /\ pin' = pin /\ script'[q] = script[q]
  BY <1>2, <1>3 DEF ReleaseInv, HolderAlone, Changing, Deploying
<1>7. StagedFits'
  <2> SUFFICES ASSUME NEW q \in Operators, edited' = 0, ~ torn'
               PROVE  /\ (ScriptAt(q, "staged"))' => Agreed(script'[q].seen)
                      /\ (ScriptAt(q, "replacing"))' => (Replaced(q))'
    BY DEF StagedFits, Agreed
  <2>1. CASE (ScriptAt(q, "staged"))'
    BY <1>6, <2>1 DEF ReleaseInv, StagedFits, ScriptAt, Changing
  <2>2. CASE (ScriptAt(q, "replacing"))'
    BY <1>6, <2>2 DEF ReleaseInv, StagedFits, ScriptAt, Changing, Replaced, Agreed
  <2>3. QED
    BY <2>1, <2>2 DEF ScriptAt
<1>8. DeployFits'
  BY <1>6 DEF ReleaseInv, DeployFits
<1>9. QED
  BY <1>4, <1>5, <1>7, <1>8 DEF ReleaseInv

LEMMA ReleaseInvStep == ReleaseInv /\ [ReleaseNext]_releaseVars => ReleaseInv'
<1> SUFFICES ASSUME ReleaseInv, [ReleaseNext]_releaseVars PROVE ReleaseInv'
  OBVIOUS
<1>0. /\ ReleaseTypeOK /\ ReleaseTypeOK' /\ HolderAlone /\ FilesAgree /\ StagedFits /\ DeployFits
      /\ script \in [Operators -> Scripts] /\ edited \in Nat /\ torn \in BOOLEAN
  BY ReleaseTypeStep, HandEditBound DEF ReleaseInv, ReleaseTypeOK
\* Where the lock is held by o, nobody else holds what it protects.
<1>00. ASSUME NEW o \in Operators, script[o].at \in Changing \cup Deploying
       PROVE  /\ flock = o
              /\ \A q \in Operators : script[q].at \in Changing \cup Deploying => q = o
  BY <1>0, <1>00 DEF HolderAlone
<1>1. CASE ApplyByHand
  <2>1. deployed'.checked = deployed.checked
    BY <1>0, <1>1 DEF ApplyByHand, ReleaseTypeOK
  <2>2. QED
    BY <1>0, <1>1, <2>1, ReleaseRests DEF ApplyByHand
<1>2. CASE EditByHand
  <2>1. edited' = edited + 1 /\ UNCHANGED <<flock, script, deployed, torn>>
    BY <1>2 DEF EditByHand
  <2>2. \A o \in Operators : script[o].at \in Deploying => script[o].editedThen \in Nat
    BY <1>0, ScriptFields, HandEditBound DEF Deploying
  <2>3. QED
    BY <1>0, <2>1, <2>2 DEF ReleaseInv, HolderAlone, FilesAgree, StagedFits, DeployFits
<1>3. CASE MainMoves
  BY <1>0, <1>3, ReleaseRests DEF MainMoves
<1>4. ASSUME NEW o \in Operators, Package(o) PROVE ReleaseInv'
  <2>1. /\ ScriptAt(o, "resting")
        /\ script' = [script EXCEPT ![o] = [at |-> "packaged", commit |-> main]]
        /\ UNCHANGED <<pin, flock, deployed, edited, torn>>
    BY <1>4 DEF Package
  <2>2. script'[o].at = "packaged" /\ \A q \in Operators : q # o => script'[q] = script[q]
    BY <1>0, <2>1
  <2>3. HolderAlone' /\ FilesAgree'
    BY <1>0, <2>1, <2>2 DEF HolderAlone, FilesAgree, Agreed, Changing, Deploying, ScriptAt
  <2>4. StagedFits' /\ DeployFits'
    BY <1>0, <2>1, <2>2 DEF StagedFits, DeployFits, Agreed, Replaced, Deploying, ScriptAt
  <2>5. QED
    BY <1>0, <2>3, <2>4 DEF ReleaseInv
<1>5. ASSUME NEW o \in Operators, ReadPins(o) PROVE ReleaseInv'
  <2>1. CASE FlockFree(o)
    <3>1. /\ script' = [script EXCEPT ![o] = [at |-> "staged", commit |-> script[o].commit, seen |-> pin]]
          /\ flock = NoOperator /\ flock' = o
          /\ UNCHANGED <<pin, deployed, edited, torn>>
      BY <1>0, <1>5, <2>1 DEF ReadPins, FlockFree
    <3>2. /\ script'[o].at = "staged" /\ script'[o].seen = pin
          /\ \A q \in Operators : q # o => script'[q] = script[q]
      BY <1>0, <3>1
    <3>3. \A q \in Operators : script[q].at \notin Changing \cup Deploying
      BY <1>0, <3>1, OperatorAssumption DEF HolderAlone
    <3>4. edited = 0 /\ ~ torn => Agreed(pin)
      BY <1>0, <3>3 DEF FilesAgree, Changing, ScriptAt
    <3>5. HolderAlone' /\ FilesAgree'
      BY <3>1, <3>2, <3>3, <3>4 DEF HolderAlone, FilesAgree, Agreed, Changing, Deploying
    <3>6. StagedFits' /\ DeployFits'
      BY <3>1, <3>2, <3>3, <3>4 DEF StagedFits, DeployFits, Agreed, Changing, Deploying, ScriptAt
    <3>7. QED
      BY <1>0, <3>5, <3>6 DEF ReleaseInv
  <2>2. CASE ~FlockFree(o)
    <3>1. flock # o
      BY <1>0, <1>5 DEF ReadPins, HolderAlone, Changing, Deploying, ScriptAt
    <3>2. QED
      BY <1>0, <1>5, <2>2, <3>1, ScriptLetsGo DEF ReadPins
  <2>3. QED
    BY <2>1, <2>2
<1>6. ASSUME NEW o \in Operators, VerifyPins(o) PROVE ReleaseInv'
  <2>1. flock = o /\ script[o].at = "staged"
        /\ \A q \in Operators : script[q].at \in Changing \cup Deploying => q = o
    BY <1>6, <1>00 DEF VerifyPins, ScriptAt, Changing
  <2>2. edited = 0 /\ ~ torn => Agreed(pin) /\ Agreed(script[o].seen)
    BY <1>0, <2>1 DEF FilesAgree, StagedFits, ScriptAt, Changing
  <2>3. CASE pin = script[o].seen
    <3>1. /\ script' = [script EXCEPT ![o] =
                 [at |-> "replacing", commit |-> script[o].commit, seen |-> script[o].seen,
                  left |-> {f \in LocalFiles : pin[f].commit # script[o].commit}]]
          /\ UNCHANGED <<pin, flock, deployed, edited, torn>>
      BY <1>0, <1>6, <2>3 DEF VerifyPins
    <3>2. /\ script'[o].at = "replacing" /\ script'[o].seen = script[o].seen
          /\ script'[o].commit = script[o].commit
          /\ script'[o].left = {f \in LocalFiles : pin[f].commit # script[o].commit}
          /\ \A q \in Operators : q # o => script'[q] = script[q]
      BY <1>0, <3>1
    <3>3. HolderAlone' /\ FilesAgree'
      BY <1>0, <2>1, <3>1, <3>2 DEF HolderAlone, FilesAgree, Changing, Deploying, ScriptAt
    <3>4. edited = 0 /\ ~ torn => (Replaced(o))'
      BY <2>2, <2>3, <3>1, <3>2 DEF Replaced, Agreed
    <3>5. StagedFits' /\ DeployFits'
      BY <2>1, <3>1, <3>2, <3>4 DEF StagedFits, DeployFits, Changing, Deploying, ScriptAt
    <3>6. QED
      BY <1>0, <3>3, <3>5 DEF ReleaseInv
  <2>4. CASE ~(pin = script[o].seen)
    BY <1>0, <1>6, <2>2, <2>4, ScriptLetsGo DEF VerifyPins
  <2>5. QED
    BY <2>3, <2>4
<1>7. ASSUME NEW o \in Operators, ReplacePin(o) PROVE ReleaseInv'
  <2>1. PICK f \in script[o].left :
          /\ pin' = [pin EXCEPT ![f] = [script[o].seen[f] EXCEPT !.commit = script[o].commit]]
          /\ script' = [script EXCEPT ![o].left = @ \ {f}]
    BY <1>7 DEF ReplacePin
  <2>2. /\ script[o] \in [at : {"replacing"}, commit : Revisions, seen : Pins, left : SUBSET LocalFiles]
        /\ f \in LocalFiles
    BY <1>0, <1>7, <2>1, ScriptFields DEF ReplacePin
  <2>3. script' = [script EXCEPT ![o] = [script[o] EXCEPT !.left = script[o].left \ {f}]]
    BY <1>0, <2>1
  <2>4. /\ script'[o].at = "replacing" /\ script'[o].seen = script[o].seen
        /\ script'[o].commit = script[o].commit
        /\ script'[o].left = script[o].left \ {f}
        /\ \A q \in Operators : q # o => script'[q] = script[q]
    BY <1>0, <2>2, <2>3
  <2>5. pin'[f].commit = script[o].commit /\ \A g \in LocalFiles : g # f => pin'[g] = pin[g]
    <3>1. script[o].seen[f] \in Contents /\ pin \in Pins
      BY <1>0, <2>2 DEF Pins, ReleaseTypeOK
    <3>2. QED
      BY <2>1, <2>2, <3>1 DEF Pins, Contents
  <2>6. /\ UNCHANGED <<flock, deployed, edited, torn>> /\ script[o].at = "replacing"
        /\ flock = o /\ \A q \in Operators : script[q].at \in Changing \cup Deploying => q = o
    BY <1>7, <1>00 DEF ReplacePin, ScriptAt, Changing
  <2>7. HolderAlone' /\ FilesAgree'
    BY <1>0, <2>4, <2>6 DEF HolderAlone, FilesAgree, Changing, Deploying, ScriptAt
  <2>8. ASSUME edited = 0, ~ torn PROVE (Replaced(o))'
    <3>1. Replaced(o)
      BY <1>0, <2>6, <2>8 DEF StagedFits, ScriptAt
    <3>2. script[o].seen[f].commit # script[o].commit
      BY <2>1, <2>2, <3>1 DEF Replaced
    <3>3. QED
      BY <2>4, <2>5, <3>1, <3>2 DEF Replaced, Agreed
  <2>9. StagedFits' /\ DeployFits'
    BY <2>4, <2>6, <2>8 DEF StagedFits, DeployFits, Changing, Deploying, ScriptAt
  <2>10. QED
    BY <1>0, <2>7, <2>9 DEF ReleaseInv
<1>8. ASSUME NEW o \in Operators, PinsReplaced(o) PROVE ReleaseInv'
  <2>1. edited = 0 /\ ~ torn => Agreed(pin)
    BY <1>0, <1>8 DEF PinsReplaced, StagedFits, Replaced, Agreed
  <2>2. QED
    BY <1>0, <1>8, <2>1, ScriptLetsGo DEF PinsReplaced
<1>9. ASSUME NEW o \in Operators, ReplaceFails(o) PROVE ReleaseInv'
  <2>1. PICK cutoff \in SUBSET {f \in LocalFiles \ script[o].left : script[o].seen[f].commit # script[o].commit} :
          /\ pin' = [f \in LocalFiles |->
                      IF f \in script[o].left \cup cutoff \/ script[o].seen[f].commit = script[o].commit
                      THEN pin[f] ELSE script[o].seen[f]]
          /\ torn' = (torn \/ cutoff # {})
    BY <1>9 DEF ReplaceFails
  <2>2. ScriptAt(o, "replacing") /\ flock = o
    BY <1>9, <1>00 DEF ReplaceFails, ScriptAt, Changing
  <2>3. ASSUME edited = 0, ~ torn' PROVE Agreed(pin')
    <3>1. cutoff = {} /\ ~ torn
      BY <2>1, <2>3
    <3>2. Replaced(o)
      BY <1>0, <2>2, <2>3, <3>1 DEF StagedFits
    <3>3. \A f \in LocalFiles : pin'[f].commit = script[o].seen[f].commit
      BY <2>1, <3>1, <3>2 DEF Replaced
    <3>4. QED
      BY <3>2, <3>3 DEF Replaced, Agreed
  <2>4. torn => torn'
    BY <2>1
  <2>5. QED
    BY <1>0, <1>9, <2>2, <2>3, <2>4, ScriptLetsGo DEF ReplaceFails
<1>10. ASSUME NEW o \in Operators, Freeze(o) PROVE ReleaseInv'
  <2>1. /\ script' = [script EXCEPT ![o] =
                   [at |-> "checking", commit |-> pin[APPROVALS].commit,
                    seen |-> pin, editedThen |-> edited]]
        /\ flock = NoOperator /\ flock' = o
        /\ UNCHANGED <<pin, deployed, edited, torn>>
    BY <1>10 DEF Freeze
  <2>2. /\ script'[o].at = "checking" /\ script'[o].seen = pin /\ script'[o].editedThen = edited
        /\ \A q \in Operators : q # o => script'[q] = script[q]
    BY <1>0, <2>1
  <2>3. \A q \in Operators : script[q].at \notin Changing \cup Deploying
    BY <1>0, <2>1, OperatorAssumption DEF HolderAlone
  <2>4. HolderAlone' /\ FilesAgree'
    BY <1>0, <2>1, <2>2, <2>3 DEF HolderAlone, FilesAgree, Agreed, Changing, Deploying, ScriptAt
  <2>5. StagedFits' /\ DeployFits'
    BY <1>0, <2>1, <2>2, <2>3 DEF StagedFits, DeployFits, Changing, Deploying, ScriptAt
  <2>6. QED
    BY <1>0, <2>4, <2>5 DEF ReleaseInv
\* A deployment that goes on, to the next of its stages.
<1>11. ASSUME NEW o \in Operators, NEW to \in {"confirming", "applying"},
              script[o].at \in Deploying,
              script' = [script EXCEPT ![o].at = to],
              pin' = pin, UNCHANGED <<flock, edited, torn>>,
              deployed.checked \subseteq deployed'.checked,
              script[o].commit \in deployed'.checked
       PROVE  ReleaseInv'
  <2>1. script[o] \in [at : {"checking", "confirming", "applying"}, commit : Revisions,
                       seen : Pins, editedThen : 0 .. MaxEdited]
    BY <1>0, <1>11, ScriptFields DEF Deploying
  <2>2. script' = [script EXCEPT ![o] = [script[o] EXCEPT !.at = to]]
    BY <1>0, <1>11
  <2>3. /\ script'[o].at = to /\ script'[o].seen = script[o].seen
        /\ script'[o].commit = script[o].commit /\ script'[o].editedThen = script[o].editedThen
        /\ \A q \in Operators : q # o => script'[q] = script[q]
    BY <1>0, <2>1, <2>2
  <2>4. flock = o /\ \A q \in Operators : script[q].at \in Changing \cup Deploying => q = o
    BY <1>11, <1>00
  <2>5. HolderAlone' /\ FilesAgree'
    BY <1>0, <1>11, <2>3, <2>4 DEF HolderAlone, FilesAgree, Agreed, Changing, Deploying, ScriptAt
  <2>6. StagedFits' /\ DeployFits'
    BY <1>0, <1>11, <2>3, <2>4 DEF StagedFits, DeployFits, Changing, Deploying, ScriptAt
  <2>7. QED
    BY <1>0, <2>5, <2>6 DEF ReleaseInv
<1>12. ASSUME NEW o \in Operators, script[o].at \in Deploying
       PROVE  edited = 0 /\ ~ torn => Agreed(pin)
  BY <1>0, <1>12, <1>00 DEF FilesAgree, ScriptAt, Changing, Deploying
<1>13. ASSUME NEW o \in Operators, DryRunPasses(o) PROVE ReleaseInv'
  <2>0. PICK inventory \in Inventories :
           IF InputsKept(o, inventory)
           THEN /\ script' = [script EXCEPT ![o].at = "confirming"]
                /\ deployed' = [deployed EXCEPT !.checked = @ \cup {script[o].commit}]
                /\ UNCHANGED flock
           ELSE Ends(o) /\ UNCHANGED deployed
    BY <1>13 DEF DryRunPasses
  <2>1. script[o].at \in Deploying /\ UNCHANGED <<main, archive, pin, confirmed, edited, torn>>
    BY <1>13 DEF DryRunPasses, ScriptAt, Deploying
  <2>2. CASE InputsKept(o, inventory)
    <3>1. deployed'.checked = deployed.checked \cup {script[o].commit}
      BY <1>0, <2>0, <2>2 DEF ReleaseTypeOK
    <3>2. QED
      BY <1>11, <2>0, <2>1, <2>2, <3>1
  <2>3. CASE ~ InputsKept(o, inventory)
    BY <1>0, <1>12, <2>0, <2>1, <2>3, ScriptLetsGo
  <2>4. QED
    BY <2>2, <2>3
<1>14. ASSUME NEW o \in Operators, Confirm(o) PROVE ReleaseInv'
  <2>1. script[o].at = "confirming" /\ script[o].at \in Deploying
    BY <1>14 DEF Confirm, ScriptAt, Deploying
  <2>2. /\ script[o] \in [at : {"checking", "confirming", "applying"}, commit : Revisions,
                          seen : Pins, editedThen : 0 .. MaxEdited]
        /\ script[o].commit \in deployed.checked
        /\ script[o].editedThen = edited => pin = script[o].seen
    BY <1>0, <2>1, ScriptFields DEF DeployFits
  <2>3. CASE pin = script[o].seen
    <3>1. pin' = pin
      BY <1>0, <1>14, <2>3 DEF Confirm, ReleaseTypeOK, Pins
    <3>2. QED
      BY <1>11, <1>14, <2>1, <2>2, <3>1 DEF Confirm
  <2>4. CASE pin # script[o].seen
    <3>1. script' = [script EXCEPT ![o] = [script[o] EXCEPT !.at = "applying"]]
      BY <1>0, <1>14 DEF Confirm
    <3>2. /\ script'[o].at = "applying"
          /\ script'[o].commit = script[o].commit /\ script'[o].editedThen = script[o].editedThen
          /\ \A q \in Operators : q # o => script'[q] = script[q]
      BY <1>0, <2>2, <3>1
    <3>3. flock = o /\ \A q \in Operators : script[q].at \in Changing \cup Deploying => q = o
      BY <2>1, <1>00
    <3>4. edited # 0 /\ script[o].editedThen <= edited /\ script[o].editedThen # edited
      <4>1. script[o].editedThen <= edited /\ script[o].editedThen # edited
        BY <1>0, <2>1, <2>2, <2>4 DEF DeployFits
      <4>2. script[o].editedThen \in Nat
        BY <2>2, HandEditBound
      <4>3. QED
        BY <1>0, <4>1, <4>2
    <3>5. UNCHANGED <<flock, deployed, edited, torn>>
      BY <1>14 DEF Confirm
    <3>6. HolderAlone' /\ FilesAgree'
      BY <1>0, <3>2, <3>3, <3>4, <3>5 DEF HolderAlone, FilesAgree, Changing, Deploying
    <3>7. StagedFits' /\ DeployFits'
      BY <1>0, <2>2, <3>2, <3>3, <3>4, <3>5 DEF StagedFits, DeployFits, Changing, Deploying
    <3>8. QED
      BY <1>0, <3>6, <3>7 DEF ReleaseInv
  <2>5. QED
    BY <2>3, <2>4
<1>15. ASSUME NEW o \in Operators, ApplyArchive(o) PROVE ReleaseInv'
  <2>1. script[o].at \in Deploying
    BY <1>15 DEF ApplyArchive, ScriptAt, Deploying
  <2>2. deployed'.checked = deployed.checked
    BY <1>0, <1>15 DEF ApplyArchive, ReleaseTypeOK
  <2>3. QED
    BY <1>0, <1>12, <1>15, <2>1, <2>2, ScriptLetsGo DEF ApplyArchive
<1>16. ASSUME NEW o \in Operators, ScriptEnds(o) PROVE ReleaseInv'
  <2>1. torn' = (torn \/ (ScriptAt(o, "replacing") /\ \E f, g \in LocalFiles : pin[f].commit # pin[g].commit))
    BY <1>16 DEF ScriptEnds
  <2>2. flock = o /\ edited = 0 /\ ~ torn' => Agreed(pin)
    <3> SUFFICES ASSUME flock = o, edited = 0, ~ torn' PROVE Agreed(pin)
      OBVIOUS
    <3>1. CASE ScriptAt(o, "replacing")
      BY <2>1, <3>1 DEF Agreed
    <3>2. CASE ~ ScriptAt(o, "replacing")
      BY <1>0, <2>1, <3>2 DEF FilesAgree, HolderAlone, ScriptAt, Changing
    <3>3. QED
      BY <3>1, <3>2
  <2>3. QED
    BY <1>0, <1>16, <2>1, <2>2, ScriptLetsGo DEF ScriptEnds
<1>17. CASE UNCHANGED releaseVars
  BY <1>0, <1>17, ReleaseRests DEF releaseVars
<1>18. QED
  BY <1>1, <1>2, <1>3, <1>4, <1>5, <1>6, <1>7, <1>8, <1>9, <1>10, <1>13, <1>14, <1>15, <1>16, <1>17
  DEF ReleaseNext

\* Files, archives, invocations of the scripts and the host keep their types.
THEOREM ReleaseTypeCorrect == ReleaseSpec => []ReleaseTypeOK
  BY ReleaseTypeInit, ReleaseTypeStep, PTL DEF ReleaseSpec

\* While nobody holds the lock the local files pin one release, unless one was
\* edited or a replacement cut off, and what a deployment applies is what they
\* pin and what its dry run passed: however many packagings and deployments
\* cross, fail or die (replace_configurations, deploy.py).
THEOREM PinsStayAgreed == ReleaseSpec => []PinsAgree
<1>1. ReleaseInv => PinsAgree
  <2> SUFFICES ASSUME ReleaseInv PROVE PinsAgree
    OBVIOUS
  <2>1. ASSUME flock = NoOperator, edited = 0, ~ torn PROVE Agreed(pin)
    <3>1. \A o \in Operators : ~ ScriptAt(o, "replacing")
      BY <2>1, OperatorAssumption DEF ReleaseInv, HolderAlone, Changing, ScriptAt
    <3>2. QED
      BY <2>1, <3>1 DEF ReleaseInv, FilesAgree
  <2>2. QED
    BY <2>1 DEF PinsAgree, ReleaseInv, DeployFits, Agreed, Deploying, ScriptAt
<1>2. QED
  BY <1>1, ReleaseInvInit, ReleaseInvStep, PTL DEF ReleaseSpec

----------------------------------------------------------------------------
(* The activation of a release on its host.                                *)

Kept == Installable \cup {"absent"}
Attempting == {"deciding"} \cup Activating \cup Recovering
FileSets == [Files -> Kept]
RunSets == [Units -> Installable \cup {"down"}]
Markers == {"absent", "ansible", "operator"}
Flags == {"maintenance", "install", "stop", "timer", "pointer"}
Hosts == [file : FileSets, loaded : FileSets, run : RunSets,
          marker : Markers, current : Releases \cup {"absent"}]

\* The host, the snapshot of it and the attempt under way keep their types.
ActivationTypeOK ==
    /\ file \in FileSets /\ loaded \in FileSets /\ run \in RunSets
    /\ marker \in Markers /\ current \in Releases \cup {"absent"}
    /\ before \in Hosts
    /\ page \in BOOLEAN /\ upgrade \in BOOLEAN /\ removed \in BOOLEAN
    /\ at \in Ended \cup Attempting
    /\ target \in Installable /\ (at # "idle" => target \in Releases)
    /\ flags \in SUBSET Flags
    /\ attempts \in Nat /\ breaks \in Nat /\ hands \in Nat

\* What runs is installed and loaded, and applications that run are installed in
\* one version.
RunsInstalled(installed, known, runs) ==
    /\ \A u \in Units : runs[u] # "down" => known[u] # "absent" /\ installed[u] # "absent"
    /\ \A a, b \in Apps : runs[a] # "down" /\ runs[b] # "down" => installed[a] = installed[b]

\* A host has a site older than the role, or began without one.
LegacyOrFresh ==
    \/ \A f \in Files : LEGACY \notin {file[f], loaded[f], before.file[f]}
    \/ \A f \in Files : "absent" \notin {file[f], loaded[f], before.file[f]}

Installed == {"reloading", "starting", "opening", "publishing", "scheduling", "verifying"}
Restored == {"repointing", "redefining", "resuming", "rescheduling", "reproxying", "unmarking"}

FilesKept ==
    at \in Attempting =>
        /\ \A f \in Files : f \in ChangedFiles \/ file[f] = before.file[f]
        /\ at \in {"deciding", "marking", "proxying"} => file = before.file
        /\ at = "draining" => file[PROXY] = target /\ "install" \in flags
        /\ "install" \notin flags => file = before.file
        /\ at \in Installed => "install" \in flags /\ \A f \in Files : file[f] = target
        /\ at \in Restored => file = before.file

UnitFilesKept ==
    /\ at \in Attempting /\ "stop" \notin flags => \A u \in Units : file[u] = before.file[u]
    /\ at \in {"deciding", "marking", "proxying", "draining", "stopping", "pausing"} =>
          \A u \in Units : file[u] = before.file[u]
    /\ at \in Attempting /\ "timer" \notin flags => file[TIMER] = before.file[TIMER]

Early == {"deciding", "marking", "proxying", "draining"}
AppsKept ==
    at \in Attempting =>
        /\ at \in Early => "stop" \notin flags
        /\ "stop" \notin flags =>
              /\ at \in Early \cup {"stopping"} \cup Recovering
              /\ \A a \in Apps : run[a] = before.run[a]
        /\ \A a \in Apps : a \in Restart \/ run[a] = before.run[a]
        /\ at \in {"pausing", "installing", "reloading"} => \A a \in Restart : run[a] = "down"
        /\ at \in {"opening", "publishing", "scheduling", "verifying"} =>
              \A a \in Restart : run[a] # "down"
        /\ "stop" \in flags =>
              /\ at \in {"restoring", "repointing", "redefining"} => \A a \in Restart : run[a] = "down"
              /\ at = "resuming" => \A a \in Restart : run[a] # "down" => before.run[a] # "down"
              /\ at \in {"rescheduling", "reproxying", "unmarking"} =>
                    \A a \in Restart : run[a] # "down" <=> before.run[a] # "down"

TimerKept ==
    at \in Attempting =>
        /\ at \in Early \cup {"stopping", "pausing"} => "timer" \notin flags
        /\ "timer" \notin flags => run[TIMER] = before.run[TIMER]
        /\ at \in {"installing", "reloading", "starting", "opening", "publishing", "scheduling"} =>
              IF TimerChanges THEN "timer" \in flags /\ run[TIMER] = "down"
              ELSE run[TIMER] = before.run[TIMER]
        /\ "timer" \in flags =>
              /\ at \in {"halting", "restoring", "repointing", "redefining", "resuming", "rescheduling"} =>
                    run[TIMER] = "down"
              /\ at \in {"reproxying", "unmarking"} => (run[TIMER] # "down" <=> before.run[TIMER] # "down")
        /\ at = "verifying" => run[TIMER] # "down"

LoadsKept ==
    at \in Attempting =>
        /\ ~ UnitsChanged => \A u \in Units : loaded[u] = before.loaded[u]
        /\ UnitsChanged /\ at \in {"starting", "opening", "publishing", "scheduling", "verifying"} =>
              \A u \in Units : loaded[u] = target
        /\ UnitsChanged /\ at \in {"resuming", "rescheduling", "reproxying", "unmarking"} =>
              \A u \in Units : loaded[u] = before.file[u]

ProxyKept ==
    at \in Attempting =>
        /\ "install" \notin flags => loaded[PROXY] = before.loaded[PROXY]
        /\ AsInstalled /\ PROXY \notin ChangedFiles => loaded[PROXY] = before.loaded[PROXY]
        /\ at \in {"opening", "publishing", "scheduling", "verifying"} /\ PROXY \in ChangedFiles =>
              loaded[PROXY] = target
        /\ at = "unmarking" /\ PROXY \in ChangedFiles /\ "install" \in flags =>
              loaded[PROXY] = before.file[PROXY]

PointerKept ==
    at \in Attempting =>
        /\ "pointer" \notin flags => current = before.current
        /\ at \in ({"deciding"} \cup Activating) \ {"scheduling", "verifying"} => "pointer" \notin flags
        /\ at \in {"scheduling", "verifying"} => current = target
        /\ at \in {"redefining", "resuming", "rescheduling", "reproxying", "unmarking"} =>
              current = before.current

MarkerKept ==
    /\ hands = 0 /\ at \in Attempting =>
        /\ before.marker = "operator" => marker = "operator"
        /\ before.marker # "operator" => marker # "operator"
        /\ "maintenance" \notin flags => marker = before.marker
        /\ "maintenance" \in flags /\ at \in Recovering \ {"remarking"} => marker # "absent"
    /\ page \/ marker = "absent"
    /\ at \in Attempting /\ (at = "marking" \/ "maintenance" \in flags) => page

\* With a maintenance page the site is closed from the mark to the opening, and
\* in recovery once services were stopped.
ProxyHonours ==
    page /\ at \in Attempting =>
        /\ at \in Activating \ {"marking"} => "maintenance" \in flags
        /\ "stop" \in flags => "maintenance" \in flags
        /\ ("stop" \in flags \/ at = "stopping") /\ at # "unmarking" => loaded[PROXY] # LEGACY
        /\ ~ removed =>
              /\ at \in {"proxying", "draining", "stopping", "pausing", "installing", "reloading",
                         "starting", "opening"} => marker # "absent"
              /\ "maintenance" \in flags /\ at \in Recovering \ {"remarking"} => marker # "absent"

\* On a host that ran what was installed, services run the release, or what they ran.
RunsFit ==
    AsInstalled /\ at \in Attempting =>
        /\ at \in {"starting", "opening", "publishing", "scheduling", "verifying"} =>
              \A a \in Apps : run[a] # "down" => run[a] = target
        /\ at \in {"resuming", "rescheduling", "reproxying", "unmarking"} =>
              \A a \in Apps : run[a] # "down" => run[a] = before.run[a]
        /\ at \in {"reproxying", "unmarking"} => run[TIMER] = before.run[TIMER]
        /\ at = "verifying" => run[TIMER] = target

HostInv ==
    /\ RunsInstalled(file, loaded, run) /\ RunsInstalled(before.file, before.loaded, before.run)
    /\ LegacyOrFresh
FilesInv == FilesKept /\ UnitFilesKept
ActivationInv ==
    /\ ActivationTypeOK /\ HostInv /\ FilesInv
    /\ AppsKept /\ TimerKept /\ LoadsKept /\ ProxyKept /\ PointerKept /\ MarkerKept /\ ProxyHonours
    /\ RunsFit /\ MaintenanceCovers /\ EndsWhole

\* Decisions do not change in the course of an attempt.
Steady ==
    /\ ChangedFiles' = ChangedFiles /\ Restart' = Restart
    /\ UnitsChanged' = UnitsChanged /\ TimerChanges' = TimerChanges
    /\ AsInstalled' = AsInstalled /\ FirstBootstrap' = FirstBootstrap
LEMMA SteadyAttempt == UNCHANGED attemptVars => Steady
  BY
  DEF attemptVars, Steady, ChangedFiles, Restart, UnitsChanged, TimerChanges, AsInstalled,
      FirstBootstrap

\* What is not stopped is in place and ran.
Untouched ==
    /\ ChangedFiles \subseteq Files /\ Restart \subseteq Apps
    /\ \A f \in Files : f \in ChangedFiles <=> before.file[f] # target
    /\ \A a \in Apps : a \notin Restart => a \notin ChangedFiles /\ before.run[a] # "down"
    /\ UnitsChanged <=> \E u \in Units : u \in ChangedFiles
    /\ TimerChanges <=> TIMER \in ChangedFiles \/ upgrade
    /\ Apps \subseteq Units /\ Units \subseteq Files /\ TIMER \in Units /\ PROXY \in Files
    /\ TIMER \notin Apps /\ PROXY \notin Units
LEMMA Decided == Untouched
  BY PartsDistinct DEF Untouched, ChangedFiles, Restart, UnitsChanged, TimerChanges, Units, Files

\* Files differ from the snapshot only where they were to change, and as far as the attempt got.
LEMMA FilesStep ==
    ASSUME ActivationTypeOK, FilesKept, [ActivationNext]_activationVars
    PROVE  FilesKept'
<1>0. UNCHANGED attemptVars => Steady
  BY SteadyAttempt
<1>d. Untouched
  BY Decided
<1> USE DEF At, Loop, Flag, RunsAs, Loads, Same, hostVars, attemptVars, countVars, ActivationTypeOK,
        FileSets, RunSets, Markers, Flags, Kept, Installable, Files, Units, Attempting, Ended,
        Activating, Recovering, Steady, Untouched, FilesKept, Installed, Restored
<1>1. CASE InspectHost
  BY <1>1, <1>0, <1>d DEF InspectHost, ChangedFiles, Host
<1>2. CASE Decide \/ LoseHost \/ Operate
  BY <1>2, <1>0, <1>d
  DEF Decide, LoseHost, Operate
<1>3. CASE Mark \/ InstallProxy \/ DrainWorkers \/ StopApp \/ AppsStopped
  BY <1>3, <1>0, <1>d
  DEF Mark, InstallProxy, DrainWorkers, StopApp, AppsStopped
<1>4. CASE PauseTimer \/ InstallFile \/ FilesInstalled \/ ReloadUnits \/ StartApp
  BY <1>4, <1>0, <1>d
  DEF PauseTimer, InstallFile, FilesInstalled, ReloadUnits, StartApp
<1>5. CASE AppsStarted \/ LeaveMaintenance \/ Publish \/ Schedule \/ Finish
  BY <1>5, <1>0, <1>d
  DEF AppsStarted, LeaveMaintenance, Publish, Schedule, Finish
<1>6. CASE TaskFails
  BY <1>6, <1>0, <1>d
  DEF TaskFails
<1>7. CASE FilesRestored
  BY <1>7, <1>0, <1>d DEF FilesRestored, Hosts
<1>8. CASE Remark \/ Unschedule \/ HaltApp \/ AppsHalted \/ RestoreFile
  BY <1>8, <1>0, <1>d
  DEF Remark, Unschedule, HaltApp, AppsHalted, RestoreFile
<1>9. CASE Repoint \/ Redefine \/ ResumeApp \/ AppsResumed \/ Reschedule
  BY <1>9, <1>0, <1>d
  DEF Repoint, Redefine, ResumeApp, AppsResumed, Reschedule
<1>10. CASE Reproxy \/ Unmark \/ RecoveryFails
  BY <1>10, <1>0, <1>d
  DEF Reproxy, Unmark, RecoveryFails
<1>11. CASE UNCHANGED activationVars
  BY <1>11, <1>0 DEF activationVars
<1>12. QED
  BY <1>1, <1>2, <1>3, <1>4, <1>5, <1>6, <1>7, <1>8, <1>9, <1>10, <1>11
  DEF ActivationNext, ActivateStep, RecoverStep

\* Units' files change only behind the stop.
LEMMA UnitFilesStep ==
    ASSUME ActivationTypeOK, UnitFilesKept, AppsKept, TimerKept, [ActivationNext]_activationVars
    PROVE  UnitFilesKept'
<1>0. UNCHANGED attemptVars => Steady
  BY SteadyAttempt
<1>d. Untouched
  BY Decided
<1> USE DEF At, Loop, Flag, RunsAs, Loads, Same, hostVars, attemptVars, countVars, ActivationTypeOK,
        FileSets, RunSets, Markers, Flags, Kept, Installable, Files, Units, Attempting, Ended,
        Activating, Recovering, Steady, Untouched, UnitFilesKept
<1>1. CASE InspectHost
  BY <1>1, <1>0, <1>d DEF InspectHost, Host
<1>2. CASE Decide \/ LoseHost \/ Operate
  BY <1>2, <1>0, <1>d
  DEF Decide, LoseHost, Operate
<1>3. CASE InstallFile
  BY <1>3, <1>0, <1>d DEF InstallFile, AppsKept, TimerKept, Early
<1>4. CASE Mark \/ InstallProxy \/ DrainWorkers \/ StopApp \/ AppsStopped \/ PauseTimer \/ FilesInstalled
          \/ ReloadUnits
  BY <1>4, <1>0, <1>d
  DEF Mark, InstallProxy, DrainWorkers, StopApp, AppsStopped, PauseTimer, FilesInstalled, ReloadUnits
<1>5. CASE StartApp \/ AppsStarted \/ LeaveMaintenance \/ Publish \/ Schedule \/ Finish \/ TaskFails
  BY <1>5, <1>0, <1>d
  DEF StartApp, AppsStarted, LeaveMaintenance, Publish, Schedule, Finish, TaskFails
<1>6. CASE Remark \/ Unschedule \/ HaltApp \/ AppsHalted \/ RestoreFile \/ FilesRestored \/ Repoint \/
          Redefine
  BY <1>6, <1>0, <1>d
  DEF Remark, Unschedule, HaltApp, AppsHalted, RestoreFile, FilesRestored, Repoint, Redefine
<1>7. CASE ResumeApp \/ AppsResumed \/ Reschedule \/ Reproxy \/ Unmark \/ RecoveryFails
  BY <1>7, <1>0, <1>d
  DEF ResumeApp, AppsResumed, Reschedule, Reproxy, Unmark, RecoveryFails
<1>8. CASE UNCHANGED activationVars
  BY <1>8, <1>0 DEF activationVars
<1>9. QED
  BY <1>1, <1>2, <1>3, <1>4, <1>5, <1>6, <1>7, <1>8
  DEF ActivationNext, ActivateStep, RecoverStep

\* Applications that need no restart go on as they were; the others are down where they should be.
LEMMA AppsStep ==
    ASSUME ActivationTypeOK, AppsKept, [ActivationNext]_activationVars
    PROVE  AppsKept'
<1>0. UNCHANGED attemptVars => Steady
  BY SteadyAttempt
<1>d. Untouched
  BY Decided
<1> USE DEF At, Loop, Flag, RunsAs, Loads, Same, hostVars, attemptVars, countVars, ActivationTypeOK,
        FileSets, RunSets, Markers, Flags, Kept, Installable, Files, Units, Attempting, Ended,
        Activating, Recovering, Steady, Untouched, AppsKept, Early
<1>1. CASE InspectHost
  BY <1>1, <1>0, <1>d DEF InspectHost, Host
<1>2. CASE Decide \/ LoseHost \/ Operate
  BY <1>2, <1>0, <1>d
  DEF Decide, LoseHost, Operate
<1>3. CASE StartApp
  BY <1>3, <1>0, <1>d, LegacyApart DEF StartApp
<1>4. CASE Schedule
  BY <1>4, <1>0, <1>d DEF Schedule, TimerStarts
<1>5. CASE Mark \/ InstallProxy \/ DrainWorkers \/ StopApp \/ AppsStopped
  BY <1>5, <1>0, <1>d
  DEF Mark, InstallProxy, DrainWorkers, StopApp, AppsStopped
<1>6. CASE PauseTimer \/ InstallFile \/ FilesInstalled \/ ReloadUnits \/ AppsStarted
  BY <1>6, <1>0, <1>d
  DEF PauseTimer, InstallFile, FilesInstalled, ReloadUnits, AppsStarted
<1>7. CASE LeaveMaintenance \/ Publish \/ Finish \/ TaskFails
  BY <1>7, <1>0, <1>d
  DEF LeaveMaintenance, Publish, Finish, TaskFails
<1>8. CASE HaltApp
  BY <1>8, <1>0, <1>d DEF HaltApp, ToHalt
<1>9. CASE AppsHalted
  BY <1>9, <1>0, <1>d DEF AppsHalted, ToHalt
<1>10. CASE ResumeApp
  BY <1>10, <1>0, <1>d, LegacyApart DEF ResumeApp, ToResume
<1>11. CASE AppsResumed
  BY <1>11, <1>0, <1>d DEF AppsResumed, ToResume
<1>12. CASE Remark \/ Unschedule \/ RestoreFile \/ FilesRestored \/ Repoint
  BY <1>12, <1>0, <1>d
  DEF Remark, Unschedule, RestoreFile, FilesRestored, Repoint
<1>13. CASE Redefine \/ Reschedule \/ Reproxy \/ Unmark \/ RecoveryFails
  BY <1>13, <1>0, <1>d
  DEF Redefine, Reschedule, Reproxy, Unmark, RecoveryFails
<1>14. CASE UNCHANGED activationVars
  BY <1>14, <1>0 DEF activationVars
<1>15. QED
  BY <1>1, <1>2, <1>3, <1>4, <1>5, <1>6, <1>7, <1>8, <1>9, <1>10, <1>11, <1>12, <1>13, <1>14
  DEF ActivationNext, ActivateStep, RecoverStep

\* The timer is stopped, and started, on record.
LEMMA TimerStep ==
    ASSUME ActivationTypeOK, TimerKept, HostInv, [ActivationNext]_activationVars
    PROVE  TimerKept'
<1>0. UNCHANGED attemptVars => Steady
  BY SteadyAttempt
<1>d. Untouched
  BY Decided
<1> USE DEF At, Loop, Flag, RunsAs, Loads, Same, hostVars, attemptVars, countVars, ActivationTypeOK,
        FileSets, RunSets, Markers, Flags, Kept, Installable, Files, Units, Attempting, Ended,
        Activating, Recovering, Steady, Untouched, TimerKept, Early
<1>1. CASE InspectHost
  BY <1>1, <1>0, <1>d DEF InspectHost, Host
<1>2. CASE Decide \/ LoseHost \/ Operate
  BY <1>2, <1>0, <1>d
  DEF Decide, LoseHost, Operate
<1>3. CASE Schedule
  BY <1>3, <1>0, <1>d, LegacyApart DEF Schedule, TimerStarts
<1>4. CASE Mark \/ InstallProxy \/ DrainWorkers \/ StopApp \/ AppsStopped \/ PauseTimer \/ InstallFile \/
          FilesInstalled
  BY <1>4, <1>0, <1>d
  DEF Mark, InstallProxy, DrainWorkers, StopApp, AppsStopped, PauseTimer, InstallFile, FilesInstalled
<1>5. CASE ReloadUnits \/ StartApp \/ AppsStarted \/ LeaveMaintenance \/ Publish \/ Finish \/ TaskFails
  BY <1>5, <1>0, <1>d
  DEF ReloadUnits, StartApp, AppsStarted, LeaveMaintenance, Publish, Finish, TaskFails
<1>6. CASE Unschedule
  BY <1>6, <1>0, <1>d DEF Unschedule, HostInv, RunsInstalled
<1>7. CASE HaltApp
  BY <1>7, <1>0, <1>d DEF HaltApp, ToHalt
<1>8. CASE ResumeApp
  BY <1>8, <1>0, <1>d DEF ResumeApp, ToResume
<1>9. CASE Reschedule
  BY <1>9, <1>0, <1>d, LegacyApart DEF Reschedule, HostInv, RunsInstalled
<1>10. CASE Remark \/ AppsHalted \/ RestoreFile \/ FilesRestored \/ Repoint \/ Redefine \/ AppsResumed \/
          Reproxy
  BY <1>10, <1>0, <1>d
  DEF Remark, AppsHalted, RestoreFile, FilesRestored, Repoint, Redefine, AppsResumed, Reproxy
<1>11. CASE Unmark \/ RecoveryFails
  BY <1>11, <1>0, <1>d
  DEF Unmark, RecoveryFails
<1>12. CASE UNCHANGED activationVars
  BY <1>12, <1>0 DEF activationVars
<1>13. QED
  BY <1>1, <1>2, <1>3, <1>4, <1>5, <1>6, <1>7, <1>8, <1>9, <1>10, <1>11, <1>12
  DEF ActivationNext, ActivateStep, RecoverStep

\* What systemd has loaded is the release's behind the reload, and the former behind recovery's.
LEMMA LoadsStep ==
    ASSUME ActivationTypeOK, LoadsKept, FilesKept, [ActivationNext]_activationVars
    PROVE  LoadsKept'
<1>0. UNCHANGED attemptVars => Steady
  BY SteadyAttempt
<1>d. Untouched
  BY Decided
<1> USE DEF At, Loop, Flag, RunsAs, Loads, Same, hostVars, attemptVars, countVars, ActivationTypeOK,
        FileSets, RunSets, Markers, Flags, Kept, Installable, Files, Units, Attempting, Ended,
        Activating, Recovering, Steady, Untouched, LoadsKept, FilesKept, Installed, Restored
<1>1. CASE InspectHost
  BY <1>1, <1>0, <1>d DEF InspectHost, Host
<1>2. CASE Decide \/ LoseHost \/ Operate
  BY <1>2, <1>0, <1>d
  DEF Decide, LoseHost, Operate
<1>3. CASE Mark \/ InstallProxy \/ DrainWorkers \/ StopApp \/ AppsStopped \/ PauseTimer \/ InstallFile \/
          FilesInstalled
  BY <1>3, <1>0, <1>d
  DEF Mark, InstallProxy, DrainWorkers, StopApp, AppsStopped, PauseTimer, InstallFile, FilesInstalled
<1>4. CASE ReloadUnits \/ StartApp \/ AppsStarted \/ LeaveMaintenance \/ Publish \/ Schedule \/ Finish \/
          TaskFails
  BY <1>4, <1>0, <1>d
  DEF ReloadUnits, StartApp, AppsStarted, LeaveMaintenance, Publish, Schedule, Finish, TaskFails
<1>5. CASE Remark \/ Unschedule \/ HaltApp \/ AppsHalted \/ RestoreFile \/ FilesRestored \/ Repoint \/
          Redefine
  BY <1>5, <1>0, <1>d
  DEF Remark, Unschedule, HaltApp, AppsHalted, RestoreFile, FilesRestored, Repoint, Redefine
<1>6. CASE ResumeApp \/ AppsResumed \/ Reschedule \/ Reproxy \/ Unmark \/ RecoveryFails
  BY <1>6, <1>0, <1>d
  DEF ResumeApp, AppsResumed, Reschedule, Reproxy, Unmark, RecoveryFails
<1>7. CASE UNCHANGED activationVars
  BY <1>7, <1>0 DEF activationVars
<1>8. QED
  BY <1>1, <1>2, <1>3, <1>4, <1>5, <1>6, <1>7
  DEF ActivationNext, ActivateStep, RecoverStep

\* What nginx has loaded changes with its files, and is loaded again in recovery.
LEMMA ProxyStep ==
    ASSUME ActivationTypeOK, ProxyKept, FilesKept, [ActivationNext]_activationVars
    PROVE  ProxyKept'
<1>0. UNCHANGED attemptVars => Steady
  BY SteadyAttempt
<1>d. Untouched
  BY Decided
<1> USE DEF At, Loop, Flag, RunsAs, Loads, Same, hostVars, attemptVars, countVars, ActivationTypeOK,
        FileSets, RunSets, Markers, Flags, Kept, Installable, Files, Units, Attempting, Ended,
        Activating, Recovering, Steady, Untouched, ProxyKept, FilesKept, Installed, Restored,
        AsInstalled
<1>1. CASE InspectHost
  BY <1>1, <1>0, <1>d DEF InspectHost, Host
<1>2. CASE Decide \/ LoseHost \/ Operate
  BY <1>2, <1>0, <1>d
  DEF Decide, LoseHost, Operate
<1>3. CASE Mark \/ InstallProxy \/ DrainWorkers \/ StopApp
  BY <1>3, <1>0, <1>d
  DEF Mark, InstallProxy, DrainWorkers, StopApp
<1>4. CASE AppsStopped \/ PauseTimer \/ InstallFile \/ FilesInstalled
  BY <1>4, <1>0, <1>d
  DEF AppsStopped, PauseTimer, InstallFile, FilesInstalled
<1>5. CASE ReloadUnits \/ StartApp \/ AppsStarted \/ LeaveMaintenance
  BY <1>5, <1>0, <1>d
  DEF ReloadUnits, StartApp, AppsStarted, LeaveMaintenance
<1>6. CASE Publish \/ Schedule \/ Finish \/ TaskFails
  BY <1>6, <1>0, <1>d
  DEF Publish, Schedule, Finish, TaskFails
<1>7. CASE Remark \/ Unschedule \/ HaltApp \/ AppsHalted
  BY <1>7, <1>0, <1>d
  DEF Remark, Unschedule, HaltApp, AppsHalted
<1>8. CASE RestoreFile \/ FilesRestored \/ Repoint \/ Redefine
  BY <1>8, <1>0, <1>d
  DEF RestoreFile, FilesRestored, Repoint, Redefine
<1>9. CASE ResumeApp \/ AppsResumed \/ Reschedule \/ Reproxy
  BY <1>9, <1>0, <1>d
  DEF ResumeApp, AppsResumed, Reschedule, Reproxy
<1>10. CASE Unmark \/ RecoveryFails
  BY <1>10, <1>0, <1>d
  DEF Unmark, RecoveryFails
<1>11. CASE UNCHANGED activationVars
  BY <1>11, <1>0 DEF activationVars
<1>12. QED
  BY <1>1, <1>2, <1>3, <1>4, <1>5, <1>6, <1>7, <1>8, <1>9, <1>10, <1>11
  DEF ActivationNext, ActivateStep, RecoverStep

\* The release pointer moves behind the last check of the site, on record.
LEMMA PointerStep ==
    ASSUME ActivationTypeOK, PointerKept, [ActivationNext]_activationVars
    PROVE  PointerKept'
<1>0. UNCHANGED attemptVars => Steady
  BY SteadyAttempt
<1>d. Untouched
  BY Decided
<1> USE DEF At, Loop, Flag, RunsAs, Loads, Same, hostVars, attemptVars, countVars, ActivationTypeOK,
        FileSets, RunSets, Markers, Flags, Kept, Installable, Files, Units, Attempting, Ended,
        Activating, Recovering, Steady, Untouched, PointerKept
<1>1. CASE InspectHost
  BY <1>1, <1>0, <1>d DEF InspectHost, Host
<1>2. CASE Decide \/ LoseHost \/ Operate
  BY <1>2, <1>0, <1>d
  DEF Decide, LoseHost, Operate
<1>3. CASE Mark \/ InstallProxy \/ DrainWorkers \/ StopApp \/ AppsStopped \/ PauseTimer \/ InstallFile \/
          FilesInstalled
  BY <1>3, <1>0, <1>d
  DEF Mark, InstallProxy, DrainWorkers, StopApp, AppsStopped, PauseTimer, InstallFile, FilesInstalled
<1>4. CASE ReloadUnits \/ StartApp \/ AppsStarted \/ LeaveMaintenance \/ Publish \/ Schedule \/ Finish \/
          TaskFails
  BY <1>4, <1>0, <1>d
  DEF ReloadUnits, StartApp, AppsStarted, LeaveMaintenance, Publish, Schedule, Finish, TaskFails
<1>5. CASE Remark \/ Unschedule \/ HaltApp \/ AppsHalted \/ RestoreFile \/ FilesRestored \/ Repoint \/
          Redefine
  BY <1>5, <1>0, <1>d
  DEF Remark, Unschedule, HaltApp, AppsHalted, RestoreFile, FilesRestored, Repoint, Redefine
<1>6. CASE ResumeApp \/ AppsResumed \/ Reschedule \/ Reproxy \/ Unmark \/ RecoveryFails
  BY <1>6, <1>0, <1>d
  DEF ResumeApp, AppsResumed, Reschedule, Reproxy, Unmark, RecoveryFails
<1>7. CASE UNCHANGED activationVars
  BY <1>7, <1>0 DEF activationVars
<1>8. QED
  BY <1>1, <1>2, <1>3, <1>4, <1>5, <1>6, <1>7
  DEF ActivationNext, ActivateStep, RecoverStep

\* Without the operator the marker is the playbook's own, or the one it found.
LEMMA MarkerStep ==
    ASSUME ActivationTypeOK, MarkerKept, ProxyHonours, [ActivationNext]_activationVars
    PROVE  MarkerKept'
<1>0. UNCHANGED attemptVars => Steady
  BY SteadyAttempt
<1>d. Untouched
  BY Decided
<1> USE DEF At, Loop, Flag, RunsAs, Loads, Same, hostVars, attemptVars, countVars, ActivationTypeOK,
        FileSets, RunSets, Markers, Flags, Kept, Installable, Files, Units, Attempting, Ended,
        Activating, Recovering, Steady, Untouched, MarkerKept, Marked
<1>1. CASE InspectHost
  BY <1>1, <1>0, <1>d DEF InspectHost, Host
<1>2. CASE Decide \/ LoseHost \/ Operate
  BY <1>2, <1>0, <1>d
  DEF Decide, LoseHost, Operate
<1>3. CASE LeaveMaintenance
  BY <1>3, <1>0, <1>d DEF LeaveMaintenance, ProxyHonours
<1>4. CASE Mark \/ InstallProxy \/ DrainWorkers \/ StopApp \/ AppsStopped
  BY <1>4, <1>0, <1>d
  DEF Mark, InstallProxy, DrainWorkers, StopApp, AppsStopped
<1>5. CASE PauseTimer \/ InstallFile \/ FilesInstalled \/ ReloadUnits \/ StartApp
  BY <1>5, <1>0, <1>d
  DEF PauseTimer, InstallFile, FilesInstalled, ReloadUnits, StartApp
<1>6. CASE AppsStarted \/ Publish \/ Schedule \/ Finish \/ TaskFails
  BY <1>6, <1>0, <1>d
  DEF AppsStarted, Publish, Schedule, Finish, TaskFails
<1>7. CASE Remark \/ Unschedule \/ HaltApp \/ AppsHalted \/ RestoreFile
  BY <1>7, <1>0, <1>d
  DEF Remark, Unschedule, HaltApp, AppsHalted, RestoreFile
<1>8. CASE FilesRestored \/ Repoint \/ Redefine \/ ResumeApp \/ AppsResumed
  BY <1>8, <1>0, <1>d
  DEF FilesRestored, Repoint, Redefine, ResumeApp, AppsResumed
<1>9. CASE Reschedule \/ Reproxy \/ Unmark \/ RecoveryFails
  BY <1>9, <1>0, <1>d
  DEF Reschedule, Reproxy, Unmark, RecoveryFails
<1>10. CASE UNCHANGED activationVars
  BY <1>10, <1>0 DEF activationVars
<1>11. QED
  BY <1>1, <1>2, <1>3, <1>4, <1>5, <1>6, <1>7, <1>8, <1>9, <1>10
  DEF ActivationNext, ActivateStep, RecoverStep

\* The marker, and a proxy that knows it, are there before the first stop.
LEMMA HonourStep ==
    ASSUME ActivationTypeOK, ProxyHonours, FilesKept, HostInv, MarkerKept, [ActivationNext]_activationVars
    PROVE  ProxyHonours'
<1>0. UNCHANGED attemptVars => Steady
  BY SteadyAttempt
<1>d. Untouched
  BY Decided
<1> USE DEF At, Loop, Flag, RunsAs, Loads, Same, hostVars, attemptVars, countVars, ActivationTypeOK,
        FileSets, RunSets, Markers, Flags, Kept, Installable, Files, Units, Attempting, Ended,
        Activating, Recovering, Steady, Untouched, ProxyHonours, Marked
<1>1. CASE InspectHost
  BY <1>1, <1>0, <1>d DEF InspectHost, Host
<1>2. CASE Decide
  BY <1>2, <1>0, <1>d
  DEF Decide
<1>3. CASE LoseHost
  BY <1>3, <1>0, <1>d
  DEF LoseHost
<1>4. CASE Operate
  BY <1>4, <1>0, <1>d
  DEF Operate
<1>5. CASE Mark
  BY <1>5, <1>0, <1>d DEF Mark, FirstBootstrap, HostInv, LegacyOrFresh
<1>6. CASE DrainWorkers
  BY <1>6, <1>0, <1>d, LegacyApart DEF DrainWorkers, FilesKept
<1>7. CASE AppsStarted
  BY <1>7, <1>0, <1>d, LegacyApart DEF AppsStarted, FilesKept, Installed
<1>8. CASE LeaveMaintenance
  BY <1>8, <1>0, <1>d, LegacyApart DEF LeaveMaintenance, FilesKept, Installed
<1>9. CASE InstallProxy
  BY <1>9, <1>0, <1>d
  DEF InstallProxy
<1>10. CASE StopApp
  BY <1>10, <1>0, <1>d
  DEF StopApp
<1>11. CASE AppsStopped
  BY <1>11, <1>0, <1>d
  DEF AppsStopped
<1>12. CASE PauseTimer
  BY <1>12, <1>0, <1>d
  DEF PauseTimer
<1>13. CASE InstallFile
  BY <1>13, <1>0, <1>d
  DEF InstallFile
<1>14. CASE FilesInstalled
  BY <1>14, <1>0, <1>d
  DEF FilesInstalled
<1>15. CASE ReloadUnits
  BY <1>15, <1>0, <1>d
  DEF ReloadUnits
<1>16. CASE StartApp
  BY <1>16, <1>0, <1>d
  DEF StartApp
<1>17. CASE Publish
  BY <1>17, <1>0, <1>d
  DEF Publish
<1>18. CASE Schedule
  BY <1>18, <1>0, <1>d
  DEF Schedule
<1>19. CASE Finish
  BY <1>19, <1>0, <1>d
  DEF Finish
<1>20. CASE TaskFails
  BY <1>20, <1>0, <1>d
  DEF TaskFails
<1>21. CASE Remark
  BY <1>21, <1>0, <1>d
  DEF Remark
<1>22. CASE Unschedule
  BY <1>22, <1>0, <1>d
  DEF Unschedule
<1>23. CASE HaltApp
  BY <1>23, <1>0, <1>d
  DEF HaltApp
<1>24. CASE AppsHalted
  BY <1>24, <1>0, <1>d
  DEF AppsHalted
<1>25. CASE RestoreFile
  BY <1>25, <1>0, <1>d
  DEF RestoreFile
<1>26. CASE FilesRestored
  BY <1>26, <1>0, <1>d
  DEF FilesRestored
<1>27. CASE Repoint
  BY <1>27, <1>0, <1>d
  DEF Repoint
<1>28. CASE Redefine
  BY <1>28, <1>0, <1>d
  DEF Redefine
<1>29. CASE ResumeApp
  BY <1>29, <1>0, <1>d
  DEF ResumeApp
<1>30. CASE AppsResumed
  BY <1>30, <1>0, <1>d
  DEF AppsResumed
<1>31. CASE Reschedule
  BY <1>31, <1>0, <1>d
  DEF Reschedule
<1>32. CASE Reproxy
  BY <1>32, <1>0, <1>d
  DEF Reproxy
<1>33. CASE Unmark
  BY <1>33, <1>0, <1>d
  DEF Unmark
<1>34. CASE RecoveryFails
  BY <1>34, <1>0, <1>d
  DEF RecoveryFails
<1>35. CASE UNCHANGED activationVars
  BY <1>35, <1>0 DEF activationVars
<1>36. QED
  BY <1>1, <1>2, <1>3, <1>4, <1>5, <1>6, <1>7, <1>8, <1>9, <1>10, <1>11, <1>12, <1>13, <1>14, <1>15,
     <1>16, <1>17, <1>18, <1>19, <1>20, <1>21, <1>22, <1>23, <1>24, <1>25, <1>26, <1>27, <1>28,
     <1>29, <1>30, <1>31, <1>32, <1>33, <1>34, <1>35
  DEF ActivationNext, ActivateStep, RecoverStep

\* Where systemd had loaded what was installed, services start in the version of this attempt.
LEMMA RunsFitStep ==
    ASSUME ActivationTypeOK, RunsFit, AppsKept, TimerKept, LoadsKept, HostInv, [ActivationNext]_activationVars
    PROVE  RunsFit'
<1>0. UNCHANGED attemptVars => Steady
  BY SteadyAttempt
<1>d. Untouched
  BY Decided
<1> USE DEF At, Loop, Flag, RunsAs, Loads, Same, hostVars, attemptVars, countVars, ActivationTypeOK,
        FileSets, RunSets, Markers, Flags, Kept, Installable, Files, Units, Attempting, Ended,
        Activating, Recovering, Steady, Untouched, RunsFit, AppsKept, TimerKept, LoadsKept
<1>1. CASE InspectHost
  BY <1>1, <1>0, <1>d DEF InspectHost, Host
<1>2. CASE Decide
  BY <1>2, <1>0, <1>d
  DEF Decide
<1>3. CASE LoseHost
  BY <1>3, <1>0, <1>d
  DEF LoseHost
<1>4. CASE Operate
  BY <1>4, <1>0, <1>d
  DEF Operate
<1>5. CASE ReloadUnits
  BY <1>5, <1>0, <1>d DEF ReloadUnits, AsInstalled
<1>6. CASE StartApp
  BY <1>6, <1>0, <1>d DEF StartApp, AsInstalled
<1>7. CASE Schedule
  BY <1>7, <1>0, <1>d DEF Schedule, AsInstalled, TimerStarts
<1>8. CASE Mark
  BY <1>8, <1>0, <1>d
  DEF Mark
<1>9. CASE InstallProxy
  BY <1>9, <1>0, <1>d
  DEF InstallProxy
<1>10. CASE DrainWorkers
  BY <1>10, <1>0, <1>d
  DEF DrainWorkers
<1>11. CASE StopApp
  BY <1>11, <1>0, <1>d
  DEF StopApp
<1>12. CASE AppsStopped
  BY <1>12, <1>0, <1>d
  DEF AppsStopped
<1>13. CASE PauseTimer
  BY <1>13, <1>0, <1>d
  DEF PauseTimer
<1>14. CASE InstallFile
  BY <1>14, <1>0, <1>d
  DEF InstallFile
<1>15. CASE FilesInstalled
  BY <1>15, <1>0, <1>d
  DEF FilesInstalled
<1>16. CASE AppsStarted
  BY <1>16, <1>0, <1>d
  DEF AppsStarted
<1>17. CASE LeaveMaintenance
  BY <1>17, <1>0, <1>d
  DEF LeaveMaintenance
<1>18. CASE Publish
  BY <1>18, <1>0, <1>d
  DEF Publish
<1>19. CASE Finish
  BY <1>19, <1>0, <1>d
  DEF Finish
<1>20. CASE TaskFails
  BY <1>20, <1>0, <1>d
  DEF TaskFails
<1>21. CASE ResumeApp
  BY <1>21, <1>0, <1>d DEF ResumeApp, HostInv, RunsInstalled, AsInstalled, ToResume
<1>22. CASE AppsResumed
  BY <1>22, <1>0, <1>d DEF AppsResumed, HostInv, RunsInstalled, AsInstalled, ToResume
<1>23. CASE Reschedule
  BY <1>23, <1>0, <1>d DEF Reschedule, HostInv, RunsInstalled, AsInstalled
<1>24. CASE Remark
  BY <1>24, <1>0, <1>d
  DEF Remark
<1>25. CASE Unschedule
  BY <1>25, <1>0, <1>d
  DEF Unschedule
<1>26. CASE HaltApp
  BY <1>26, <1>0, <1>d
  DEF HaltApp
<1>27. CASE AppsHalted
  BY <1>27, <1>0, <1>d
  DEF AppsHalted
<1>28. CASE RestoreFile
  BY <1>28, <1>0, <1>d
  DEF RestoreFile
<1>29. CASE FilesRestored
  BY <1>29, <1>0, <1>d
  DEF FilesRestored
<1>30. CASE Repoint
  BY <1>30, <1>0, <1>d
  DEF Repoint
<1>31. CASE Redefine
  BY <1>31, <1>0, <1>d
  DEF Redefine
<1>32. CASE Reproxy
  BY <1>32, <1>0, <1>d
  DEF Reproxy
<1>33. CASE Unmark
  BY <1>33, <1>0, <1>d
  DEF Unmark
<1>34. CASE RecoveryFails
  BY <1>34, <1>0, <1>d
  DEF RecoveryFails
<1>35. CASE UNCHANGED activationVars
  BY <1>35, <1>0 DEF activationVars
<1>36. QED
  BY <1>1, <1>2, <1>3, <1>4, <1>5, <1>6, <1>7, <1>8, <1>9, <1>10, <1>11, <1>12, <1>13, <1>14, <1>15,
     <1>16, <1>17, <1>18, <1>19, <1>20, <1>21, <1>22, <1>23, <1>24, <1>25, <1>26, <1>27, <1>28,
     <1>29, <1>30, <1>31, <1>32, <1>33, <1>34, <1>35
  DEF ActivationNext, ActivateStep, RecoverStep

\* A unit is started in a version, never from a file that is absent.
LEMMA TypeStep ==
    ASSUME ActivationTypeOK, HostInv, LoadsKept, [ActivationNext]_activationVars
    PROVE  ActivationTypeOK'
<1>0. UNCHANGED attemptVars => Steady
  BY SteadyAttempt
<1>d. Untouched
  BY Decided
<1> USE DEF At, Loop, Flag, RunsAs, Loads, Same, hostVars, attemptVars, countVars, ActivationTypeOK,
        FileSets, RunSets, Markers, Flags, Kept, Installable, Files, Units, Attempting, Ended,
        Activating, Recovering, Steady, Untouched, Marked
<1>1. CASE InspectHost
  BY <1>1, <1>0, <1>d DEF InspectHost, Host, Hosts
<1>2. CASE Operate
  <2>1. UNCHANGED <<file, loaded, run, current, page, attemptVars, at, flags, attempts, breaks>>
        /\ hands' = hands + 1 /\ marker' \in Markers /\ removed' \in BOOLEAN
    BY <1>2 DEF Operate
  <2>2. QED
    BY <2>1
<1>3. CASE Decide
  BY <1>3, <1>0, <1>d
  DEF Decide
<1>4. CASE LoseHost
  BY <1>4, <1>0, <1>d
  DEF LoseHost
<1>5. CASE InstallFile
  BY <1>5, <1>0, <1>d DEF InstallFile, ChangedFiles
<1>6. CASE Schedule
  BY <1>6, <1>0, <1>d, LegacyApart DEF Schedule, TimerStarts
<1>7. CASE Mark
  BY <1>7, <1>0, <1>d
  DEF Mark
<1>8. CASE InstallProxy
  BY <1>8, <1>0, <1>d
  DEF InstallProxy
<1>9. CASE DrainWorkers
  BY <1>9, <1>0, <1>d
  DEF DrainWorkers
<1>10. CASE StopApp
  BY <1>10, <1>0, <1>d
  DEF StopApp
<1>11. CASE AppsStopped
  BY <1>11, <1>0, <1>d
  DEF AppsStopped
<1>12. CASE PauseTimer
  BY <1>12, <1>0, <1>d
  DEF PauseTimer
<1>13. CASE FilesInstalled
  BY <1>13, <1>0, <1>d
  DEF FilesInstalled
<1>14. CASE ReloadUnits
  BY <1>14, <1>0, <1>d
  DEF ReloadUnits
<1>15. CASE StartApp
  BY <1>15, <1>0, <1>d
  DEF StartApp
<1>16. CASE AppsStarted
  BY <1>16, <1>0, <1>d
  DEF AppsStarted
<1>17. CASE LeaveMaintenance
  BY <1>17, <1>0, <1>d
  DEF LeaveMaintenance
<1>18. CASE Publish
  BY <1>18, <1>0, <1>d
  DEF Publish
<1>19. CASE Finish
  BY <1>19, <1>0, <1>d
  DEF Finish
<1>20. CASE TaskFails
  BY <1>20, <1>0, <1>d
  DEF TaskFails
<1>21. CASE RestoreFile
  BY <1>21, <1>0, <1>d DEF RestoreFile, ChangedFiles, Hosts
<1>22. CASE Repoint
  BY <1>22, <1>0, <1>d DEF Repoint, Hosts
<1>23. CASE ResumeApp
  BY <1>23, <1>0, <1>d DEF ResumeApp, HostInv, RunsInstalled, LoadsKept, ToResume
<1>24. CASE Reschedule
  BY <1>24, <1>0, <1>d DEF Reschedule, HostInv, RunsInstalled, LoadsKept
<1>25. CASE Remark
  BY <1>25, <1>0, <1>d
  DEF Remark
<1>26. CASE Unschedule
  BY <1>26, <1>0, <1>d
  DEF Unschedule
<1>27. CASE HaltApp
  BY <1>27, <1>0, <1>d
  DEF HaltApp
<1>28. CASE AppsHalted
  BY <1>28, <1>0, <1>d
  DEF AppsHalted
<1>29. CASE FilesRestored
  BY <1>29, <1>0, <1>d
  DEF FilesRestored
<1>30. CASE Redefine
  BY <1>30, <1>0, <1>d
  DEF Redefine
<1>31. CASE AppsResumed
  BY <1>31, <1>0, <1>d
  DEF AppsResumed
<1>32. CASE Reproxy
  BY <1>32, <1>0, <1>d
  DEF Reproxy
<1>33. CASE Unmark
  BY <1>33, <1>0, <1>d
  DEF Unmark
<1>34. CASE RecoveryFails
  BY <1>34, <1>0, <1>d
  DEF RecoveryFails
<1>35. CASE UNCHANGED activationVars
  BY <1>35, <1>0 DEF activationVars
<1>36. QED
  BY <1>1, <1>2, <1>3, <1>4, <1>5, <1>6, <1>7, <1>8, <1>9, <1>10, <1>11, <1>12, <1>13, <1>14, <1>15,
     <1>16, <1>17, <1>18, <1>19, <1>20, <1>21, <1>22, <1>23, <1>24, <1>25, <1>26, <1>27, <1>28,
     <1>29, <1>30, <1>31, <1>32, <1>33, <1>34, <1>35
  DEF ActivationNext, ActivateStep, RecoverStep

\* What runs is installed, and services that run are installed in one version.
LEMMA RunsInstalledStep ==
    ASSUME ActivationTypeOK, HostInv, FilesInv, AppsKept, TimerKept, LoadsKept, [ActivationNext]_activationVars
    PROVE  RunsInstalled(file, loaded, run)'
<1>0. UNCHANGED attemptVars => Steady
  BY SteadyAttempt
<1>d. Untouched
  BY Decided
<1> USE DEF At, Loop, Flag, RunsAs, Loads, Same, hostVars, attemptVars, countVars, ActivationTypeOK,
        FileSets, RunSets, Markers, Flags, Kept, Installable, Files, Units, Attempting, Ended,
        Activating, Recovering, Steady, Untouched, HostInv, RunsInstalled
<1>1. CASE InspectHost \/ Decide \/ LoseHost \/ Operate
  BY <1>1, <1>0, <1>d
  DEF InspectHost, Decide, LoseHost, Operate
<1>2. CASE InstallFile
  BY <1>2, <1>0, <1>d, LegacyApart
  DEF InstallFile, FilesInv, FilesKept, UnitFilesKept, Installed, Restored, AppsKept, TimerKept
<1>3. CASE ReloadUnits
  BY <1>3, <1>0, <1>d DEF ReloadUnits
<1>4. CASE StartApp
  BY <1>4, <1>0, <1>d, LegacyApart DEF StartApp, FilesInv, FilesKept, UnitFilesKept, Installed, Restored
<1>5. CASE Schedule
  BY <1>5, <1>0, <1>d, LegacyApart
  DEF Schedule, FilesInv, FilesKept, UnitFilesKept, Installed, Restored, TimerStarts
<1>6. CASE Mark \/ InstallProxy \/ DrainWorkers \/ StopApp \/ AppsStopped \/ PauseTimer \/ FilesInstalled
          \/ AppsStarted
  BY <1>6, <1>0, <1>d
  DEF Mark, InstallProxy, DrainWorkers, StopApp, AppsStopped, PauseTimer, FilesInstalled, AppsStarted
<1>7. CASE LeaveMaintenance \/ Publish \/ Finish \/ TaskFails
  BY <1>7, <1>0, <1>d
  DEF LeaveMaintenance, Publish, Finish, TaskFails
<1>8. CASE RestoreFile
  BY <1>8, <1>0, <1>d
  DEF RestoreFile, FilesInv, FilesKept, UnitFilesKept, Installed, Restored, AppsKept, TimerKept
<1>9. CASE ResumeApp
  BY <1>9, <1>0, <1>d, LegacyApart
  DEF ResumeApp, FilesInv, FilesKept, UnitFilesKept, Installed, Restored, AppsKept, LoadsKept,
      ToResume
<1>10. CASE Reschedule
  BY <1>10, <1>0, <1>d, LegacyApart
  DEF Reschedule, FilesInv, FilesKept, UnitFilesKept, Installed, Restored, LoadsKept
<1>11. CASE Remark \/ Unschedule \/ HaltApp \/ AppsHalted \/ FilesRestored \/ Repoint \/ Redefine \/
          AppsResumed
  BY <1>11, <1>0, <1>d
  DEF Remark, Unschedule, HaltApp, AppsHalted, FilesRestored, Repoint, Redefine, AppsResumed
<1>12. CASE Reproxy \/ Unmark \/ RecoveryFails
  BY <1>12, <1>0, <1>d
  DEF Reproxy, Unmark, RecoveryFails
<1>13. CASE UNCHANGED activationVars
  BY <1>13, <1>0 DEF activationVars
<1>14. QED
  BY <1>1, <1>2, <1>3, <1>4, <1>5, <1>6, <1>7, <1>8, <1>9, <1>10, <1>11, <1>12, <1>13
  DEF ActivationNext, ActivateStep, RecoverStep

\* So it was in the snapshot.
LEMMA BeforeStep ==
    ASSUME ActivationTypeOK, HostInv, [ActivationNext]_activationVars
    PROVE  RunsInstalled(before.file, before.loaded, before.run)'
<1>0. UNCHANGED attemptVars => Steady
  BY SteadyAttempt
<1>d. Untouched
  BY Decided
<1> USE DEF At, Loop, Flag, RunsAs, Loads, Same, hostVars, attemptVars, countVars, ActivationTypeOK,
        FileSets, RunSets, Markers, Flags, Kept, Installable, Files, Units, Attempting, Ended,
        Activating, Recovering, Steady, Untouched, HostInv, RunsInstalled
<1>1. CASE InspectHost
  BY <1>1, <1>0, <1>d DEF InspectHost, Host
<1>2. CASE Decide \/ LoseHost \/ Operate
  BY <1>2, <1>0, <1>d
  DEF Decide, LoseHost, Operate
<1>3. CASE Mark \/ InstallProxy \/ DrainWorkers \/ StopApp \/ AppsStopped \/ PauseTimer \/ InstallFile \/
          FilesInstalled
  BY <1>3, <1>0, <1>d
  DEF Mark, InstallProxy, DrainWorkers, StopApp, AppsStopped, PauseTimer, InstallFile, FilesInstalled
<1>4. CASE ReloadUnits \/ StartApp \/ AppsStarted \/ LeaveMaintenance \/ Publish \/ Schedule \/ Finish \/
          TaskFails
  BY <1>4, <1>0, <1>d
  DEF ReloadUnits, StartApp, AppsStarted, LeaveMaintenance, Publish, Schedule, Finish, TaskFails
<1>5. CASE Remark \/ Unschedule \/ HaltApp \/ AppsHalted \/ RestoreFile \/ FilesRestored \/ Repoint \/
          Redefine
  BY <1>5, <1>0, <1>d
  DEF Remark, Unschedule, HaltApp, AppsHalted, RestoreFile, FilesRestored, Repoint, Redefine
<1>6. CASE ResumeApp \/ AppsResumed \/ Reschedule \/ Reproxy \/ Unmark \/ RecoveryFails
  BY <1>6, <1>0, <1>d
  DEF ResumeApp, AppsResumed, Reschedule, Reproxy, Unmark, RecoveryFails
<1>7. CASE UNCHANGED activationVars
  BY <1>7, <1>0 DEF activationVars
<1>8. QED
  BY <1>1, <1>2, <1>3, <1>4, <1>5, <1>6, <1>7
  DEF ActivationNext, ActivateStep, RecoverStep

\* Where there was a site before the role, nothing is ever absent.
LEMMA LegacyStep ==
    ASSUME ActivationTypeOK, HostInv, [ActivationNext]_activationVars
    PROVE  LegacyOrFresh'
<1>0. UNCHANGED attemptVars => Steady
  BY SteadyAttempt
<1>d. Untouched
  BY Decided
<1> USE DEF At, Loop, Flag, RunsAs, Loads, Same, hostVars, attemptVars, countVars, ActivationTypeOK,
        FileSets, RunSets, Markers, Flags, Kept, Installable, Files, Units, Attempting, Ended,
        Activating, Recovering, Steady, Untouched, HostInv, LegacyOrFresh
<1>1. CASE InspectHost
  BY <1>1, <1>0, <1>d DEF InspectHost, Host
<1>2. CASE Decide \/ LoseHost \/ Operate
  BY <1>2, <1>0, <1>d
  DEF Decide, LoseHost, Operate
<1>3. CASE InstallProxy
  BY <1>3, <1>0, <1>d, LegacyApart DEF InstallProxy
<1>4. CASE InstallFile
  BY <1>4, <1>0, <1>d, LegacyApart DEF InstallFile
<1>5. CASE Mark \/ DrainWorkers \/ StopApp \/ AppsStopped \/ PauseTimer \/ FilesInstalled \/ ReloadUnits \/
          StartApp
  BY <1>5, <1>0, <1>d
  DEF Mark, DrainWorkers, StopApp, AppsStopped, PauseTimer, FilesInstalled, ReloadUnits, StartApp
<1>6. CASE AppsStarted \/ LeaveMaintenance \/ Publish \/ Schedule \/ Finish \/ TaskFails
  BY <1>6, <1>0, <1>d
  DEF AppsStarted, LeaveMaintenance, Publish, Schedule, Finish, TaskFails
<1>7. CASE Remark \/ Unschedule \/ HaltApp \/ AppsHalted \/ RestoreFile \/ FilesRestored \/ Repoint \/
          Redefine
  BY <1>7, <1>0, <1>d
  DEF Remark, Unschedule, HaltApp, AppsHalted, RestoreFile, FilesRestored, Repoint, Redefine
<1>8. CASE ResumeApp \/ AppsResumed \/ Reschedule \/ Reproxy \/ Unmark \/ RecoveryFails
  BY <1>8, <1>0, <1>d
  DEF ResumeApp, AppsResumed, Reschedule, Reproxy, Unmark, RecoveryFails
<1>9. CASE UNCHANGED activationVars
  BY <1>9, <1>0 DEF activationVars
<1>10. QED
  BY <1>1, <1>2, <1>3, <1>4, <1>5, <1>6, <1>7, <1>8, <1>9
  DEF ActivationNext, ActivateStep, RecoverStep

\* Open only with all services: each action, given the invariant.
LEMMA CoversStep ==
    ASSUME ActivationTypeOK, HostInv, FilesInv, AppsKept, MarkerKept, ProxyHonours, ProxyKept, RunsFit', MaintenanceCovers, [ActivationNext]_activationVars
    PROVE  MaintenanceCovers'
<1>0. UNCHANGED attemptVars => Steady
  BY SteadyAttempt
<1>d. Untouched
  BY Decided
<1> USE DEF At, Loop, Flag, RunsAs, Loads, Same, hostVars, attemptVars, countVars, ActivationTypeOK,
        FileSets, RunSets, Markers, Flags, Kept, Installable, Files, Units, Attempting, Ended,
        Activating, Recovering, Steady, Untouched, MaintenanceCovers, SiteOpen
<1>1. CASE InspectHost
  BY <1>1, <1>0, <1>d DEF InspectHost, Host, HostInv, RunsInstalled, AsInstalled
<1>2. CASE Decide \/ LoseHost \/ Operate
  BY <1>2, <1>0, <1>d
  DEF Decide, LoseHost, Operate
<1>3. CASE Mark
  BY <1>3, <1>0, <1>d DEF Mark, Marked
<1>4. CASE DrainWorkers
  BY <1>4, <1>0, <1>d, LegacyApart
  DEF DrainWorkers, ProxyHonours, FilesInv, FilesKept, UnitFilesKept, Installed, Restored
<1>5. CASE StopApp
  BY <1>5, <1>0, <1>d DEF StopApp, ProxyHonours
<1>6. CASE StartApp
  BY <1>6, <1>0, <1>d DEF StartApp, ProxyHonours, AppsKept, RunsFit
<1>7. CASE AppsStarted
  BY <1>7, <1>0, <1>d, LegacyApart
  DEF AppsStarted, ProxyHonours, AppsKept, FilesInv, FilesKept, UnitFilesKept, Installed, Restored
<1>8. CASE LeaveMaintenance
  BY <1>8, <1>0, <1>d DEF LeaveMaintenance, AppsKept
<1>9. CASE Schedule
  BY <1>9, <1>0, <1>d DEF Schedule, TimerStarts
<1>10. CASE InstallProxy \/ AppsStopped \/ PauseTimer \/ InstallFile \/ FilesInstalled
  BY <1>10, <1>0, <1>d
  DEF InstallProxy, AppsStopped, PauseTimer, InstallFile, FilesInstalled
<1>11. CASE ReloadUnits \/ Publish \/ Finish \/ TaskFails
  BY <1>11, <1>0, <1>d
  DEF ReloadUnits, Publish, Finish, TaskFails
<1>12. CASE Remark
  BY <1>12, <1>0, <1>d DEF Remark, Marked
<1>13. CASE HaltApp
  BY <1>13, <1>0, <1>d DEF HaltApp, ProxyHonours, ToHalt
<1>14. CASE ResumeApp
  BY <1>14, <1>0, <1>d
  DEF ResumeApp, ProxyHonours, AppsKept, RunsFit, ToResume, HostInv, RunsInstalled, AsInstalled
<1>15. CASE Reproxy
  BY <1>15, <1>0, <1>d DEF Reproxy, AppsKept
<1>16. CASE Unmark
  BY <1>16, <1>0, <1>d DEF Unmark, AppsKept
<1>17. CASE RecoveryFails
  BY <1>17, <1>0, <1>d DEF RecoveryFails, Marked
<1>18. CASE Unschedule \/ AppsHalted \/ RestoreFile \/ FilesRestored \/ Repoint
  BY <1>18, <1>0, <1>d
  DEF Unschedule, AppsHalted, RestoreFile, FilesRestored, Repoint
<1>19. CASE Redefine \/ AppsResumed \/ Reschedule
  BY <1>19, <1>0, <1>d
  DEF Redefine, AppsResumed, Reschedule
<1>20. CASE UNCHANGED activationVars
  BY <1>20, <1>0 DEF activationVars
<1>21. QED
  BY <1>1, <1>2, <1>3, <1>4, <1>5, <1>6, <1>7, <1>8, <1>9, <1>10, <1>11, <1>12, <1>13, <1>14, <1>15,
     <1>16, <1>17, <1>18, <1>19, <1>20
  DEF ActivationNext, ActivateStep, RecoverStep

\* The three ways to end: nothing to do, done, recovered.
LEMMA EndsStep ==
    ASSUME ActivationTypeOK, HostInv, FilesInv, AppsKept, TimerKept, LoadsKept, ProxyKept, PointerKept, MarkerKept, RunsFit, EndsWhole, [ActivationNext]_activationVars
    PROVE  EndsWhole'
<1>0. UNCHANGED attemptVars => Steady
  BY SteadyAttempt
<1>d. Untouched
  BY Decided
<1> USE DEF At, Loop, Flag, RunsAs, Loads, Same, hostVars, attemptVars, countVars, ActivationTypeOK,
        FileSets, RunSets, Markers, Flags, Kept, Installable, Files, Units, Attempting, Ended,
        Activating, Recovering, Steady, Untouched, EndsWhole, RecoveredAsBefore, DoneIsWhole
<1>1. CASE InspectHost
  BY <1>1, <1>0, <1>d DEF InspectHost
<1>2. CASE Decide
  <2> SUFFICES ASSUME at' = "done", AsInstalled PROVE DoneIsWhole'
    BY <1>2, <1>0 DEF Decide
  <2>1. at = "deciding" /\ ~ ActivationRequired /\ UNCHANGED hostVars
    BY <1>2 DEF Decide
  <2>2. ChangedFiles = {} /\ Restart = {} /\ before.run[TIMER] # "down" /\ before.current = target
    BY <2>1 DEF ActivationRequired
  <2>3. \A f \in Files : before.file[f] = target /\ before.loaded[f] = target
    BY <2>2, <1>d DEF AsInstalled
  <2>4. \A u \in Units : before.run[u] = target
    BY <2>2, <2>3, <1>d DEF AsInstalled
  <2>5. current = target /\ (\A f \in Files : file[f] = target) /\ (\A u \in Units : run[u] = target)
    BY <2>1, <2>2, <2>3, <2>4 DEF FilesInv, FilesKept, AppsKept, Early, TimerKept, PointerKept
  <2>6. \A f \in Files : loaded[f] = target
    BY <2>1, <2>2, <2>3, <1>d DEF LoadsKept, ProxyKept
  <2>7. QED
    BY <1>2, <2>1, <2>5, <2>6 DEF Decide
<1>3. CASE LoseHost \/ Operate
  BY <1>3, <1>0, <1>d
  DEF LoseHost, Operate
<1>4. CASE Finish
  BY <1>4, <1>0, <1>d
  DEF Finish, AsInstalled, FilesInv, FilesKept, Installed, AppsKept, TimerKept, LoadsKept,
      ProxyKept, PointerKept, RunsFit
<1>5. CASE Mark \/ InstallProxy \/ DrainWorkers \/ StopApp \/ AppsStopped \/ PauseTimer \/ InstallFile \/
          FilesInstalled
  BY <1>5, <1>0, <1>d
  DEF Mark, InstallProxy, DrainWorkers, StopApp, AppsStopped, PauseTimer, InstallFile, FilesInstalled
<1>6. CASE ReloadUnits \/ StartApp \/ AppsStarted \/ LeaveMaintenance \/ Publish \/ Schedule \/ TaskFails
  BY <1>6, <1>0, <1>d
  DEF ReloadUnits, StartApp, AppsStarted, LeaveMaintenance, Publish, Schedule, TaskFails
<1>7. CASE Unmark
  BY <1>7, <1>0, <1>d
  DEF Unmark, AsInstalled, Hosts, FilesInv, FilesKept, Restored, AppsKept, TimerKept, LoadsKept,
      ProxyKept, PointerKept, RunsFit, MarkerKept
<1>8. CASE Remark \/ Unschedule \/ HaltApp \/ AppsHalted \/ RestoreFile \/ FilesRestored \/ Repoint \/
          Redefine
  BY <1>8, <1>0, <1>d
  DEF Remark, Unschedule, HaltApp, AppsHalted, RestoreFile, FilesRestored, Repoint, Redefine
<1>9. CASE ResumeApp \/ AppsResumed \/ Reschedule \/ Reproxy \/ RecoveryFails
  BY <1>9, <1>0, <1>d
  DEF ResumeApp, AppsResumed, Reschedule, Reproxy, RecoveryFails
<1>10. CASE UNCHANGED activationVars
  BY <1>10, <1>0 DEF activationVars
<1>11. QED
  BY <1>1, <1>2, <1>3, <1>4, <1>5, <1>6, <1>7, <1>8, <1>9, <1>10
  DEF ActivationNext, ActivateStep, RecoverStep

\* Every host the role may meet.
LEMMA ActivationInvInit == ActivationInit => ActivationInv
<1> SUFFICES ASSUME ActivationInit PROVE ActivationInv
  OBVIOUS
<1> USE DEF ActivationInit, Host
<1>1. PICK v \in Installable \cup {"absent"} :
        /\ file = [f \in Files |-> v] /\ loaded = [f \in Files |-> v]
        /\ run \in [Units -> {"down", IF v = "absent" THEN "down" ELSE v}]
        /\ current = IF v \in Releases THEN v ELSE "absent"
  OBVIOUS
<1>2. ActivationTypeOK
  BY <1>1
  DEF ActivationTypeOK, FileSets, RunSets, Markers, Flags, Kept, Hosts, Installable, Ended, Files,
      Units
<1>3. \A u \in Units : run[u] # "down" => run[u] = v /\ v # "absent"
  BY <1>1
<1>4. HostInv
  BY <1>1, <1>3, LegacyApart DEF HostInv, RunsInstalled, LegacyOrFresh, Files, Units
<1>5. at \notin Attempting
  BY DEF Attempting, Activating, Recovering
<1>6. FilesInv /\ AppsKept /\ TimerKept /\ LoadsKept /\ ProxyKept /\ PointerKept /\ ProxyHonours /\ RunsFit
  BY <1>5 DEF FilesInv, FilesKept, UnitFilesKept, AppsKept, TimerKept, LoadsKept, ProxyKept, PointerKept,
     ProxyHonours, RunsFit
<1>7. MarkerKept
  BY <1>5 DEF MarkerKept
<1>8. MaintenanceCovers /\ EndsWhole
  BY <1>3 DEF MaintenanceCovers, EndsWhole, RecoveredAsBefore, DoneIsWhole, Units
<1>9. QED
  BY <1>2, <1>4, <1>6, <1>7, <1>8 DEF ActivationInv

\* The whole invariant is kept.
LEMMA ActivationInvStep == ActivationInv /\ [ActivationNext]_activationVars => ActivationInv'
<1> SUFFICES ASSUME ActivationInv, [ActivationNext]_activationVars PROVE ActivationInv'
  OBVIOUS
<1>1. /\ ActivationTypeOK /\ HostInv /\ FilesInv /\ FilesKept /\ UnitFilesKept
      /\ AppsKept /\ TimerKept /\ LoadsKept /\ ProxyKept /\ PointerKept /\ MarkerKept /\ ProxyHonours
      /\ RunsFit /\ MaintenanceCovers /\ EndsWhole
  BY DEF ActivationInv, FilesInv
<1>2. ActivationTypeOK' /\ HostInv'
  BY <1>1, TypeStep, RunsInstalledStep, BeforeStep, LegacyStep DEF HostInv
<1>3. FilesInv'
  BY <1>1, FilesStep, UnitFilesStep DEF FilesInv
<1>4. AppsKept' /\ TimerKept' /\ LoadsKept' /\ ProxyKept' /\ PointerKept' /\ MarkerKept' /\ ProxyHonours'
  BY <1>1, AppsStep, TimerStep, LoadsStep, ProxyStep, PointerStep, MarkerStep, HonourStep
<1>5. RunsFit'
  BY <1>1, RunsFitStep
<1>6. MaintenanceCovers' /\ EndsWhole'
  BY <1>1, <1>5, CoversStep, EndsStep
<1>7. QED
  BY <1>2, <1>3, <1>4, <1>5, <1>6 DEF ActivationInv

LEMMA ActivationInvariant == ActivationSpec => []ActivationInv
  BY ActivationInvInit, ActivationInvStep, PTL DEF ActivationSpec

\* The host, the snapshot of it and the attempt under way keep their types: nothing
\* is ever started from a unit that is absent (StartApp, ResumeApp, Reschedule).
THEOREM ActivationTypeCorrect == ActivationSpec => []ActivationTypeOK
<1>1. ActivationInv => ActivationTypeOK
  BY DEF ActivationInv
<1>2. QED
  BY <1>1, ActivationInvariant, PTL

\* However many deployments fail, lose their host or break in recovery before: an
\* attempt that succeeds leaves the release installed, loaded, running and pointed
\* to, and one that recovers leaves the host as it found it (activate.yml,
\* system_recovery.yml).
THEOREM AttemptsEndWhole == ActivationSpec => []EndsWhole
<1>1. ActivationInv => EndsWhole
  BY DEF ActivationInv
<1>2. QED
  BY <1>1, ActivationInvariant, PTL

\* With a maintenance page nobody is served by half a site, in activation, recovery
\* or after an attempt that ended anywhere (maintenance_enable.yml, DrainWorkers,
\* Remark), and services do not run in two versions.
THEOREM SiteStaysCovered == ActivationSpec => []MaintenanceCovers
<1>1. ActivationInv => MaintenanceCovers
  BY DEF ActivationInv
<1>2. QED
  BY <1>1, ActivationInvariant, PTL

----------------------------------------------------------------------------
(* The boundary of the SQL console.                                        *)

\* The advisory lock is held from here on.
Provisioning == InTransaction \ {"waiting"}

\* What a plan is made of.
Statements ==
    {s \in [op : {"grant", "revoke", "allow", "create", "replace"}, on : Tuples,
            to : SUBSET (Grantees \cup {CONNECT})] :
        CASE s.op = "grant" -> s.on \in ACLs /\ (s.to \subseteq Approved \/ (s.on = "database" /\ s.to = {CONNECT}))
          [] s.op = "revoke" -> s.on \in ACLs
          [] s.op = "allow" -> s.on = "reads"
          [] s.op = "create" -> s.on \in {"reader", "views"}
          [] s.op = "replace" -> s.on = "views"}

\* One run at a time holds the lock.
OneProvisions ==
    \A r, s \in Runs : stage[r] \in Provisioning /\ stage[s] \in Provisioning => r = s

\* Until it commits, what a run saw nobody else change is as in its snapshot. It has
\* written nothing before it applies its plan, nor in its verification.
SnapshotsFollowed ==
    \A r \in Runs :
        /\ \A t \in Tuples \ foreign[r] : InTxn(r) \/ t \notin mine[r] => catalog[t] = snapshot[r][t]
        /\ stage[r] \in {"idle", "waiting", "inspecting", "planning", "verifying", "done"} => mine[r] = {}

\* A reader is created once, by a run that found none, and its password never changes.
CreatesReader(r) == \E i \in 1 .. Len(todo[r]) : todo[r][i].op = "create" /\ todo[r][i].on = "reader"
ReaderKept ==
    \A r \in Runs :
        /\ snapshot[r]["reader"] # NoReader => catalog["reader"] = snapshot[r]["reader"]
        /\ stage[r] \in Provisioning /\ "reader" \in mine[r] => catalog["reader"] = NoReader
        /\ stage[r] = "applying" /\ created[r] => "reader" \in mine[r] \/ CreatesReader(r)
        /\ stage[r] = "committing" => Newest(r)["reader"] = Password[r]
        /\ stage[r] \in {"committed", "verifying", "done"} => catalog["reader"] = Password[r]

\* What may be planned on a catalog as it was seen: a right is moved where PUBLIC had
\* it; elsewhere the reader's CONNECT is all that is added.
Moved(view, a) == PUBLIC \in view[a] \/ (a = "database" /\ Approved \subseteq view[a])
Plannable(view) == {s \in Statements : \A a \in ACLs : s.on = a => Moved(view, a)}
RightsPlanned ==
    \A r \in Runs :
        /\ stage[r] = "applying" => todo[r] \in Seq(Plannable(snapshot[r]))
        /\ stage[r] \in {"applying", "checking", "committing"} =>
              \A a \in ACLs \cap mine[r] : Moved(snapshot[r], a)

\* What the inspection before the commit found of the rights it moved.
RightsMoved ==
    \A r \in Runs : stage[r] = "committing" =>
        \A a \in ACLs \cap mine[r] :
            /\ a = "function" => a \notin foreign[r]
            /\ a \notin foreign[r] => Approved \subseteq own[r][a]

\* And what the verification found.
VerifiedClosed ==
    \A r \in Runs : stage[r] = "done" => \A t \in Tuples : Closed(t, snapshot[r][t])

ProvisionTypeOK == ConsoleTypeOK /\ todo \in [Runs -> Seq(Statements)]
BoundaryInv ==
    /\ ProvisionTypeOK
    /\ OneProvisions /\ SnapshotsFollowed /\ ReaderKept /\ RightsPlanned /\ RightsMoved
    /\ VerifiedClosed

\* What a run reads, by query or by function, is a catalog.
LEMMA NewestType == ASSUME ConsoleTypeOK, NEW r \in Runs PROVE Newest(r) \in Catalogs
  BY DEF ConsoleTypeOK, Newest, Catalogs, Tuples, ACLs

LEMMA SeenType == ASSUME ConsoleTypeOK, NEW r \in Runs, NEW older PROVE Seen(r, older) \in Catalogs
  BY DEF ConsoleTypeOK, Seen, Catalogs, Tuples, ACLs

\* The value each tuple has in a catalog, and the catalog with one tuple changed.
LEMMA CatalogTuples == ASSUME NEW c \in Catalogs
    PROVE /\ DOMAIN c = Tuples
          /\ c["database"] \in SUBSET (Grantees \cup {CONNECT}) /\ c["function"] \in SUBSET Grantees
          /\ c["reader"] \in ReaderPasswords \cup {NoReader, NoPassword}
          /\ c["views"] \in {"absent", "stale", "right"} /\ c["reads"] \in BOOLEAN
          /\ c["logins"] \in SUBSET (Approved \cup Others) /\ c["reviewed"] \in BOOLEAN
  BY DEF Catalogs, Tuples, ACLs

ValueOf(t) ==
    CASE t = "database" -> SUBSET (Grantees \cup {CONNECT})
      [] t = "function" -> SUBSET Grantees
      [] t = "reader" -> ReaderPasswords \cup {NoReader, NoPassword}
      [] t = "views" -> {"absent", "stale", "right"}
      [] t = "logins" -> SUBSET (Approved \cup Others)
      [] t \in {"reads", "reviewed"} -> BOOLEAN

LEMMA CatalogChange == ASSUME NEW c \in Catalogs, NEW t \in Tuples, NEW v \in ValueOf(t)
    PROVE [c EXCEPT ![t] = v] \in Catalogs
  BY DEF Catalogs, Tuples, ACLs, ValueOf

LEMMA CatalogValue == ASSUME NEW c \in Catalogs, NEW t \in Tuples PROVE c[t] \in ValueOf(t)
  BY DEF Catalogs, Tuples, ACLs, ValueOf

\* What somebody else writes, and what a statement writes, are values of their tuple.
LEMMA DriftValue ==
    ASSUME ConsoleTypeOK, NEW t \in ACLs \cup {"logins", "reviewed"}, NEW v \in DriftOf(t)
    PROVE  v \in ValueOf(t)
<1>1. catalog \in Catalogs
  BY DEF ConsoleTypeOK
<1>2. CASE t = "logins"
  BY <1>1, <1>2, CatalogTuples DEF DriftOf, ACLs, ValueOf
<1>3. CASE t = "reviewed"
  BY <1>1, <1>3, CatalogTuples DEF DriftOf, ACLs, ValueOf
<1>4. CASE t = "database"
  BY <1>1, <1>4, CatalogTuples DEF DriftOf, ACLs, ValueOf
<1>5. CASE t = "function"
  BY <1>1, <1>5, CatalogTuples DEF DriftOf, ACLs, ValueOf
<1>6. QED
  BY <1>2, <1>3, <1>4, <1>5 DEF ACLs

LEMMA ResultValue ==
    ASSUME ConsoleTypeOK, NEW r \in Runs, NEW s \in Statements
    PROVE  Result(r, s) \in ValueOf(s.on)
<1>1. Newest(r) \in Catalogs
  BY NewestType
<1>2. CASE s.op \in {"grant", "revoke"}
  BY <1>1, <1>2, CatalogTuples, RolesDistinct DEF Result, ValueOf, Statements, ACLs, Grantees
<1>3. CASE s.op \in {"allow", "create", "replace"}
  BY <1>3 DEF Result, ValueOf, Statements, ACLs
<1>4. QED
  BY <1>2, <1>3 DEF Statements

\* A run that has written nothing sees its snapshot, once.
LEMMA FreshSees == ASSUME ConsoleTypeOK, NEW r \in Runs, mine[r] = {}
    PROVE  /\ Seen(r, {}) = snapshot[r] /\ snapshot[r] \in Catalogs
           /\ \A a \in ACLs : Direct(r, a) = snapshot[r][a]
           /\ \A a \in ACLs : PublicIn(r, snapshot[r], a) <=> PUBLIC \in snapshot[r][a]
           /\ \A t \in Tuples : Versions(r, t) = {snapshot[r][t]}
<1>1. snapshot[r] \in Catalogs
  BY DEF ConsoleTypeOK
<1>2. Seen(r, {}) = snapshot[r]
  BY <1>1, CatalogTuples DEF Seen, Catalogs, Tuples, ACLs
<1>3. \A t \in Tuples : Versions(r, t) = {snapshot[r][t]}
  BY DEF Versions
<1>4. \A a \in ACLs : Direct(r, a) = snapshot[r][a]
  BY <1>3 DEF Direct, Tuples
<1>5. QED
  BY <1>1, <1>2, <1>3, <1>4 DEF PublicIn

\* Sequences put together, as a plan is.
LEMMA EmptySeq == ASSUME NEW S PROVE <<>> \in Seq(S)
  OBVIOUS

LEMMA ConcatSeq == ASSUME NEW S, NEW p \in Seq(S), NEW q \in Seq(S)
    PROVE  /\ p \o q \in Seq(S)
           /\ \A i \in 1 .. Len(p) : i \in 1 .. Len(p \o q) /\ (p \o q)[i] = p[i]
           /\ p \o q = <<>> => p = <<>> /\ q = <<>>
<1>1. p \o q \in Seq(S) /\ Len(p \o q) = Len(p) + Len(q) /\ \A i \in 1 .. Len(p) : (p \o q)[i] = p[i]
  OBVIOUS
<1>2. Len(p) \in Nat /\ Len(q) \in Nat
  OBVIOUS
<1>3. p \o q = <<>> => p = <<>> /\ q = <<>>
  <2>1. p \o q = <<>> => Len(p) = 0 /\ Len(q) = 0
    BY <1>1, <1>2
  <2>2. QED
    BY <2>1
<1>4. QED
  BY <1>1, <1>2, <1>3

\* What is planned on a snapshot that nothing blocks (AclPlan, inspect_temp).
LEMMA PlanIsPlannable ==
    ASSUME ConsoleTypeOK, NEW r \in Runs, mine[r] = {}, ~ Blocked(r, snapshot[r])
    PROVE  /\ Plan(r, snapshot[r]) \in Seq(Plannable(snapshot[r]))
           /\ snapshot[r]["reader"] = NoReader =>
                 \E i \in 1 .. Len(Plan(r, snapshot[r])) :
                    Plan(r, snapshot[r])[i].op = "create" /\ Plan(r, snapshot[r])[i].on = "reader"
<1> DEFINE view == snapshot[r]
<1>1. /\ view \in Catalogs /\ DOMAIN view = Tuples
      /\ \A a \in ACLs : Direct(r, a) = view[a] /\ (PublicIn(r, view, a) <=> PUBLIC \in view[a])
  BY FreshSees, CatalogTuples
<1>2. \A a \in ACLs : PUBLIC \notin view[a] => Approved \subseteq view[a]
  BY <1>1 DEF Blocked, GrantIssues, Missing
<1>3. ASSUME NEW a \in ACLs PROVE AclPlan(r, view, a) \in Seq(Plannable(view))
  <2>1. CASE PUBLIC \in view[a]
    <3>1. Statement("grant", a, Missing(Direct(r, a))) \in Plannable(view)
          /\ Statement("revoke", a, {PUBLIC}) \in Plannable(view)
      BY <2>1 DEF Plannable, Moved, Statements, Statement, Missing, Tuples, Grantees
    <3>2. <<Statement("grant", a, Missing(Direct(r, a)))>> \in Seq(Plannable(view))
          /\ <<Statement("revoke", a, {PUBLIC})>> \in Seq(Plannable(view)) /\ <<>> \in Seq(Plannable(view))
      BY <3>1
    <3>3. QED
      BY <1>1, <2>1, <3>2, EmptySeq, ConcatSeq DEF AclPlan, Unless
  <2>2. CASE PUBLIC \notin view[a]
    BY <1>1, <2>2, EmptySeq DEF AclPlan, Unless
  <2>3. QED
    BY <2>1, <2>2
<1>4. ConnectPlan(r) \in Seq(Plannable(view))
  <2>1. CASE CONNECT \notin view["database"]
    <3>1. Statement("grant", "database", {CONNECT}) \in Plannable(view)
      BY <1>2 DEF Plannable, Moved, Statements, Statement, Tuples, ACLs
    <3>2. <<Statement("grant", "database", {CONNECT})>> \in Seq(Plannable(view))
      BY <3>1
    <3>3. QED
      BY <3>2, EmptySeq DEF ConnectPlan, Unless
  <2>2. CASE CONNECT \in view["database"]
    BY <1>1, <2>2, EmptySeq DEF ConnectPlan, Unless, ACLs
  <2>3. QED
    BY <2>1, <2>2
<1>5. ReaderPlan(view) \in Seq(Plannable(view)) /\ ReadsPlan(view) \in Seq(Plannable(view))
      /\ ViewsPlan(view) \in Seq(Plannable(view))
  <2>1. \A op \in {"create", "replace"} : Statement(op, "views", {}) \in Plannable(view)
    BY DEF Plannable, Moved, Statements, Statement, Tuples, ACLs
  <2>2. Statement("create", "reader", {}) \in Plannable(view) /\ Statement("allow", "reads", {}) \in Plannable(view)
    BY DEF Plannable, Moved, Statements, Statement, Tuples, ACLs
  <2>3. /\ <<Statement("create", "reader", {})>> \in Seq(Plannable(view))
        /\ <<Statement("allow", "reads", {})>> \in Seq(Plannable(view))
        /\ \A op \in {"create", "replace"} : <<Statement(op, "views", {})>> \in Seq(Plannable(view))
    BY <2>1, <2>2
  <2>4. QED
    BY <2>3, EmptySeq DEF ReaderPlan, ReadsPlan, ViewsPlan, Unless
<1>6. AclPlan(r, view, "database") \in Seq(Plannable(view)) /\ AclPlan(r, view, "function") \in Seq(Plannable(view))
  BY <1>3 DEF ACLs
<1> DEFINE two == AclPlan(r, view, "database") \o ReaderPlan(view)
           three == two \o AclPlan(r, view, "function")
           four == three \o ConnectPlan(r)
           five == four \o ReadsPlan(view)
<1>7. /\ two \in Seq(Plannable(view)) /\ three \in Seq(Plannable(view)) /\ four \in Seq(Plannable(view))
      /\ five \in Seq(Plannable(view)) /\ Plan(r, view) = five \o ViewsPlan(view)
  BY <1>4, <1>5, <1>6, ConcatSeq DEF Plan
<1>8. ASSUME view["reader"] = NoReader
      PROVE \E i \in 1 .. Len(Plan(r, view)) : Plan(r, view)[i] = Statement("create", "reader", {})
  <2>1. ReaderPlan(view) = <<Statement("create", "reader", {})>>
    BY <1>8 DEF ReaderPlan, Unless
  <2>2. \E i \in 1 .. Len(two) : two[i] = Statement("create", "reader", {})
    <3> HIDE DEF view
    <3>1. PICK c \in Plannable(view) : c = Statement("create", "reader", {})
      BY DEF Plannable, Moved, Statements, Statement, Tuples, ACLs
    <3>2. PICK p \in Seq(Plannable(view)) : p = AclPlan(r, view, "database")
      BY <1>6
    <3>3. (p \o <<c>>)[Len(p) + 1] = c /\ Len(p) + 1 \in 1 .. Len(p \o <<c>>)
      OBVIOUS
    <3>4. QED
      BY <2>1, <3>1, <3>2, <3>3
  <2> HIDE DEF two, three, four, five, view
  <2>3. \E i \in 1 .. Len(three) : three[i] = Statement("create", "reader", {})
    BY <2>2, <1>7, <1>6, ConcatSeq DEF three
  <2>4. \E i \in 1 .. Len(four) : four[i] = Statement("create", "reader", {})
    BY <2>3, <1>7, <1>4, ConcatSeq DEF four
  <2>5. \E i \in 1 .. Len(five) : five[i] = Statement("create", "reader", {})
    BY <2>4, <1>7, <1>5, ConcatSeq DEF five
  <2>6. QED
    BY <2>5, <1>7, <1>5, ConcatSeq
<1>9. Plan(r, view) \in Seq(Plannable(view))
  BY <1>5, <1>7, ConcatSeq
<1>10. QED
  BY <1>8, <1>9 DEF Statement

\* What a clean inspection shows, in whichever order it read the rows.
LEMMA CleanFacts ==
    ASSUME ConsoleTypeOK, NEW r \in Runs, NEW view \in Catalogs, Clean(r, view)
    PROVE  /\ view["reviewed"] /\ Cardinality(Versions(r, "function")) = 1
           /\ view["reader"] = Password[r]
           /\ view["reads"] /\ view["views"] = "right" /\ CONNECT \in Direct(r, "database")
           /\ Approved \subseteq view["logins"]
           /\ \A a \in ACLs : ~ PublicIn(r, view, a) /\ Direct(r, a) \subseteq Approved \cup {PUBLIC, CONNECT}
                              /\ Approved \subseteq Direct(r, a)
<1> DEFINE S == [op : {"grant", "revoke", "allow", "create", "replace"}, on : Tuples,
                 to : SUBSET (Approved \cup {PUBLIC, CONNECT})]
<1>1. ASSUME NEW a \in ACLs PROVE AclPlan(r, view, a) \in Seq(S)
  <2>1. Statement("grant", a, Missing(Direct(r, a))) \in S /\ Statement("revoke", a, {PUBLIC}) \in S
    BY DEF Statement, Missing, Tuples
  <2>2. <<Statement("grant", a, Missing(Direct(r, a)))>> \in Seq(S) /\ <<Statement("revoke", a, {PUBLIC})>> \in Seq(S)
    BY <2>1
  <2>3. QED
    BY <2>2, EmptySeq, ConcatSeq DEF AclPlan, Unless
<1>2. ConnectPlan(r) \in Seq(S) /\ ReaderPlan(view) \in Seq(S) /\ ReadsPlan(view) \in Seq(S) /\ ViewsPlan(view) \in Seq(S)
  <2>1. /\ Statement("grant", "database", {CONNECT}) \in S /\ Statement("create", "reader", {}) \in S
        /\ Statement("allow", "reads", {}) \in S
        /\ \A op \in {"create", "replace"} : Statement(op, "views", {}) \in S
    BY DEF Statement, Tuples, ACLs
  <2>2. /\ <<Statement("grant", "database", {CONNECT})>> \in Seq(S) /\ <<Statement("create", "reader", {})>> \in Seq(S)
        /\ <<Statement("allow", "reads", {})>> \in Seq(S)
        /\ \A op \in {"create", "replace"} : <<Statement(op, "views", {})>> \in Seq(S)
    BY <2>1
  <2> HIDE DEF S
  <2>3. QED
    BY <2>2, EmptySeq DEF ConnectPlan, ReaderPlan, ReadsPlan, ViewsPlan, Unless
<1> HIDE DEF S
<1>3. Plan(r, view) = <<>> /\ ~ Blocked(r, view)
  BY DEF Clean
<1>4. /\ AclPlan(r, view, "database") = <<>> /\ AclPlan(r, view, "function") = <<>> /\ ConnectPlan(r) = <<>>
      /\ ReaderPlan(view) = <<>> /\ ReadsPlan(view) = <<>> /\ ViewsPlan(view) = <<>>
  <2> DEFINE two == AclPlan(r, view, "database") \o ReaderPlan(view)
             three == two \o AclPlan(r, view, "function")
             four == three \o ConnectPlan(r)
             five == four \o ReadsPlan(view)
  <2>1. /\ two \in Seq(S) /\ three \in Seq(S) /\ four \in Seq(S) /\ five \in Seq(S)
        /\ Plan(r, view) = five \o ViewsPlan(view)
    BY <1>1, <1>2, ConcatSeq DEF Plan, ACLs
  <2>2. five = <<>> /\ ViewsPlan(view) = <<>>
    BY <1>2, <1>3, <2>1, ConcatSeq
  <2>3. four = <<>> /\ ReadsPlan(view) = <<>>
    BY <1>2, <2>1, <2>2, ConcatSeq
  <2>4. three = <<>> /\ ConnectPlan(r) = <<>>
    BY <1>2, <2>1, <2>3, ConcatSeq
  <2>5. two = <<>> /\ AclPlan(r, view, "function") = <<>>
    BY <1>1, <2>1, <2>4, ConcatSeq DEF ACLs
  <2>6. AclPlan(r, view, "database") = <<>> /\ ReaderPlan(view) = <<>>
    BY <1>1, <1>2, <2>1, <2>5, ConcatSeq DEF ACLs
  <2>7. QED
    BY <2>2, <2>3, <2>4, <2>5, <2>6
<1>5. \A x : <<x>> # <<>>
  OBVIOUS
<1>6. ASSUME NEW a \in ACLs PROVE ~ PublicIn(r, view, a)
  <2>1. AclPlan(r, view, a) = <<>>
    BY <1>4 DEF ACLs
  <2>2. SUFFICES ASSUME PublicIn(r, view, a) PROVE FALSE
    OBVIOUS
  <2>3. Statement("grant", a, Missing(Direct(r, a))) \in S /\ Statement("revoke", a, {PUBLIC}) \in S
    BY DEF S, Statement, Missing, Tuples
  <2>4. <<Statement("grant", a, Missing(Direct(r, a)))>> \in Seq(S)
    BY <2>3
  <2>5. PICK q \in Seq(S) : q = Unless(Missing(Direct(r, a)) = {}, <<Statement("grant", a, Missing(Direct(r, a)))>>)
    BY <2>4, EmptySeq DEF Unless
  <2>6. q \o <<Statement("revoke", a, {PUBLIC})>> = <<>>
    BY <2>1, <2>2, <2>5 DEF AclPlan, Unless
  <2>7. <<Statement("revoke", a, {PUBLIC})>> \in Seq(S)
    BY <2>3
  <2>8. QED
    BY <2>6, <2>7, <1>5, ConcatSeq
<1>7. view["reader"] = Password[r]
  BY <1>3, <1>4, <1>5 DEF Blocked, PasswordIssue, ReaderPlan, Unless
<1>8. view["reads"] /\ view["views"] = "right" /\ CONNECT \in Direct(r, "database")
  BY <1>4, <1>5 DEF ReadsPlan, ViewsPlan, ConnectPlan, Unless
<1>9. \A a \in ACLs : /\ Direct(r, a) \subseteq Approved \cup {PUBLIC, CONNECT} /\ Approved \subseteq view["logins"]
                      /\ Approved \subseteq Direct(r, a)
  BY <1>3, <1>6 DEF Blocked, GrantIssues, Missing
<1>10. view["reviewed"] /\ Cardinality(Versions(r, "function")) = 1
  BY <1>3 DEF Blocked, Reviewed
<1>11. QED
  BY <1>6, <1>7, <1>8, <1>9, <1>10 DEF ACLs

\* Every step keeps the types, and creates no reader that stays without password.
LEMMA ProvisionTypeStep ==
    ASSUME ProvisionTypeOK, SnapshotsFollowed, ReaderKept, [ConsoleNext]_consoleVars
    PROVE  ProvisionTypeOK'
<1> USE DEF ProvisionTypeOK, ConsoleTypeOK, Stages, InTransaction, InTxn, Goes, Snapshot, Changed, txVars
<1>1. CASE Drift
  <2>1. PICK t \in ACLs \cup {"logins", "reviewed"} :
          /\ \E value \in DriftOf(t) \ {catalog[t]} : catalog' = [catalog EXCEPT ![t] = value]
          /\ Changed({t}, NoRun)
    BY <1>1 DEF Drift
  <2>2. PICK value \in DriftOf(t) : catalog' = [catalog EXCEPT ![t] = value]
    BY <2>1
  <2>3. catalog' \in Catalogs /\ catalog'["reader"] # NoPassword
    <3>1. value \in ValueOf(t) /\ t \in Tuples /\ t # "reader"
      BY DriftValue DEF Tuples, ACLs
    <3>2. QED
      BY <2>2, <3>1, CatalogChange, CatalogTuples DEF Tuples
  <2>4. foreign' \in [Runs -> SUBSET Tuples]
    BY <2>1 DEF Tuples, ACLs
  <2>5. QED
    BY <1>1, <2>3, <2>4, ConsoleBounds DEF Drift
<1>2. ASSUME NEW r \in Runs, BeginTxn(r) PROVE ProvisionTypeOK'
  BY <1>2 DEF BeginTxn
<1>3. ASSUME NEW r \in Runs, Lock(r) PROVE ProvisionTypeOK'
  BY <1>3 DEF Lock
<1>4. ASSUME NEW r \in Runs, LockTimeout(r) PROVE ProvisionTypeOK'
  BY <1>4 DEF LockTimeout
<1>5. ASSUME NEW r \in Runs, Inspect(r) PROVE ProvisionTypeOK'
  BY <1>5 DEF Inspect
<1>6. ASSUME NEW r \in Runs, MakePlan(r) PROVE ProvisionTypeOK'
  <2>1. CASE Blocked(r, Seen(r, {}))
    BY <1>6, <2>1 DEF MakePlan
  <2>2. CASE ~ Blocked(r, Seen(r, {}))
    <3>1. mine[r] = {}
      BY <1>6 DEF MakePlan, SnapshotsFollowed
    <3>2. Plan(r, Seen(r, {})) \in Seq(Plannable(snapshot[r]))
      BY <2>2, <3>1, FreshSees, PlanIsPlannable
    <3>3. Plan(r, Seen(r, {})) \in Seq(Statements)
      <4>1. PICK p : p = Plan(r, Seen(r, {}))
        OBVIOUS
      <4>2. p \in Seq(Plannable(snapshot[r])) /\ Plannable(snapshot[r]) \subseteq Statements
        BY <3>2, <4>1 DEF Plannable
      <4>3. p \in Seq(Statements)
        BY <4>2
      <4>4. QED
        BY <4>1, <4>3
    <3>4. todo' \in [Runs -> Seq(Statements)] /\ created' \in [Runs -> BOOLEAN]
      <4>1. PICK p \in Seq(Statements), new \in BOOLEAN :
               todo' = [todo EXCEPT ![r] = p] /\ created' = [created EXCEPT ![r] = new]
        BY <1>6, <2>2, <3>3 DEF MakePlan
      <4>2. QED
        BY <4>1
    <3>5. stage' \in [Runs -> Stages] /\ UNCHANGED <<catalog, snapshot, own, mine, foreign, drift, cuts>>
      BY <1>6 DEF MakePlan
    <3>6. QED
      BY <3>4, <3>5
  <2>3. QED
    BY <2>1, <2>2
<1>7. ASSUME NEW r \in Runs, Apply(r) PROVE ProvisionTypeOK'
  <2> DEFINE s == Head(todo[r])
  <2>1. s \in Statements /\ Tail(todo[r]) \in Seq(Statements) /\ todo[r] \in Seq(Statements)
    BY <1>7 DEF Apply
  <2>2. s.on \in Tuples /\ Result(r, s) \in ValueOf(s.on)
    BY <2>1, ResultValue DEF Statements
  <2>3. CASE Fails(r, s)
    BY <1>7, <2>3 DEF Apply
  <2>4. CASE ~ Fails(r, s)
    <3>1. /\ mine' = [mine EXCEPT ![r] = @ \cup {s.on}]
          /\ own' = [own EXCEPT ![r] = [own[r] EXCEPT ![s.on] = Result(r, s)]]
          /\ todo' = [todo EXCEPT ![r] = Tail(todo[r])]
          /\ UNCHANGED <<catalog, stage, snapshot, foreign, created, drift, cuts>>
      BY <1>7, <2>4 DEF Apply, Writes
    <3> HIDE DEF s
    <3>2. own[r] \in Catalogs
      OBVIOUS
    <3>3. own' \in [Runs -> Catalogs]
      BY <2>2, <3>1, <3>2, CatalogChange
    <3>4. mine' \in [Runs -> SUBSET Tuples] /\ todo' \in [Runs -> Seq(Statements)]
      BY <2>1, <2>2, <3>1
    <3>5. QED
      BY <3>1, <3>3, <3>4
  <2>5. QED
    BY <2>3, <2>4
<1>8. ASSUME NEW r \in Runs, SetPassword(r) PROVE ProvisionTypeOK'
  <2>1. CASE created[r]
    <3>1. /\ mine' = [mine EXCEPT ![r] = @ \cup {"reader"}]
          /\ own' = [own EXCEPT ![r] = [own[r] EXCEPT !["reader"] = Password[r]]]
      BY <1>8, <2>1 DEF SetPassword, Writes
    <3>2. Password[r] \in ValueOf("reader") /\ "reader" \in Tuples
      BY DEF ValueOf, ReaderPasswords, Tuples
    <3>3. own' \in [Runs -> Catalogs] /\ mine' \in [Runs -> SUBSET Tuples]
      BY <3>1, <3>2, CatalogChange
    <3>4. QED
      BY <1>8, <3>3 DEF SetPassword
  <2>2. CASE ~ created[r]
    BY <1>8, <2>2 DEF SetPassword
  <2>3. QED
    BY <2>1, <2>2
<1>9. ASSUME NEW r \in Runs, Check(r) PROVE ProvisionTypeOK'
  BY <1>9 DEF Check
<1>10. ASSUME NEW r \in Runs, Commit(r) PROVE ProvisionTypeOK'
  <2>1. catalog' \in Catalogs
    BY <1>10, NewestType DEF Commit
  <2>2. catalog'["reader"] # NoPassword
    <3>1. Newest(r)["reader"] = Password[r]
      BY <1>10 DEF Commit, ReaderKept
    <3>2. Password[r] \in ReaderPasswords
      BY DEF ReaderPasswords
    <3>3. QED
      BY <1>10, <3>1, <3>2, PasswordsSet DEF Commit
  <2>3. QED
    BY <1>10, <2>1, <2>2 DEF Commit
<1>11. ASSUME NEW r \in Runs, BeginVerify(r) PROVE ProvisionTypeOK'
  BY <1>11 DEF BeginVerify
<1>12. ASSUME NEW r \in Runs, Verify(r) PROVE ProvisionTypeOK'
  BY <1>12 DEF Verify
<1>13. ASSUME NEW r \in Runs, Disconnect(r) PROVE ProvisionTypeOK'
  BY <1>13, ConsoleBounds DEF Disconnect
<1>14. CASE UNCHANGED consoleVars
  BY <1>14 DEF consoleVars, txVars
<1>15. QED
  BY <1>1, <1>2, <1>3, <1>4, <1>5, <1>6, <1>7, <1>8, <1>9, <1>10, <1>11, <1>12, <1>13, <1>14
     DEF ConsoleNext, Step

\* The advisory lock admits one run.
LEMMA OneStep ==
    ASSUME ProvisionTypeOK, OneProvisions, [ConsoleNext]_consoleVars
    PROVE  OneProvisions'
<1> USE DEF ProvisionTypeOK, ConsoleTypeOK, Stages, InTransaction, InTxn, Goes, Snapshot, Changed, txVars,
        OneProvisions, Provisioning
<1>1. CASE Drift
  BY <1>1 DEF Drift
<1>2. ASSUME NEW r \in Runs, BeginTxn(r) PROVE OneProvisions'
  BY <1>2 DEF BeginTxn
<1>3. ASSUME NEW r \in Runs, Lock(r) PROVE OneProvisions'
  BY <1>3 DEF Lock
<1>4. ASSUME NEW r \in Runs, LockTimeout(r) PROVE OneProvisions'
  BY <1>4 DEF LockTimeout
<1>5. ASSUME NEW r \in Runs, Inspect(r) PROVE OneProvisions'
  BY <1>5 DEF Inspect
<1>6. ASSUME NEW r \in Runs, MakePlan(r) PROVE OneProvisions'
  BY <1>6 DEF MakePlan
<1>7. ASSUME NEW r \in Runs, Apply(r) PROVE OneProvisions'
  BY <1>7 DEF Apply
<1>8. ASSUME NEW r \in Runs, SetPassword(r) PROVE OneProvisions'
  BY <1>8 DEF SetPassword
<1>9. ASSUME NEW r \in Runs, Check(r) PROVE OneProvisions'
  BY <1>9 DEF Check
<1>10. ASSUME NEW r \in Runs, Commit(r) PROVE OneProvisions'
  BY <1>10 DEF Commit
<1>11. ASSUME NEW r \in Runs, BeginVerify(r) PROVE OneProvisions'
  BY <1>11 DEF BeginVerify
<1>12. ASSUME NEW r \in Runs, Verify(r) PROVE OneProvisions'
  BY <1>12 DEF Verify
<1>13. ASSUME NEW r \in Runs, Disconnect(r) PROVE OneProvisions'
  BY <1>13 DEF Disconnect
<1>14. CASE UNCHANGED consoleVars
  BY <1>14 DEF consoleVars, txVars
<1>15. QED
  BY <1>1, <1>2, <1>3, <1>4, <1>5, <1>6, <1>7, <1>8, <1>9, <1>10, <1>11, <1>12, <1>13, <1>14
     DEF ConsoleNext, Step

\* Everybody else's change is noticed, and a run's own comes with its commit.
LEMMA FollowedStep ==
    ASSUME ProvisionTypeOK, SnapshotsFollowed, [ConsoleNext]_consoleVars
    PROVE  SnapshotsFollowed'
<1> USE DEF ProvisionTypeOK, ConsoleTypeOK, Stages, InTransaction, InTxn, Goes, Snapshot, Changed, txVars,
        SnapshotsFollowed
<1>1. CASE Drift
  <2>1. PICK t \in ACLs \cup {"logins", "reviewed"} :
          /\ \A s \in Runs : InTxn(s) => t \notin mine[s]
          /\ \E value : catalog' = [catalog EXCEPT ![t] = value]
          /\ foreign' = [s \in Runs |-> IF s = NoRun THEN foreign[s] ELSE foreign[s] \cup {t}]
    BY <1>1 DEF Drift
  <2>2. \A s \in Runs : s # NoRun
    BY SomebodyElse
  <2>3. \A u \in Tuples : u # t => catalog'[u] = catalog[u]
    BY <2>1, CatalogTuples
  <2>4. UNCHANGED <<stage, snapshot, mine>>
    BY <1>1 DEF Drift
  <2>5. QED
    BY <2>1, <2>2, <2>3, <2>4
<1>2. ASSUME NEW r \in Runs, BeginTxn(r) PROVE SnapshotsFollowed'
  BY <1>2 DEF BeginTxn
<1>3. ASSUME NEW r \in Runs, Lock(r) PROVE SnapshotsFollowed'
  BY <1>3 DEF Lock
<1>4. ASSUME NEW r \in Runs, LockTimeout(r) PROVE SnapshotsFollowed'
  BY <1>4 DEF LockTimeout
<1>5. ASSUME NEW r \in Runs, Inspect(r) PROVE SnapshotsFollowed'
  BY <1>5 DEF Inspect
<1>6. ASSUME NEW r \in Runs, MakePlan(r) PROVE SnapshotsFollowed'
  BY <1>6 DEF MakePlan
<1>7. ASSUME NEW r \in Runs, Apply(r) PROVE SnapshotsFollowed'
  <2>1. UNCHANGED <<catalog, snapshot, foreign>>
        /\ \A s \in Runs : s # r => stage'[s] = stage[s] /\ mine'[s] = mine[s]
    BY <1>7 DEF Apply, Writes
  <2>2. mine[r] \subseteq mine'[r] /\ stage[r] = "applying" /\ stage'[r] \in {"applying", "failed"}
    BY <1>7 DEF Apply, Writes
  <2>3. ASSUME NEW q \in Runs
        PROVE mine[q] \subseteq mine'[q]
              /\ (stage'[q] \in InTransaction => stage[q] \in InTransaction)
              /\ (stage'[q] \in {"idle", "waiting", "inspecting", "planning", "verifying", "done"} => mine'[q] = {})
    <3>1. CASE q = r
      BY <3>1, <2>2
    <3>2. CASE q # r
      BY <3>2, <2>1
    <3>3. QED
      BY <3>1, <3>2
  <2>4. QED
    BY <2>1, <2>3
<1>8. ASSUME NEW r \in Runs, SetPassword(r) PROVE SnapshotsFollowed'
  BY <1>8 DEF SetPassword, Writes
<1>9. ASSUME NEW r \in Runs, Check(r) PROVE SnapshotsFollowed'
  BY <1>9 DEF Check
<1>10. ASSUME NEW r \in Runs, Commit(r) PROVE SnapshotsFollowed'
  BY <1>10 DEF Commit, Newest
<1>11. ASSUME NEW r \in Runs, BeginVerify(r) PROVE SnapshotsFollowed'
  BY <1>11 DEF BeginVerify
<1>12. ASSUME NEW r \in Runs, Verify(r) PROVE SnapshotsFollowed'
  BY <1>12 DEF Verify
<1>13. ASSUME NEW r \in Runs, Disconnect(r) PROVE SnapshotsFollowed'
  BY <1>13 DEF Disconnect
<1>14. CASE UNCHANGED consoleVars
  BY <1>14 DEF consoleVars, txVars
<1>15. QED
  BY <1>1, <1>2, <1>3, <1>4, <1>5, <1>6, <1>7, <1>8, <1>9, <1>10, <1>11, <1>12, <1>13, <1>14
     DEF ConsoleNext, Step

\* The newest reader as a run's privilege functions see it.
LEMMA NewestReader == ASSUME NEW r \in Runs
    PROVE Newest(r)["reader"] = IF "reader" \in mine[r] THEN own[r]["reader"] ELSE catalog["reader"]
  BY DEF Newest, Tuples

\* Each action keeps the reader and its password.
LEMMA ReaderStep ==
    ASSUME ProvisionTypeOK, OneProvisions, SnapshotsFollowed, ReaderKept, [ConsoleNext]_consoleVars
    PROVE  ReaderKept'
<1> USE DEF ProvisionTypeOK, ConsoleTypeOK, Stages, InTransaction, InTxn, Goes, Snapshot, Changed, txVars,
        ReaderKept, Provisioning
<1>1. CASE Drift
  <2>1. catalog'["reader"] = catalog["reader"] /\ UNCHANGED <<stage, snapshot, own, mine, todo, created>>
    <3>1. PICK t \in ACLs \cup {"logins", "reviewed"} : \E value : catalog' = [catalog EXCEPT ![t] = value]
      BY <1>1 DEF Drift
    <3>2. QED
      BY <1>1, <3>1, CatalogTuples DEF Drift, ACLs, Tuples
  <2>2. \A s \in Runs : Newest(s)'["reader"] = Newest(s)["reader"] /\ (CreatesReader(s))' = CreatesReader(s)
    BY <2>1 DEF Newest, Tuples, CreatesReader
  <2>3. QED
    BY <2>1, <2>2
<1>2. ASSUME NEW r \in Runs, BeginTxn(r) PROVE ReaderKept'
  <2>1. \A s \in Runs : s # r => /\ stage'[s] = stage[s] /\ mine'[s] = mine[s] /\ snapshot'[s] = snapshot[s]
    BY <1>2 DEF BeginTxn
  <2>2. stage'[r] = "waiting" /\ snapshot'[r] = catalog /\ UNCHANGED <<catalog, own, todo, created>>
    BY <1>2 DEF BeginTxn
  <2>3. \A s \in Runs : s # r => (CreatesReader(s))' = CreatesReader(s) /\ Newest(s)' = Newest(s)
    BY <2>1, <2>2 DEF CreatesReader, Newest
  <2>4. QED
    BY <2>1, <2>2, <2>3
<1>3. ASSUME NEW r \in Runs, Lock(r) PROVE ReaderKept'
  <2>1. UNCHANGED <<catalog, snapshot, own, mine, todo, created>> /\ stage'[r] = "inspecting" /\ stage[r] = "waiting"
        /\ \A s \in Runs : s # r => stage'[s] = stage[s]
    BY <1>3 DEF Lock
  <2>2. \A s \in Runs : (CreatesReader(s))' = CreatesReader(s) /\ Newest(s)' = Newest(s)
    BY <2>1 DEF CreatesReader, Newest
  <2>3. mine[r] = {}
    BY <2>1 DEF SnapshotsFollowed
  <2>4. QED
    BY <2>1, <2>2, <2>3
<1>4. ASSUME NEW r \in Runs, LockTimeout(r) PROVE ReaderKept'
  BY <1>4 DEF LockTimeout, CreatesReader, Newest
<1>5. ASSUME NEW r \in Runs, Inspect(r) PROVE ReaderKept'
  BY <1>5 DEF Inspect, CreatesReader, Newest
<1>6. ASSUME NEW r \in Runs, MakePlan(r) PROVE ReaderKept'
  <2>1. UNCHANGED <<catalog, snapshot, own, mine>> /\ mine[r] = {} /\ stage[r] = "planning"
    BY <1>6 DEF MakePlan, SnapshotsFollowed
  <2>2. \A s \in Runs : Newest(s)' = Newest(s)
    BY <2>1 DEF Newest
  <2>3. \A s \in Runs : s # r => stage'[s] = stage[s] /\ created'[s] = created[s] /\ todo'[s] = todo[s]
    BY <1>6 DEF MakePlan
  <2>4. stage'[r] = "failed" \/ (stage'[r] = "applying" /\ (created'[r] => (CreatesReader(r))'))
    <3>1. CASE Blocked(r, Seen(r, {}))
      BY <1>6, <3>1 DEF MakePlan
    <3>2. CASE ~ Blocked(r, Seen(r, {}))
      <4>1. Seen(r, {}) = snapshot[r]
        BY <2>1, FreshSees
      <4>2. stage'[r] = "applying" /\ created'[r] = (snapshot[r]["reader"] = NoReader) /\ todo'[r] = Plan(r, snapshot[r])
        BY <1>6, <3>2, <4>1 DEF MakePlan
      <4>3. ASSUME snapshot[r]["reader"] = NoReader PROVE (CreatesReader(r))'
        <5>1. \E i \in 1 .. Len(Plan(r, snapshot[r])) :
                 Plan(r, snapshot[r])[i].op = "create" /\ Plan(r, snapshot[r])[i].on = "reader"
          BY <2>1, <3>2, <4>1, <4>3, PlanIsPlannable
        <5>2. QED
          BY <4>2, <5>1 DEF CreatesReader
      <4>4. QED
        BY <4>2, <4>3
    <3>3. QED
      BY <3>1, <3>2
  <2>5. \A s \in Runs : s # r => (CreatesReader(s))' = CreatesReader(s)
    BY <2>3 DEF CreatesReader
  <2>6. QED
    BY <2>1, <2>2, <2>3, <2>4, <2>5
<1>7. ASSUME NEW r \in Runs, Apply(r) PROVE ReaderKept'
  <2>1. stage[r] = "applying" /\ UNCHANGED <<catalog, snapshot, created>>
        /\ \A s \in Runs : s # r => /\ stage'[s] = stage[s] /\ mine'[s] = mine[s] /\ own'[s] = own[s]
                                    /\ todo'[s] = todo[s]
    BY <1>7 DEF Apply, Writes
  <2>2. \A s \in Runs : s # r => (CreatesReader(s))' = CreatesReader(s) /\ Newest(s)' = Newest(s)
    BY <2>1 DEF CreatesReader, Newest
  <2>3. CASE stage'[r] = "failed"
    BY <2>1, <2>2, <2>3
  <2>4. CASE stage'[r] # "failed"
    <3> DEFINE s == Head(todo[r])
    <3>1. /\ stage' = stage /\ ~ Fails(r, s) /\ todo[r] # <<>> /\ todo[r] \in Seq(Statements)
          /\ mine'[r] = mine[r] \cup {s.on} /\ todo'[r] = Tail(todo[r])
      BY <1>7, <2>4 DEF Apply, Writes
    <3>2. s \in Statements /\ s = todo[r][1]
      BY <3>1
    <3>3. ASSUME s.on = "reader" PROVE catalog["reader"] = NoReader
      <4>1. s.op = "create"
        BY <3>2, <3>3 DEF Statements, ACLs
      <4>2. Newest(r)["reader"] = NoReader
        BY <3>1, <3>3, <4>1 DEF Fails
      <4>3. QED
        BY <2>1, <4>2, NewestReader
    <3>4. ASSUME CreatesReader(r), s.on # "reader" PROVE (CreatesReader(r))'
      <4>1. PICK i \in 1 .. Len(todo[r]) : todo[r][i].op = "create" /\ todo[r][i].on = "reader"
        BY <3>4 DEF CreatesReader
      <4>2. i # 1
        BY <3>2, <3>4, <4>1
      <4>3. i - 1 \in 1 .. Len(Tail(todo[r])) /\ Tail(todo[r])[i - 1] = todo[r][i]
        BY <3>1, <4>1, <4>2
      <4>4. i - 1 \in 1 .. Len(todo'[r]) /\ todo'[r][i - 1].op = "create" /\ todo'[r][i - 1].on = "reader"
        BY <3>1, <4>1, <4>3
      <4>5. QED
        BY <4>4 DEF CreatesReader
    <3> HIDE DEF s
    <3>5. QED
      BY <2>1, <2>2, <3>1, <3>3, <3>4
  <2>5. QED
    BY <2>3, <2>4
<1>8. ASSUME NEW r \in Runs, SetPassword(r) PROVE ReaderKept'
  <2>1. /\ stage[r] = "applying" /\ stage'[r] = "checking" /\ UNCHANGED <<catalog, snapshot, todo, created>>
        /\ \A s \in Runs : s # r => stage'[s] = stage[s] /\ mine'[s] = mine[s] /\ own'[s] = own[s]
    BY <1>8 DEF SetPassword, Writes
  <2>2. \A s \in Runs : s # r => (CreatesReader(s))' = CreatesReader(s) /\ Newest(s)' = Newest(s)
    BY <2>1 DEF CreatesReader, Newest
  <2>3. mine'[r] = mine[r]
    <3>1. ~ CreatesReader(r)
      BY <1>8 DEF SetPassword, CreatesReader
    <3>2. CASE created[r]
      <4>1. "reader" \in mine[r]
        BY <2>1, <3>1, <3>2
      <4>2. mine' = [mine EXCEPT ![r] = mine[r] \cup {"reader"}]
        BY <1>8, <3>2 DEF SetPassword, Writes
      <4>3. QED
        BY <4>1, <4>2
    <3>3. CASE ~ created[r]
      BY <1>8, <3>3 DEF SetPassword
    <3>4. QED
      BY <3>2, <3>3
  <2>4. QED
    BY <2>1, <2>2, <2>3
<1>9. ASSUME NEW r \in Runs, Check(r) PROVE ReaderKept'
  <2>1. UNCHANGED <<catalog, snapshot, own, mine, todo, created>> /\ stage[r] = "checking"
        /\ \A s \in Runs : s # r => stage'[s] = stage[s]
    BY <1>9 DEF Check
  <2>2. \A s \in Runs : (CreatesReader(s))' = CreatesReader(s) /\ Newest(s)' = Newest(s)
    BY <2>1 DEF CreatesReader, Newest
  <2>3. stage'[r] = "failed" \/ (stage'[r] = "committing" /\ Newest(r)["reader"] = Password[r])
    <3>1. PICK older : stage' = [stage EXCEPT ![r] = IF Clean(r, Seen(r, older)) THEN "committing" ELSE "failed"]
      BY <1>9 DEF Check
    <3>2. ASSUME Clean(r, Seen(r, older)) PROVE Newest(r)["reader"] = Password[r]
      <4>1. Seen(r, older)["reader"] = Password[r]
        BY <3>2, SeenType, CleanFacts
      <4>2. Password[r] # NoReader
        BY PasswordsSet DEF ReaderPasswords
      <4>3. Seen(r, older)["reader"] \in {own[r]["reader"], snapshot[r]["reader"]}
            /\ ("reader" \notin mine[r] => Seen(r, older)["reader"] = snapshot[r]["reader"])
        BY DEF Seen, Tuples
      <4>4. QED
        BY <2>1, <4>1, <4>2, <4>3, NewestReader
    <3>3. QED
      BY <3>1, <3>2
  <2>4. QED
    BY <2>1, <2>2, <2>3
<1>10. ASSUME NEW r \in Runs, Commit(r) PROVE ReaderKept'
  <2>1. /\ stage[r] = "committing" /\ stage'[r] = "committed" /\ catalog' = Newest(r)
        /\ UNCHANGED <<snapshot, own, mine, todo, created>>
        /\ \A s \in Runs : s # r => stage'[s] = stage[s]
    BY <1>10 DEF Commit
  <2>2. catalog'["reader"] = Password[r]
    BY <2>1
  <2>3. catalog["reader"] # NoReader => catalog'["reader"] = catalog["reader"]
    BY <2>1, NewestReader
  <2>4. \A s \in Runs : s # r => stage[s] \notin Provisioning
    BY <2>1 DEF OneProvisions
  <2>5. \A s \in Runs : Password[s] # NoReader
    BY PasswordsSet DEF ReaderPasswords
  <2>6. QED
    BY <2>1, <2>2, <2>3, <2>4, <2>5
<1>11. ASSUME NEW r \in Runs, BeginVerify(r) PROVE ReaderKept'
  <2>1. \A s \in Runs : s # r => /\ stage'[s] = stage[s] /\ mine'[s] = mine[s] /\ snapshot'[s] = snapshot[s]
    BY <1>11 DEF BeginVerify
  <2>2. stage[r] = "committed" /\ stage'[r] = "verifying" /\ snapshot'[r] = catalog
        /\ UNCHANGED <<catalog, own, todo, created>>
    BY <1>11 DEF BeginVerify
  <2>3. \A s \in Runs : s # r => (CreatesReader(s))' = CreatesReader(s) /\ Newest(s)' = Newest(s)
    BY <2>1, <2>2 DEF CreatesReader, Newest
  <2>4. QED
    BY <2>1, <2>2, <2>3
<1>12. ASSUME NEW r \in Runs, Verify(r) PROVE ReaderKept'
  BY <1>12 DEF Verify, CreatesReader, Newest
<1>13. ASSUME NEW r \in Runs, Disconnect(r) PROVE ReaderKept'
  BY <1>13 DEF Disconnect, CreatesReader, Newest
<1>14. CASE UNCHANGED consoleVars
  BY <1>14 DEF consoleVars, txVars, CreatesReader, Newest
<1>15. QED
  BY <1>1, <1>2, <1>3, <1>4, <1>5, <1>6, <1>7, <1>8, <1>9, <1>10, <1>11, <1>12, <1>13, <1>14
     DEF ConsoleNext, Step

\* A statement leaves the plan for the tuple it writes.
LEMMA PlannedStep ==
    ASSUME ProvisionTypeOK, SnapshotsFollowed, RightsPlanned, [ConsoleNext]_consoleVars
    PROVE  RightsPlanned'
<1> USE DEF ProvisionTypeOK, ConsoleTypeOK, Stages, InTransaction, InTxn, Goes, Snapshot, Changed, txVars,
        RightsPlanned
<1>1. CASE Drift
  BY <1>1 DEF Drift
<1>2. ASSUME NEW r \in Runs, BeginTxn(r) PROVE RightsPlanned'
  BY <1>2 DEF BeginTxn
<1>3. ASSUME NEW r \in Runs, Lock(r) PROVE RightsPlanned'
  BY <1>3 DEF Lock
<1>4. ASSUME NEW r \in Runs, LockTimeout(r) PROVE RightsPlanned'
  BY <1>4 DEF LockTimeout
<1>5. ASSUME NEW r \in Runs, Inspect(r) PROVE RightsPlanned'
  BY <1>5 DEF Inspect
<1>6. ASSUME NEW r \in Runs, MakePlan(r) PROVE RightsPlanned'
  <2>1. UNCHANGED <<catalog, snapshot, own, mine>> /\ mine[r] = {}
        /\ \A s \in Runs : s # r => stage'[s] = stage[s] /\ todo'[s] = todo[s]
    BY <1>6 DEF MakePlan, SnapshotsFollowed
  <2>2. stage'[r] = "failed" \/ (stage'[r] = "applying" /\ todo'[r] \in Seq(Plannable(snapshot[r])))
    <3>1. Seen(r, {}) = snapshot[r]
      BY <2>1, FreshSees
    <3>2. CASE Blocked(r, Seen(r, {}))
      BY <1>6, <3>2 DEF MakePlan
    <3>3. CASE ~ Blocked(r, Seen(r, {}))
      <4>1. stage'[r] = "applying" /\ todo'[r] = Plan(r, snapshot[r])
        BY <1>6, <3>1, <3>3 DEF MakePlan
      <4>2. Plan(r, snapshot[r]) \in Seq(Plannable(snapshot[r]))
        BY <2>1, <3>1, <3>3, PlanIsPlannable
      <4>3. QED
        BY <4>1, <4>2
    <3>4. QED
      BY <3>2, <3>3
  <2>3. QED
    BY <2>1, <2>2
<1>7. ASSUME NEW r \in Runs, Apply(r) PROVE RightsPlanned'
  <2>1. stage[r] = "applying" /\ UNCHANGED snapshot
        /\ \A s \in Runs : s # r => stage'[s] = stage[s] /\ mine'[s] = mine[s] /\ todo'[s] = todo[s]
    BY <1>7 DEF Apply, Writes
  <2>2. CASE stage'[r] = "failed"
    BY <2>1, <2>2
  <2>3. CASE stage'[r] # "failed"
    <3> DEFINE s == Head(todo[r])
    <3>1. stage' = stage /\ todo[r] # <<>> /\ todo[r] \in Seq(Plannable(snapshot[r]))
      BY <1>7, <2>3 DEF Apply, Writes
    <3>2. mine'[r] = mine[r] \cup {s.on} /\ todo'[r] = Tail(todo[r])
      BY <1>7, <2>3 DEF Apply, Writes
    <3>3. s \in Plannable(snapshot[r]) /\ todo'[r] \in Seq(Plannable(snapshot[r]))
      BY <3>1, <3>2
    <3>4. \A a \in ACLs \cap mine'[r] : Moved(snapshot[r], a)
      BY <2>1, <3>2, <3>3 DEF Plannable
    <3>5. QED
      BY <2>1, <3>1, <3>3, <3>4
  <2>4. QED
    BY <2>2, <2>3
<1>8. ASSUME NEW r \in Runs, SetPassword(r) PROVE RightsPlanned'
  BY <1>8 DEF SetPassword, Writes, ACLs
<1>9. ASSUME NEW r \in Runs, Check(r) PROVE RightsPlanned'
  BY <1>9 DEF Check
<1>10. ASSUME NEW r \in Runs, Commit(r) PROVE RightsPlanned'
  BY <1>10 DEF Commit
<1>11. ASSUME NEW r \in Runs, BeginVerify(r) PROVE RightsPlanned'
  BY <1>11 DEF BeginVerify
<1>12. ASSUME NEW r \in Runs, Verify(r) PROVE RightsPlanned'
  BY <1>12 DEF Verify
<1>13. ASSUME NEW r \in Runs, Disconnect(r) PROVE RightsPlanned'
  BY <1>13 DEF Disconnect
<1>14. CASE UNCHANGED consoleVars
  BY <1>14 DEF consoleVars, txVars
<1>15. QED
  BY <1>1, <1>2, <1>3, <1>4, <1>5, <1>6, <1>7, <1>8, <1>9, <1>10, <1>11, <1>12, <1>13, <1>14
     DEF ConsoleNext, Step

\* Only a clean inspection leads to the commit.
LEMMA MovedStep ==
    ASSUME ProvisionTypeOK, OneProvisions, RightsPlanned, RightsMoved, [ConsoleNext]_consoleVars
    PROVE  RightsMoved'
<1> USE DEF ProvisionTypeOK, ConsoleTypeOK, Stages, InTransaction, InTxn, Goes, Snapshot, Changed, txVars,
        RightsMoved, Provisioning
<1>1. CASE Drift
  BY <1>1 DEF Drift
<1>2. ASSUME NEW r \in Runs, BeginTxn(r) PROVE RightsMoved'
  BY <1>2 DEF BeginTxn
<1>3. ASSUME NEW r \in Runs, Lock(r) PROVE RightsMoved'
  BY <1>3 DEF Lock
<1>4. ASSUME NEW r \in Runs, LockTimeout(r) PROVE RightsMoved'
  BY <1>4 DEF LockTimeout
<1>5. ASSUME NEW r \in Runs, Inspect(r) PROVE RightsMoved'
  BY <1>5 DEF Inspect
<1>6. ASSUME NEW r \in Runs, MakePlan(r) PROVE RightsMoved'
  <2>1. \A s \in Runs : stage'[s] = "committing" =>
           stage[s] = "committing" /\ mine'[s] = mine[s] /\ own'[s] = own[s] /\ foreign'[s] = foreign[s]
    BY <1>6 DEF MakePlan
  <2>2. QED
    BY <2>1
<1>7. ASSUME NEW r \in Runs, Apply(r) PROVE RightsMoved'
  <2>1. \A s \in Runs : stage'[s] = "committing" =>
           stage[s] = "committing" /\ mine'[s] = mine[s] /\ own'[s] = own[s] /\ foreign'[s] = foreign[s]
    BY <1>7 DEF Apply, Writes
  <2>2. QED
    BY <2>1
<1>8. ASSUME NEW r \in Runs, SetPassword(r) PROVE RightsMoved'
  <2>1. \A s \in Runs : stage'[s] = "committing" =>
           stage[s] = "committing" /\ mine'[s] = mine[s] /\ own'[s] = own[s] /\ foreign'[s] = foreign[s]
    BY <1>8 DEF SetPassword, Writes
  <2>2. QED
    BY <2>1
<1>9. ASSUME NEW r \in Runs, Check(r) PROVE RightsMoved'
  <2>1. UNCHANGED <<catalog, snapshot, own, mine, foreign>> /\ stage[r] = "checking"
        /\ \A s \in Runs : s # r => stage'[s] = stage[s]
    BY <1>9 DEF Check
  <2>2. PICK older : stage' = [stage EXCEPT ![r] = IF Clean(r, Seen(r, older)) THEN "committing" ELSE "failed"]
    BY <1>9 DEF Check
  <2>3. CASE ~ Clean(r, Seen(r, older))
    BY <2>1, <2>2, <2>3
  <2>4. CASE Clean(r, Seen(r, older))
    <3>1. /\ Cardinality(Versions(r, "function")) = 1
          /\ \A a \in ACLs : ~ PublicIn(r, Seen(r, older), a) /\ Approved \subseteq Direct(r, a)
      BY <2>4, SeenType, CleanFacts
    <3>2. ASSUME "function" \in mine[r] PROVE "function" \notin foreign[r]
      <4>1. SUFFICES ASSUME "function" \in foreign[r] PROVE FALSE
        OBVIOUS
      <4>2. Versions(r, "function") = {own[r]["function"], snapshot[r]["function"]}
        BY <3>2, <4>1 DEF Versions
      <4>3. PUBLIC \notin Direct(r, "function")
        BY <3>1 DEF PublicIn, ACLs
      <4>4. PUBLIC \in snapshot[r]["function"]
        BY <2>1, <3>2 DEF RightsPlanned, Moved, ACLs
      <4>5. QED
        BY <4>2, <4>3, <4>4 DEF Direct
    <3>3. \A a \in ACLs \cap mine[r] : a \notin foreign[r] => Direct(r, a) = own[r][a]
      BY DEF Direct, Versions
    <3>4. \A a \in ACLs \cap mine[r] : (a = "function" => a \notin foreign[r])
                                    /\ (a \notin foreign[r] => Approved \subseteq own[r][a])
      BY <3>1, <3>2, <3>3
    <3>5. QED
      BY <2>1, <3>4
  <2>5. QED
    BY <2>3, <2>4
<1>10. ASSUME NEW r \in Runs, Commit(r) PROVE RightsMoved'
  <2>1. stage[r] = "committing" /\ stage' = [stage EXCEPT ![r] = "committed"]
    BY <1>10 DEF Commit
  <2>2. \A s \in Runs : stage'[s] # "committing"
    BY <2>1 DEF OneProvisions
  <2>3. QED
    BY <2>2
<1>11. ASSUME NEW r \in Runs, BeginVerify(r) PROVE RightsMoved'
  BY <1>11 DEF BeginVerify
<1>12. ASSUME NEW r \in Runs, Verify(r) PROVE RightsMoved'
  BY <1>12 DEF Verify
<1>13. ASSUME NEW r \in Runs, Disconnect(r) PROVE RightsMoved'
  BY <1>13 DEF Disconnect
<1>14. CASE UNCHANGED consoleVars
  BY <1>14 DEF consoleVars, txVars
<1>15. QED
  BY <1>1, <1>2, <1>3, <1>4, <1>5, <1>6, <1>7, <1>8, <1>9, <1>10, <1>11, <1>12, <1>13, <1>14
     DEF ConsoleNext, Step

\* Only a clean verification leads to success.
LEMMA VerifiedStep ==
    ASSUME ProvisionTypeOK, SnapshotsFollowed, VerifiedClosed, [ConsoleNext]_consoleVars
    PROVE  VerifiedClosed'
<1> USE DEF ProvisionTypeOK, ConsoleTypeOK, Stages, InTransaction, InTxn, Goes, Snapshot, Changed, txVars,
        VerifiedClosed
<1>1. CASE Drift
  BY <1>1 DEF Drift
<1>2. ASSUME NEW r \in Runs, BeginTxn(r) PROVE VerifiedClosed'
  BY <1>2 DEF BeginTxn
<1>3. ASSUME NEW r \in Runs, Lock(r) PROVE VerifiedClosed'
  BY <1>3 DEF Lock
<1>4. ASSUME NEW r \in Runs, LockTimeout(r) PROVE VerifiedClosed'
  BY <1>4 DEF LockTimeout
<1>5. ASSUME NEW r \in Runs, Inspect(r) PROVE VerifiedClosed'
  BY <1>5 DEF Inspect
<1>6. ASSUME NEW r \in Runs, MakePlan(r) PROVE VerifiedClosed'
  BY <1>6 DEF MakePlan
<1>7. ASSUME NEW r \in Runs, Apply(r) PROVE VerifiedClosed'
  BY <1>7 DEF Apply, Writes
<1>8. ASSUME NEW r \in Runs, SetPassword(r) PROVE VerifiedClosed'
  BY <1>8 DEF SetPassword, Writes
<1>9. ASSUME NEW r \in Runs, Check(r) PROVE VerifiedClosed'
  BY <1>9 DEF Check
<1>10. ASSUME NEW r \in Runs, Commit(r) PROVE VerifiedClosed'
  BY <1>10 DEF Commit
<1>11. ASSUME NEW r \in Runs, BeginVerify(r) PROVE VerifiedClosed'
  BY <1>11 DEF BeginVerify
<1>12. ASSUME NEW r \in Runs, Verify(r) PROVE VerifiedClosed'
  <2> DEFINE view == [Seen(r, {}) EXCEPT !["reader"] = IF @ = NoReader THEN @ ELSE Password[r]]
  <2>1. UNCHANGED <<snapshot, mine>> /\ mine[r] = {} /\ \A s \in Runs : s # r => stage'[s] = stage[s]
    BY <1>12 DEF Verify, SnapshotsFollowed
  <2>2. stage'[r] = IF Clean(r, view) THEN "done" ELSE "failed"
    BY <1>12 DEF Verify
  <2>3. /\ Seen(r, {}) = snapshot[r] /\ snapshot[r] \in Catalogs
        /\ \A a \in ACLs : Direct(r, a) = snapshot[r][a]
    BY <2>1, FreshSees
  <2>4. view \in Catalogs /\ \A t \in Tuples \ {"reader"} : view[t] = snapshot[r][t]
    <3>1. (IF snapshot[r]["reader"] = NoReader THEN snapshot[r]["reader"] ELSE Password[r])
            \in ValueOf("reader")
      BY <2>3, CatalogTuples DEF ValueOf, ReaderPasswords
    <3>2. DOMAIN snapshot[r] = Tuples
      BY <2>3, CatalogTuples
    <3>3. view = [snapshot[r] EXCEPT !["reader"] =
                     IF snapshot[r]["reader"] = NoReader THEN snapshot[r]["reader"] ELSE Password[r]]
      BY <2>3, <3>2 DEF Tuples
    <3>4. QED
      BY <2>3, <3>1, <3>2, <3>3, CatalogChange DEF Tuples
  <2> HIDE DEF view
  <2>5. ASSUME Clean(r, view) PROVE \A t \in Tuples : Closed(t, snapshot[r][t])
    <3>1. /\ view["reviewed"] /\ view["reads"] /\ view["views"] = "right" /\ CONNECT \in Direct(r, "database")
          /\ Approved \subseteq view["logins"]
          /\ \A a \in ACLs : ~ PublicIn(r, view, a) /\ Direct(r, a) \subseteq Approved \cup {PUBLIC, CONNECT}
                             /\ Approved \subseteq Direct(r, a)
      BY <2>4, <2>5, CleanFacts
    <3>2. PUBLIC \notin snapshot[r]["database"] /\ PUBLIC \notin snapshot[r]["function"]
      BY <2>3, <2>4, <3>1 DEF PublicIn, ACLs, Tuples
    <3>3. CONNECT \notin snapshot[r]["function"]
      BY <2>3, CatalogTuples, RolesDistinct DEF Grantees
    <3>4. snapshot[r]["database"] = Approved \cup {CONNECT} /\ snapshot[r]["function"] = Approved
      <4>1. Direct(r, "database") = snapshot[r]["database"] /\ Direct(r, "function") = snapshot[r]["function"]
        BY <2>3 DEF ACLs
      <4>2. /\ snapshot[r]["database"] \subseteq Approved \cup {PUBLIC, CONNECT}
            /\ Approved \subseteq snapshot[r]["database"] /\ CONNECT \in snapshot[r]["database"]
        BY <3>1, <4>1 DEF ACLs
      <4>3. /\ snapshot[r]["function"] \subseteq Approved \cup {PUBLIC, CONNECT}
            /\ Approved \subseteq snapshot[r]["function"]
        BY <3>1, <4>1 DEF ACLs
      <4>4. snapshot[r]["database"] = Approved \cup {CONNECT}
        BY <3>2, <4>2
      <4>5. QED
        BY <3>2, <3>3, <4>3, <4>4
    <3>5. QED
      BY <2>4, <3>1, <3>4 DEF Closed, Tuples, ACLs
  <2>6. QED
    BY <2>1, <2>2, <2>5
<1>13. ASSUME NEW r \in Runs, Disconnect(r) PROVE VerifiedClosed'
  BY <1>13 DEF Disconnect
<1>14. CASE UNCHANGED consoleVars
  BY <1>14 DEF consoleVars, txVars
<1>15. QED
  BY <1>1, <1>2, <1>3, <1>4, <1>5, <1>6, <1>7, <1>8, <1>9, <1>10, <1>11, <1>12, <1>13, <1>14
     DEF ConsoleNext, Step

\* Every catalog a first run may meet.
LEMMA BoundaryInvInit == ConsoleInit => BoundaryInv
<1> SUFFICES ASSUME ConsoleInit PROVE BoundaryInv
  OBVIOUS
<1> USE DEF ConsoleInit
<1>1. catalog \in Catalogs /\ catalog["reader"] \in ReaderPasswords \cup {NoReader}
  BY DEF Catalogs, Grantees
<1>2. ProvisionTypeOK
  <2>1. catalog["reader"] # NoPassword
    BY <1>1, PasswordsSet DEF NoReader, NoPassword
  <2>2. todo \in [Runs -> Seq(Statements)]
    BY EmptySeq
  <2>3. QED
    BY <1>1, <2>1, <2>2, ConsoleBounds DEF ProvisionTypeOK, ConsoleTypeOK, Stages, Tuples
<1>3. OneProvisions /\ SnapshotsFollowed /\ ReaderKept /\ RightsPlanned /\ RightsMoved /\ VerifiedClosed
  BY DEF OneProvisions, SnapshotsFollowed, ReaderKept, RightsPlanned, RightsMoved,
     VerifiedClosed, Provisioning,
     InTransaction
<1>4. QED
  BY <1>2, <1>3 DEF BoundaryInv

\* The whole invariant is kept.
LEMMA BoundaryInvStep == BoundaryInv /\ [ConsoleNext]_consoleVars => BoundaryInv'
  BY ProvisionTypeStep, OneStep, FollowedStep, ReaderStep, PlannedStep, MovedStep,
     VerifiedStep DEF BoundaryInv

\* And so it holds.
LEMMA BoundaryInvariant == ConsoleSpec => []BoundaryInv
  BY BoundaryInvInit, BoundaryInvStep, PTL DEF ConsoleSpec

\* The catalog and what each run knows of it keep their types, and no reader without
\* a password is ever committed (Apply, SetPassword, Commit).
THEOREM BoundaryTypeCorrect == ConsoleSpec => []ConsoleTypeOK
<1>1. BoundaryInv => ConsoleTypeOK
  BY DEF BoundaryInv, ProvisionTypeOK
<1>2. QED
  BY <1>1, BoundaryInvariant, PTL

\* However many runs, lost connections and changes by others there were: a run that
\* succeeded leaves the reviewed boundary and its own password, except on a tuple
\* that somebody changed after its verification began (main, provision).
THEOREM BoundaryHolds == ConsoleSpec => []DoneBoundaryHolds
<1>1. BoundaryInv => DoneBoundaryHolds
  <2> SUFFICES ASSUME BoundaryInv, NEW r \in Runs, stage[r] = "done"
               PROVE  catalog["reader"] = Password[r] /\ \A t \in Tuples \ foreign[r] : Closed(t, catalog[t])
    BY DEF DoneBoundaryHolds
  <2>1. catalog["reader"] = Password[r]
    BY DEF BoundaryInv, ReaderKept
  <2>2. \A t \in Tuples \ foreign[r] : catalog[t] = snapshot[r][t]
    BY DEF BoundaryInv, SnapshotsFollowed
  <2>3. \A t \in Tuples : Closed(t, snapshot[r][t])
    BY DEF BoundaryInv, VerifiedClosed
  <2>4. QED
    BY <2>1, <2>2, <2>3
<1>2. QED
  BY <1>1, BoundaryInvariant, PTL

\* Only its commit takes a run there.

LEMMA OnlyCommitCommits ==
    ASSUME ProvisionTypeOK, [ConsoleNext]_consoleVars, NEW r \in Runs, Commits(r) PROVE Commit(r)
<1> USE DEF ProvisionTypeOK, ConsoleTypeOK, Goes, Snapshot, Commits
<1>1. CASE Drift
  BY <1>1 DEF Drift
<1>2. ASSUME NEW s \in Runs, Step(s), ~ Commit(s) PROVE stage'[r] = "committed" => stage[r] = "committed"
  <2>1. CASE BeginTxn(s) \/ Lock(s) \/ LockTimeout(s) \/ Inspect(s) \/ BeginVerify(s) \/ Verify(s) \/ Disconnect(s)
    BY <2>1 DEF BeginTxn, Lock, LockTimeout, Inspect, BeginVerify, Verify, Disconnect
  <2>2. CASE MakePlan(s) \/ Apply(s) \/ SetPassword(s) \/ Check(s)
    BY <2>2 DEF MakePlan, Apply, SetPassword, Check
  <2>3. QED
    BY <1>2, <2>1, <2>2 DEF Step
<1>3. ASSUME NEW s \in Runs, Commit(s) PROVE Commit(r)
  BY <1>3 DEF Commit
<1>4. CASE UNCHANGED consoleVars
  BY <1>4 DEF consoleVars
<1>5. QED
  BY <1>1, <1>2, <1>3, <1>4 DEF ConsoleNext

\* No commit takes a right from an approved role or gives it one it did not have: the
\* lock, the snapshot behind the plan and the inspection before the commit together
\* see to it (inspect_temp, inspect_functions, provision).
THEOREM RightsStayKept == ConsoleSpec => RightsKept
<1>1. ASSUME BoundaryInv, [ConsoleNext]_consoleVars, NEW r \in Runs, Commits(r), NEW a \in ACLs,
             a = "function" \/ a \notin foreign[r], NEW g \in Approved
      PROVE  HasRight(catalog, a, g) <=> HasRight(catalog', a, g)
  <2>1. stage[r] = "committing" /\ catalog' = Newest(r)
    BY <1>1, OnlyCommitCommits DEF BoundaryInv, Commit
  <2>2. CASE a \notin mine[r]
    BY <2>1, <2>2 DEF Newest, HasRight, Tuples
  <2>3. CASE a \in mine[r]
    <3>1. a \notin foreign[r] /\ Approved \subseteq own[r][a]
      BY <1>1, <2>1, <2>3 DEF BoundaryInv, RightsMoved
    <3>2. catalog[a] = snapshot[r][a]
      <4>1. a \in Tuples \ foreign[r] /\ InTxn(r)
        BY <1>1, <2>1, <3>1 DEF Tuples, InTxn, InTransaction
      <4>2. QED
        BY <1>1, <4>1 DEF BoundaryInv, SnapshotsFollowed
    <3>3. PUBLIC \in snapshot[r][a] \/ Approved \subseteq snapshot[r][a]
      BY <1>1, <2>1, <2>3 DEF BoundaryInv, RightsPlanned, Moved
    <3>4. catalog'[a] = own[r][a]
      BY <2>1, <2>3 DEF Newest, Tuples
    <3>5. QED
      BY <3>1, <3>2, <3>3, <3>4 DEF HasRight
  <2>4. QED
    BY <2>2, <2>3
<1>2. BoundaryInv /\ [ConsoleNext]_consoleVars =>
        [\A r \in Runs : Commits(r) =>
            \A a \in ACLs : a = "function" \/ a \notin foreign[r] =>
                \A g \in Approved : HasRight(catalog, a, g) <=> HasRight(catalog', a, g)]_consoleVars
  BY <1>1
<1>3. QED
  BY <1>2, BoundaryInvariant, PTL DEF ConsoleSpec, RightsKept

=============================================================================
