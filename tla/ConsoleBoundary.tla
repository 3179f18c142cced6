--------------------------- MODULE ConsoleBoundary ---------------------------
(***************************************************************************)
(* The provisioner of the SQL console's database boundary                  *)
(* (ansible/roles/uranus_admin/library/uranus_sql_console.py): one         *)
(* REPEATABLE READ transaction under an advisory lock that inspects the    *)
(* catalogs, applies the planned statements, inspects again and commits    *)
(* only when nothing is left to do, followed by a read-only verification   *)
(* in a transaction of its own (tasks/sql_console_provision.yml).          *)
(*                                                                         *)
(* The catalog is a function from tuples to their newest committed value:  *)
(* the ACLs of the database and of one restricted function, the reader     *)
(* role, the console views, the reader's source grants, the login roles,   *)
(* and whether everything else is as the contract records it ("reviewed":  *)
(* extensions, function definitions, memberships, owners, RLS, foreign     *)
(* grants), which is only ever compared. The owner role, which cannot log  *)
(* in, goes with the views it owns.                                        *)
(*                                                                         *)
(* What a statement sees. Queries on the catalogs read the snapshot of the *)
(* transaction, which is taken by its first query: the one that waits for  *)
(* the advisory lock. has_database_privilege and has_function_privilege,   *)
(* and the statements that change a tuple, read its newest version. A      *)
(* tuple that somebody else changed after the snapshot and this            *)
(* transaction then changed again is visible in both versions, in an order *)
(* that the placement of rows in the page decides.                         *)
(***************************************************************************)
EXTENDS Naturals, FiniteSets, Sequences, SequencesExt

CONSTANTS
    Runs,       \* provisioning runs, of one or more controllers
    Approved,   \* login roles whose rights the contract preserves
    Others,     \* login roles the contract does not know
    Password,   \* the reader password each run's environment holds
    MaxDrift,   \* bound: catalog changes by others
    MaxCuts,    \* bound: runs that lose their connection
    PUBLIC,     \* the grantee 0
    READER,     \* uranus_console_reader
    CONNECT,    \* stands in the database's ACL for the reader's CONNECT
    NoRun       \* somebody who is no provisioning run

ASSUME RolesDistinct ==
    /\ Approved \cap Others = {}
    /\ {PUBLIC, READER, CONNECT} \cap (Approved \cup Others) = {}
    /\ PUBLIC # READER /\ CONNECT \notin {PUBLIC, READER}
ASSUME SomebodyElse == NoRun \notin Runs
ASSUME ConsoleBounds == MaxDrift \in Nat /\ MaxCuts \in Nat

VARIABLES
    catalog,  \* newest committed value of each tuple
    stage,    \* where each run stands
    snapshot, \* the catalog as the run's transaction sees it
    own,      \* values the run's transaction wrote
    mine,     \* tuples it wrote
    foreign,  \* tuples others changed since its snapshot
    todo,     \* planned statements still to execute
    created,  \* READER not in self.ids: the reader is of this run's making
    drift,    \* catalog changes by others so far
    cuts      \* lost connections so far

txVars == <<snapshot, own, mine, foreign, todo, created>>
consoleVars == <<catalog, stage, txVars, drift, cuts>>

ACLs == {"database", "function"}
Tuples == ACLs \cup {"reader", "views", "reads", "logins", "reviewed"}
Grantees == {PUBLIC, READER} \cup Approved \cup Others
ReaderPasswords == {Password[r] : r \in Runs}
NoReader == "absent"     \* there is no reader role
NoPassword == "unset"    \* just created, its password not yet set
ASSUME PasswordsSet == {NoReader, NoPassword} \cap ReaderPasswords = {}
Catalogs ==
    [database : SUBSET (Grantees \cup {CONNECT}),
     function : SUBSET Grantees,
     reader : ReaderPasswords \cup {NoReader, NoPassword},
     views : {"absent", "stale", "right"},
     reads : BOOLEAN,
     logins : SUBSET (Approved \cup Others),
     reviewed : BOOLEAN]

InTransaction == {"waiting", "inspecting", "planning", "applying", "checking", "committing"}
InTxn(r) == stage[r] \in InTransaction

----------------------------------------------------------------------------
\* What a run sees.

\* The newest version of every tuple, its own included.
Newest(r) == [t \in Tuples |-> IF t \in mine[r] THEN own[r][t] ELSE catalog[t]]

\* The versions of a tuple that its queries return, and the catalog as a
\* query shows it that takes one row, the older where older says so.
Versions(r, t) ==
    IF t \notin mine[r] THEN {snapshot[r][t]}
    ELSE {own[r][t]} \cup (IF t \in foreign[r] THEN {snapshot[r][t]} ELSE {})
Seen(r, older) ==
    [t \in Tuples |-> IF t \in mine[r] /\ ~ (t \in foreign[r] \cap older)
                      THEN own[r][t] ELSE snapshot[r][t]]

\* Login roles with an effective right, not counting superusers and owners.
Consumers(c, a) ==
    {g \in c["logins"] \cup (IF c["reader"] = NoReader THEN {} ELSE {READER}) :
        {PUBLIC, g} \cap c[a] # {}}

\* inspect_temp and the loop over restricted functions: "direct" holds the
\* grantees of every visible version, "public" is that of the row taken first.
Missing(direct) == Approved \ direct
GrantIssues(view, direct, public, newest, a) ==
    LET used == {g \in Consumers(newest, a) : g = READER \/ g \in view["logins"]}
        permitted == Approved \cup (IF public THEN {READER} ELSE {})
    IN \/ ~ Approved \subseteq view["logins"]
       \/ ~ direct \subseteq Approved \cup {PUBLIC, CONNECT}
       \/ ~ used \subseteq permitted
       \/ ~ public /\ Missing(direct) # {}

\* The rows of pg_proc are counted and compared with the contract, so that a
\* function visible twice is not reviewed (inspect_functions).
Reviewed(r, view) == view["reviewed"] /\ Cardinality(Versions(r, "function")) = 1

PasswordIssue(r, view) == view["reader"] \notin {NoReader, Password[r]}

Direct(r, a) == UNION Versions(r, a)
PublicIn(r, view, a) ==
    IF a = "database" THEN PUBLIC \in view[a] ELSE PUBLIC \in Direct(r, a)

Blocked(r, view) ==
    \/ ~ Reviewed(r, view)
    \/ PasswordIssue(r, view)
    \/ \E a \in ACLs : GrantIssues(view, Direct(r, a), PublicIn(r, view, a), Newest(r), a)

\* self.actions, in the order they are planned. The GRANT and REVOKE of one
\* right write one tuple, which nobody else can change in between.
Statement(op, on, to) == [op |-> op, on |-> on, to |-> to]
Unless(done, statements) == IF done THEN <<>> ELSE statements
AclPlan(r, view, a) ==
    LET missing == Missing(Direct(r, a))
    IN Unless(~ PublicIn(r, view, a),
              Unless(missing = {}, <<Statement("grant", a, missing)>>)
              \o <<Statement("revoke", a, {PUBLIC})>>)
ReaderPlan(view) == Unless(view["reader"] # NoReader, <<Statement("create", "reader", {})>>)
ConnectPlan(r) == Unless(CONNECT \in Direct(r, "database"), <<Statement("grant", "database", {CONNECT})>>)
ReadsPlan(view) == Unless(view["reads"], <<Statement("allow", "reads", {})>>)
ViewsPlan(view) ==
    Unless(view["views"] = "right",
           <<Statement(IF view["views"] = "absent" THEN "create" ELSE "replace", "views", {})>>)
Plan(r, view) ==
    AclPlan(r, view, "database") \o ReaderPlan(view) \o AclPlan(r, view, "function")
    \o ConnectPlan(r) \o ReadsPlan(view) \o ViewsPlan(view)

\* CREATE ROLE and CREATE VIEW fail on what exists by now, all else does not.
Fails(r, s) ==
    /\ s.op = "create"
    /\ Newest(r)[s.on] # (IF s.on = "reader" THEN NoReader ELSE "absent")
Result(r, s) ==
    CASE s.op = "grant" -> Newest(r)[s.on] \cup s.to
      [] s.op = "revoke" -> Newest(r)[s.on] \ s.to
      [] s.op = "allow" -> TRUE
      [] s.on = "reader" -> NoPassword
      [] s.on = "views" -> "right"
Writes(r, t, value) ==
    /\ mine' = [mine EXCEPT ![r] = @ \cup {t}]
    /\ own' = [own EXCEPT ![r][t] = value]

----------------------------------------------------------------------------
ConsoleInit ==
    /\ catalog \in
         [database : {{PUBLIC}, {PUBLIC} \cup Approved, Approved \cup {CONNECT}},
          function : {{PUBLIC}, Approved},
          reader : ReaderPasswords \cup {NoReader},
          views : {"absent", "stale", "right"},
          reads : BOOLEAN,
          logins : {Approved},
          reviewed : {TRUE}]
    /\ stage = [r \in Runs |-> "idle"]
    /\ snapshot = [r \in Runs |-> catalog]
    /\ own = [r \in Runs |-> catalog]
    /\ mine = [r \in Runs |-> {}]
    /\ foreign = [r \in Runs |-> {}]
    /\ todo = [r \in Runs |-> <<>>]
    /\ created = [r \in Runs |-> FALSE]
    /\ drift = 0
    /\ cuts = 0

Goes(r, where) == stage' = [stage EXCEPT ![r] = where]

\* The first query of the transaction is the one that waits for the lock.
Snapshot(r, where) ==
    /\ snapshot' = [snapshot EXCEPT ![r] = catalog]
    /\ mine' = [mine EXCEPT ![r] = {}]
    /\ foreign' = [foreign EXCEPT ![r] = {}]
    /\ Goes(r, where)
    /\ UNCHANGED <<catalog, own, todo, created, drift, cuts>>

BeginTxn(r) == stage[r] = "idle" /\ Snapshot(r, "waiting")

\* pg_advisory_xact_lock, held to the end of the transaction.
Lock(r) ==
    /\ stage[r] = "waiting"
    /\ \A s \in Runs : ~ InTxn(s) \/ stage[s] = "waiting"
    /\ Goes(r, "inspecting")
    /\ UNCHANGED <<catalog, txVars, drift, cuts>>

\* lock_timeout, after two seconds.
LockTimeout(r) ==
    /\ stage[r] = "waiting"
    /\ \E s \in Runs : InTxn(s) /\ stage[s] # "waiting"
    /\ Goes(r, "failed")
    /\ UNCHANGED <<catalog, txVars, drift, cuts>>

\* main: the inspection that makes the report.
Inspect(r) ==
    /\ stage[r] = "inspecting"
    /\ Goes(r, IF Blocked(r, Seen(r, {})) THEN "failed" ELSE "planning")
    /\ UNCHANGED <<catalog, txVars, drift, cuts>>

\* provision: the inspection whose actions are executed.
MakePlan(r) ==
    /\ stage[r] = "planning"
    /\ IF Blocked(r, Seen(r, {}))
       THEN Goes(r, "failed") /\ UNCHANGED <<todo, created>>
       ELSE /\ todo' = [todo EXCEPT ![r] = Plan(r, Seen(r, {}))]
            /\ created' = [created EXCEPT ![r] = Seen(r, {})["reader"] = NoReader]
            /\ Goes(r, "applying")
    /\ UNCHANGED <<catalog, snapshot, own, mine, foreign, drift, cuts>>

Apply(r) ==
    /\ stage[r] = "applying"
    /\ todo[r] # <<>>
    /\ LET s == Head(todo[r])
       IN IF Fails(r, s)
          THEN Goes(r, "failed") /\ UNCHANGED <<own, mine, todo>>
          ELSE /\ Writes(r, s.on, Result(r, s))
               /\ todo' = [todo EXCEPT ![r] = Tail(@)]
               /\ UNCHANGED stage
    /\ UNCHANGED <<catalog, snapshot, foreign, created, drift, cuts>>

\* The password of a reader this run created; an existing one is never rotated.
SetPassword(r) ==
    /\ stage[r] = "applying"
    /\ todo[r] = <<>>
    /\ IF created[r] THEN Writes(r, "reader", Password[r]) ELSE UNCHANGED <<own, mine>>
    /\ Goes(r, "checking")
    /\ UNCHANGED <<catalog, snapshot, foreign, todo, created, drift, cuts>>

\* Mutant: what is left to do is not asked for.
CleanUnplanned(r, view) == ~ Blocked(r, view)

\* The inspection after the last statement: nothing blocked, nothing left to do.
Clean(r, view) == ~ Blocked(r, view) /\ Plan(r, view) = <<>>
Check(r) ==
    /\ stage[r] = "checking"
    /\ \E older \in SUBSET (mine[r] \cap foreign[r]) :
          Goes(r, IF Clean(r, Seen(r, older)) THEN "committing" ELSE "failed")
    /\ UNCHANGED <<catalog, txVars, drift, cuts>>

\* Others see what somebody else changed after their snapshot.
Changed(tuples, by) == foreign' = [s \in Runs |-> IF s = by THEN foreign[s] ELSE foreign[s] \cup tuples]
Commit(r) ==
    /\ stage[r] = "committing"
    /\ catalog' = Newest(r)
    /\ Changed(mine[r], r)
    /\ Goes(r, "committed")
    /\ UNCHANGED <<snapshot, own, mine, todo, created, drift, cuts>>

\* state=verify: a read-only transaction of its own, without the password.
BeginVerify(r) == stage[r] = "committed" /\ Snapshot(r, "verifying")
Verify(r) ==
    /\ stage[r] = "verifying"
    /\ LET view == [Seen(r, {}) EXCEPT !["reader"] = IF @ = NoReader THEN @ ELSE Password[r]]
       IN Goes(r, IF Clean(r, view) THEN "done" ELSE "failed")
    /\ UNCHANGED <<catalog, txVars, drift, cuts>>

\* A lost connection or a killed module: the server rolls back.
Disconnect(r) ==
    /\ InTxn(r) \/ stage[r] = "verifying"
    /\ cuts < MaxCuts
    /\ cuts' = cuts + 1
    /\ Goes(r, "failed")
    /\ UNCHANGED <<catalog, txVars, drift>>

\* Somebody else changes a tuple; writers of one tuple wait for each other.
DriftOf(t) ==
    IF t \in ACLs
    THEN {catalog[t] \cup {g} : g \in Grantees \ {READER}} \cup {catalog[t] \ {g} : g \in Grantees}
    ELSE IF t = "logins" THEN {catalog[t] \cup {g} : g \in Others} ELSE BOOLEAN
Drift ==
    /\ drift < MaxDrift
    /\ \E t \in ACLs \cup {"logins", "reviewed"} :
          /\ \A r \in Runs : InTxn(r) => t \notin mine[r]
          /\ \E value \in DriftOf(t) \ {catalog[t]} : catalog' = [catalog EXCEPT ![t] = value]
          /\ Changed({t}, NoRun)
    /\ drift' = drift + 1
    /\ UNCHANGED <<stage, snapshot, own, mine, todo, created, cuts>>

Step(r) ==
    \/ BeginTxn(r) \/ Lock(r) \/ LockTimeout(r) \/ Inspect(r) \/ MakePlan(r) \/ Apply(r)
    \/ SetPassword(r) \/ Check(r) \/ Commit(r) \/ BeginVerify(r) \/ Verify(r) \/ Disconnect(r)
ConsoleNext == Drift \/ \E r \in Runs : Step(r)
ConsoleSpec == ConsoleInit /\ [][ConsoleNext]_consoleVars

----------------------------------------------------------------------------
Stages == InTransaction \cup {"idle", "committed", "verifying", "done", "failed"}

\* Every variable has its type. A reader without a password is never committed.
ConsoleTypeOK ==
    /\ catalog \in Catalogs
    /\ catalog["reader"] # NoPassword
    /\ stage \in [Runs -> Stages]
    /\ snapshot \in [Runs -> Catalogs]
    /\ own \in [Runs -> Catalogs]
    /\ mine \in [Runs -> SUBSET Tuples]
    /\ foreign \in [Runs -> SUBSET Tuples]
    /\ created \in [Runs -> BOOLEAN]
    /\ drift \in 0 .. MaxDrift /\ cuts \in 0 .. MaxCuts

Closed(t, value) ==
    CASE t = "database" -> value = Approved \cup {CONNECT}
      [] t = "function" -> value = Approved
      [] t = "views" -> value = "right"
      [] t \in {"reads", "reviewed"} -> value
      [] t = "logins" -> Approved \subseteq value
      [] t = "reader" -> TRUE

\* A run that succeeded leaves the reviewed boundary, except where somebody
\* changed a tuple after its verification began: PUBLIC and the reader can
\* neither create temporary objects nor call restricted functions, every
\* approved role can, and the reader has the password of this run, so that two
\* runs with different passwords never both succeed (main, provision).
DoneBoundaryHolds ==
    \A r \in Runs : stage[r] = "done" =>
        /\ catalog["reader"] = Password[r]
        /\ \A t \in Tuples \ foreign[r] : Closed(t, catalog[t])

HasRight(c, a, g) == {PUBLIC, g} \cap c[a] # {}
Commits(r) == stage[r] = "committing" /\ stage'[r] = "committed"

\* Moving a right from PUBLIC to the approved roles takes it from none of them
\* and gives it to none that a concurrent hardening had just left without it,
\* though the plan is made from a snapshot older than the lock: the inspection
\* before the commit is what notices ("Never create rights that no longer exist
\* in a manually hardened DB"). Of the database's ACL this is claimed only when
\* nobody changed it after the snapshot: inspect_temp unites the grantees of
\* both versions and takes PUBLIC from either.
RightsKept ==
    [][\A r \in Runs : Commits(r) =>
          \A a \in ACLs : a = "function" \/ a \notin foreign[r] =>
              \A g \in Approved : HasRight(catalog, a, g) <=> HasRight(catalog', a, g)]_consoleVars
=============================================================================
