--------------------------- MODULE MCAdministration ---------------------------
(* The stores of the administration, the jobs that fill its index and areas,  *)
(* and the parts of its deployment, side by side: they share no state, so in  *)
(* each behaviour one of them moves and the others rest in an initial state.  *)
EXTENDS AuthSessions, CursorPages, ConsoleBoundary, AdminDatabase, Activation,
    ReleaseControl, VectorSync, AreaImport, TLC

CONSTANTS
    run1, run2, c1, c2, o1, o2, backend, frontend, lxd, local, v1, v2, q1, q2, p1, p2, r1, r2,
    d1, d2, x1, x2, k1, k2, g1, g2, i1, i2

\* Two controllers whose environments hold different reader passwords.
TwoPasswords == (run1 :> "secret" @@ run2 :> "other")

VARIABLE part
jobVars == <<vectorVars, areaVars>>
administrationVars ==
    <<vars, pageVars, consoleVars, databaseVars, activationVars, releaseVars, jobVars,
      part>>

SessionsRest == account.password = CHOOSE p \in Passwords : TRUE
PagesRest == stream = "timeline" /\ rows = <<>>
ConsoleRests ==
    catalog = [database |-> {PUBLIC}, function |-> {PUBLIC}, reader |-> NoReader,
               views |-> "absent", reads |-> FALSE, logins |-> Approved, reviewed |-> TRUE]
DatabaseRests == schema = "absent" /\ ~ roles
HostRests == ~ page /\ \A f \in Files : file[f] = "absent"
ReleaseRests == ~ confirmed /\ \A c \in {main, pin[APPROVALS].commit} : c = CHOOSE d \in Revisions : TRUE
VectorsRest ==
    /\ encoder = CHOOSE e \in Encoders : TRUE
    /\ \A d \in Documents : source[d].stamp = CHOOSE s \in Stamps : TRUE

AdministrationInit ==
    /\ part \in {"sessions", "pages", "console", "database", "host", "release", "vectors", "areas"}
    /\ Init /\ (part # "sessions" => SessionsRest)
    /\ PagesInit /\ (part # "pages" => PagesRest)
    /\ ConsoleInit /\ (part # "console" => ConsoleRests)
    /\ DatabaseInit /\ (part # "database" => DatabaseRests)
    /\ ActivationInit /\ (part # "host" => HostRests)
    /\ ReleaseInit /\ (part # "release" => ReleaseRests)
    /\ VectorsInit /\ (part # "vectors" => VectorsRest)
    /\ AreasInit
BackendNext ==
    /\ UNCHANGED <<part, consoleVars, databaseVars, activationVars, releaseVars, jobVars>>
    /\ \/ part = "sessions" /\ Next /\ UNCHANGED pageVars
       \/ part = "pages" /\ PagesNext /\ UNCHANGED vars
DeploymentNext ==
    /\ UNCHANGED <<part, vars, pageVars, jobVars>>
    /\ \/ part = "console" /\ ConsoleNext /\ UNCHANGED <<databaseVars, activationVars, releaseVars>>
       \/ part = "database" /\ DatabaseNext /\ UNCHANGED <<consoleVars, activationVars, releaseVars>>
       \/ part = "host" /\ ActivationNext /\ UNCHANGED <<consoleVars, databaseVars, releaseVars>>
       \/ part = "release" /\ ReleaseNext /\ UNCHANGED <<consoleVars, databaseVars, activationVars>>
JobsNext ==
    /\ UNCHANGED <<part, vars, pageVars, consoleVars, databaseVars, activationVars, releaseVars>>
    /\ \/ part = "vectors" /\ VectorsNext /\ UNCHANGED areaVars
       \/ part = "areas" /\ AreasNext /\ UNCHANGED vectorVars
AdministrationNext == BackendNext \/ DeploymentNext \/ JobsNext
AdministrationSpec == AdministrationInit /\ [][AdministrationNext]_administrationVars

\* What no step and no property reads any more is left out of the states that are
\* told apart: the transaction of a provisioning run that has none; what an
\* activation that ended has attempted and, unless it ended well, found; and of what
\* systemd had loaded before, all but whether it was installed.
OfTransaction(r) ==
    CASE InTxn(r) \/ stage[r] = "verifying" ->
             <<snapshot[r], own[r], mine[r], foreign[r], todo[r], created[r]>>
      [] stage[r] = "done" -> foreign[r]
      [] OTHER -> {}
OfAttempt(value, kept, rest) == IF at \in kept THEN value ELSE rest
Found == [before EXCEPT !.loaded = AsInstalled]
View ==
    <<vars, pageVars, catalog, stage, [r \in Runs |-> OfTransaction(r)], drift, cuts,
      databaseVars, releaseVars, jobVars, part, hostVars, countVars, at,
      OfAttempt(<<flags, upgrade>>, Activating \cup Recovering \cup {"deciding"}, {}),
      OfAttempt(<<target, Found>>, Activating \cup Recovering \cup {"deciding", "done", "recovered"}, before.run)>>

\* Only one part moves, so one symmetry may exchange members of a set of each,
\* unless they differ in the state in which their part rests.
Exchanged ==
    c1 :> c2 @@ c2 :> c1 @@ o1 :> o2 @@ o2 :> o1 @@ q1 :> q2 @@ q2 :> q1 @@ r1 :> r2 @@ r2 :> r1
    @@ d1 :> d2 @@ d2 :> d1 @@ k1 :> k2 @@ k2 :> k1
AlsoExchanged ==
    backend :> frontend @@ frontend :> backend @@ lxd :> local @@ local :> lxd
    @@ x1 :> x2 @@ x2 :> x1 @@ g1 :> g2 @@ g2 :> g1 @@ i1 :> i2 @@ i2 :> i1
ExchangedToo == p1 :> p2 @@ p2 :> p1
Symmetry == {Exchanged} \cup {AlsoExchanged} \cup {ExchangedToo}
=============================================================================
