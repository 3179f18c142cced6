------------------------------- MODULE WebProofs -------------------------------
(***************************************************************************)
(* Proofs about the web application: which sessions are accepted, which    *)
(* are kept, and that a dead one stays dead (AuthSessions), for any number *)
(* of tokens, logins, requests and passwords and for any durations; that a *)
(* completed query is shown whole and none is orphaned (SqlConsole), for   *)
(* any number of queries, batches and slots.                               *)
(***************************************************************************)
EXTENDS AuthSessions, SqlConsole, TLAPS

USE Durations, AuthBounds, NoTokenAssumption

----------------------------------------------------------------------------
(* The inductive invariant.                                                *)

\* Until the account is created there is nothing of it.
NothingYet ==
    account.version = 0 =>
        /\ epoch = 0 /\ ~ account.active
        /\ \A l \in Logins : login[l].at = "idle"
        /\ \A t \in Tokens : session[t].state = "unused"

\* The version a login verified, and a session has, tells when that was.
VersionsTell ==
    /\ \A l \in Logins : login[l].at # "idle" => login[l].version = login[l].epoch + 1
    /\ \A t \in Tokens : Live(t) => session[t].version = opened[t] + 1

\* Nothing happened in the future.
TimesPassed ==
    /\ clock >= 1
    /\ \A l \in Logins : login[l].now <= clock
    /\ \A r \in Requests : request[r].now <= clock

\* A request is one of a session there was. The limits it was accepted under
\* still hold of the session, which is used no earlier than it was then.
Underway(r) == request[r].at # "idle" => request[r].token \in Tokens /\ session[request[r].token].state # "unused"
AcceptedInTime(r) ==
    LET t == request[r].token
    IN request[r].at = "accepted" /\ Live(t) =>
          session[t].created + Lifetime > request[r].now /\ session[t].seen + Idle > request[r].now
RequestsFit == \A r \in Requests : Underway(r) /\ AcceptedInTime(r)

UsesFit ==
    \A t \in Tokens : session[t].state = "unused" => used[t] = 0

AuthInv ==
    TypeOK /\ NothingYet /\ VersionsTell /\ TimesPassed /\ RequestsFit /\ UsesFit /\ KeptAlive

----------------------------------------------------------------------------
(* What the operations make of a row, as records.                          *)

LEMMA SessionRecord ==
    ASSUME NEW s \in Session
    PROVE  s = [state |-> s.state, version |-> s.version, created |-> s.created,
                seen |-> s.seen, revoked |-> s.revoked]
  BY DEF Session

LEMMA SessionOf ==
    ASSUME NEW st \in {"unused", "live", "gone"}, NEW v \in 0 .. MaxVersion,
           NEW c \in Times, NEW s \in Times, NEW r \in Times
    PROVE  [state |-> st, version |-> v, created |-> c, seen |-> s, revoked |-> r] \in Session
  BY DEF Session

\* A session that is revoked now.
RevokedNow(s) == [s EXCEPT !.revoked = clock]
LEMMA RevokedRow ==
    ASSUME NEW s \in Session, clock \in Times, NEW n, n = RevokedNow(s)
    PROVE  /\ n \in Session /\ n.revoked = clock
           /\ n.state = s.state /\ n.version = s.version /\ n.created = s.created /\ n.seen = s.seen
<1>1. n = [state |-> s.state, version |-> s.version, created |-> s.created,
           seen |-> s.seen, revoked |-> clock]
  BY SessionRecord DEF RevokedNow
<1>2. n \in Session
  <2>1. /\ s.state \in {"unused", "live", "gone"} /\ s.version \in 0 .. MaxVersion
        /\ s.created \in Times /\ s.seen \in Times
    BY DEF Session
  <2>2. QED
    BY <1>1, <2>1, SessionOf
<1>3. QED
  BY <1>1, <1>2

\* One that a request used.
SeenAt(s, now) == [s EXCEPT !.seen = now]
LEMMA SeenRow ==
    ASSUME NEW s \in Session, NEW now \in Times, NEW n, n = SeenAt(s, now)
    PROVE  /\ n \in Session /\ n.seen = now
           /\ n.state = s.state /\ n.version = s.version /\ n.created = s.created
           /\ n.revoked = s.revoked
<1>1. n = [state |-> s.state, version |-> s.version, created |-> s.created,
           seen |-> now, revoked |-> s.revoked]
  BY SessionRecord DEF SeenAt
<1>2. n \in Session
  <2>1. /\ s.state \in {"unused", "live", "gone"} /\ s.version \in 0 .. MaxVersion
        /\ s.created \in Times /\ s.revoked \in Times
    BY DEF Session
  <2>2. QED
    BY <1>1, <2>1, SessionOf
<1>3. QED
  BY <1>1, <1>2

\* One that the retention job deleted.
LEMMA GoneRow ==
    ASSUME NEW n, n = [NoSession EXCEPT !.state = "gone"]
    PROVE  /\ n \in Session /\ n.state = "gone" /\ n.seen = 0 /\ n.revoked = 0
<1>1. n = [state |-> "gone", version |-> 0, created |-> 0, seen |-> 0, revoked |-> 0]
  BY DEF NoSession
<1>2. n \in Session
  <2>1. 0 \in Times /\ 0 \in 0 .. MaxVersion /\ "gone" \in {"unused", "live", "gone"}
    BY DEF Times
  <2>2. [state |-> "gone", version |-> 0, created |-> 0, seen |-> 0, revoked |-> 0] \in Session
    BY <2>1 DEF Session
  <2>3. QED
    BY <1>1, <2>2
<1>3. QED
  BY <1>1, <1>2

LEMMA AccountOf ==
    ASSUME NEW v \in 0 .. MaxVersion, NEW p \in Passwords, NEW a \in BOOLEAN
    PROVE  [version |-> v, password |-> p, active |-> a] \in Account
  BY DEF Account

\* The account after a change.
LEMMA ManagedAccount ==
    ASSUME account \in Account, account.version < MaxVersion,
           NEW new \in NewAccounts, NEW n, n = [new EXCEPT !.version = @ + 1]
    PROVE  n \in Account /\ n.version = account.version + 1
<1>1. account = [version |-> account.version, password |-> account.password, active |-> account.active]
  BY DEF Account
<1>2. PICK p \in Passwords, a \in BOOLEAN :
         new = [version |-> account.version, password |-> p, active |-> a]
  <2>1. CASE \E p \in Passwords : new = [account EXCEPT !.password = p]
    BY <2>1, <1>1 DEF Account
  <2>2. CASE \E a \in BOOLEAN : new = [account EXCEPT !.active = a]
    BY <2>2, <1>1 DEF Account
  <2>3. QED
    BY <2>1, <2>2 DEF NewAccounts
<1>3. n = [version |-> account.version + 1, password |-> p, active |-> a]
  BY <1>2
<1>4. account.version + 1 \in 0 .. MaxVersion
  BY DEF Account
<1>5. n \in Account
  BY <1>3, <1>4, AccountOf
<1>6. QED
  BY <1>3, <1>5

----------------------------------------------------------------------------
LEMMA AuthInvInit == Init => AuthInv
<1> SUFFICES ASSUME Init PROVE AuthInv
  OBVIOUS
<1>1. 0 \in Times /\ 1 \in Times /\ 0 \in 0 .. MaxVersion
  BY DEF Times
<1>2. account \in Account /\ account.version = 0 /\ account.active = FALSE
  <2>1. PICK p \in Passwords : account = [version |-> 0, password |-> p, active |-> FALSE]
    BY DEF Init
  <2>2. account \in Account
    BY <1>1, <2>1, AccountOf
  <2>3. QED
    BY <2>1, <2>2
<1>3. NoSession \in Session /\ NoLogin \in Login /\ NoRequest \in Request
  BY <1>1 DEF NoSession, Session, NoLogin, Login, NoRequest, Request
<1>4. \A t \in Tokens : session[t].state = "unused" /\ session[t].seen = 0 /\ session[t].revoked = 0
  BY DEF Init, NoSession
<1>5. \A l \in Logins : login[l].at = "idle" /\ login[l].now = 0
  BY DEF Init, NoLogin
<1>6. \A r \in Requests : request[r].at = "idle" /\ request[r].now = 0
  BY DEF Init, NoRequest
<1>7. TypeOK
  BY <1>1, <1>2, <1>3, <1>4 DEF Init, TypeOK
<1>8. NothingYet /\ VersionsTell /\ TimesPassed
  BY <1>2, <1>4, <1>5, <1>6 DEF Init, NothingYet, VersionsTell, TimesPassed, Live
<1>9. RequestsFit /\ UsesFit /\ KeptAlive
  BY <1>4, <1>6 DEF Init, RequestsFit, Underway, AcceptedInTime, UsesFit, KeptAlive, Live
<1>10. QED
  BY <1>7, <1>8, <1>9 DEF AuthInv

----------------------------------------------------------------------------
(* The steps, by whom they are of.                                         *)

LEMMA TickInv ==
    ASSUME AuthInv, Tick PROVE AuthInv'
<1> USE DEF AuthInv
<1>1. clock' \in Times /\ clock' = clock + 1 /\ clock \in Nat
  BY DEF Tick, Times, TypeOK
<1>2. \A t \in Tokens : session[t].seen \in Nat /\ session[t].revoked \in Nat
  BY DEF TypeOK, Session, Times
<1>3. TypeOK'
  BY <1>1, <1>2 DEF Tick, TypeOK
<1>4. \A l \in Logins : login[l].now \in Nat
  BY DEF TypeOK, Login, Times
<1>5. \A r \in Requests : request[r].now \in Nat
  BY DEF TypeOK, Request, Times
<1>6. TimesPassed'
  BY <1>1, <1>4, <1>5 DEF Tick, TimesPassed
<1>7. NothingYet' /\ VersionsTell' /\ RequestsFit' /\ UsesFit' /\ KeptAlive'
  BY DEF Tick, NothingYet, VersionsTell, RequestsFit, Underway, AcceptedInTime, UsesFit, KeptAlive, Live
<1>8. QED
  BY <1>3, <1>6, <1>7

LEMMA CreateAuthInv ==
    ASSUME AuthInv, NEW p \in Passwords, NEW a \in BOOLEAN, Create(p, a)
    PROVE  AuthInv'
<1> USE DEF AuthInv
<1>1. account' \in Account /\ account'.version = 1
  BY DEF Create, Account
<1>2. epoch = 0 /\ \A l \in Logins : login[l].at = "idle"
  BY DEF Create, NothingYet
<1>3. TypeOK'
  BY <1>1, <1>2 DEF Create, TypeOK
<1>4. NothingYet' /\ VersionsTell'
  BY <1>1, <1>2 DEF Create, NothingYet, VersionsTell, Live
<1>5. TimesPassed' /\ RequestsFit' /\ UsesFit' /\ KeptAlive'
  BY DEF Create, TimesPassed, RequestsFit, Underway, AcceptedInTime, UsesFit, KeptAlive, Live
<1>6. QED
  BY <1>3, <1>4, <1>5

\* What a change of the account makes of the sessions.
LEMMA AllRevoked ==
    ASSUME AuthInv, NEW new \in NewAccounts, Manage(new)
    PROVE  /\ session' \in [Tokens -> Session]
           /\ \A t \in Tokens :
                 /\ session'[t].state = session[t].state /\ session'[t].version = session[t].version
                 /\ session'[t].created = session[t].created /\ session'[t].seen = session[t].seen
                 /\ session'[t].revoked = IF Live(t) THEN clock ELSE session[t].revoked
<1>1. session' = [t \in Tokens |-> IF Live(t) THEN RevokedNow(session[t]) ELSE session[t]]
  BY DEF Manage, RevokeAll, RevokedNow
<1>2. SUFFICES ASSUME NEW t \in Tokens
               PROVE  /\ session'[t] \in Session
                      /\ session'[t].state = session[t].state /\ session'[t].version = session[t].version
                      /\ session'[t].created = session[t].created /\ session'[t].seen = session[t].seen
                      /\ session'[t].revoked = IF Live(t) THEN clock ELSE session[t].revoked
  BY <1>1
<1>3. session[t] \in Session /\ clock \in Times
  BY DEF AuthInv, TypeOK
<1>4. CASE Live(t)
  <2>1. session'[t] = RevokedNow(session[t])
    BY <1>1, <1>4
  <2>2. QED
    BY <1>3, <1>4, <2>1, RevokedRow
<1>5. CASE ~ Live(t)
  BY <1>1, <1>3, <1>5
<1>6. QED
  BY <1>4, <1>5

LEMMA ManageInv ==
    ASSUME AuthInv, NEW new \in NewAccounts, Manage(new)
    PROVE  AuthInv'
<1> USE DEF AuthInv
<1>1. account.version = epoch + 1 /\ epoch' = epoch + 1 /\ epoch' \in 0 .. MaxVersion
  BY DEF Manage, TypeOK, Account
<1>2. account' \in Account /\ account'.version = account.version + 1
  <2>1. account \in Account /\ account.version < MaxVersion /\ account' = [new EXCEPT !.version = @ + 1]
    BY <1>1 DEF Manage, TypeOK
  <2>2. QED
    BY <2>1, ManagedAccount
<1>3. clock \in Nat /\ \A t \in Tokens : session[t].seen <= clock /\ session[t].revoked <= clock
  BY DEF TypeOK, Times
<1>4. TypeOK'
  BY <1>1, <1>2, <1>3, AllRevoked DEF Manage, TypeOK
<1>5. NothingYet' /\ VersionsTell'
  BY <1>1, <1>2, AllRevoked DEF Manage, NothingYet, VersionsTell, Live
<1>6. TimesPassed' /\ RequestsFit' /\ UsesFit'
  BY AllRevoked DEF Manage, TimesPassed, RequestsFit, Underway, AcceptedInTime, UsesFit, Live
<1>7. KeptAlive'
  BY <1>3, AllRevoked DEF Manage, TimesPassed, KeptAlive, Live
<1>8. QED
  BY <1>4, <1>5, <1>6, <1>7

----------------------------------------------------------------------------
\* Where the rows of logins come from.
LEMMA LoginOf ==
    ASSUME NEW at \in {"idle", "verifying", "verified", "rechecked"}, NEW v \in 0 .. MaxVersion,
           NEW g \in BOOLEAN, NEW now \in Times, NEW e \in 0 .. MaxVersion
    PROVE  [at |-> at, version |-> v, good |-> g, now |-> now, epoch |-> e] \in Login
  BY DEF Login

\* A login that goes on with the version and the epoch it has read.
LEMMA LoginSteps ==
    ASSUME AuthInv, NEW l \in Logins, NEW new \in Login, login' = [login EXCEPT ![l] = new],
           new.at # "idle" => new.version = new.epoch + 1 /\ account.version > 0,
           new.now <= clock,
           UNCHANGED <<clock, account, session, request, epoch, opened, used>>
    PROVE  AuthInv'
<1> USE DEF AuthInv
<1>1. login' \in [Logins -> Login] /\ login'[l] = new
      /\ \A k \in Logins \ {l} : login'[k] = login[k]
  BY DEF TypeOK
<1>2. TypeOK'
  BY <1>1 DEF TypeOK
<1>3. NothingYet' /\ VersionsTell'
  BY <1>1 DEF NothingYet, VersionsTell, Live, TypeOK, Account
<1>4. TimesPassed'
  BY <1>1 DEF TimesPassed
<1>5. RequestsFit' /\ UsesFit' /\ KeptAlive'
  BY DEF RequestsFit, Underway, AcceptedInTime, UsesFit, KeptAlive, Live
<1>6. QED
  BY <1>2, <1>3, <1>4, <1>5

LEMMA NoLoginFits == NoLogin \in Login /\ NoLogin.at = "idle" /\ NoLogin.now = 0
<1>1. 0 \in Times /\ 0 \in 0 .. MaxVersion
  BY DEF Times
<1>2. QED
  BY <1>1 DEF NoLogin, Login

LEMMA LoginReadInv ==
    ASSUME AuthInv, NEW l \in Logins, NEW p \in Passwords, LoginRead(l, p)
    PROVE  AuthInv'
<1> DEFINE good == account.password = p /\ account.active
           new == [at |-> "verifying", version |-> account.version, good |-> good,
                   now |-> 0, epoch |-> epoch]
<1>1. account.version \in 0 .. MaxVersion /\ account.active \in BOOLEAN /\ account.version = epoch + 1
  BY DEF AuthInv, TypeOK, Account, LoginRead
<1>2. good \in BOOLEAN /\ epoch \in 0 .. MaxVersion /\ 0 \in Times /\ clock \in Times
  BY <1>1 DEF AuthInv, TypeOK, Times
<1>3. login' = [login EXCEPT ![l] = new]
  BY DEF LoginRead
<1> HIDE DEF good
<1>4. new \in Login
  BY <1>1, <1>2, LoginOf
<1>5. new.now = 0 /\ new.version = account.version /\ new.epoch = epoch
  OBVIOUS
<1>6. new.now <= clock /\ new.version = new.epoch + 1 /\ account.version > 0
  <2> HIDE DEF new
  <2>1. QED
    BY <1>1, <1>2, <1>5 DEF Times
<1> HIDE DEF new
<1>7. QED
  BY <1>3, <1>4, <1>6, LoginSteps DEF LoginRead

\* The row of a login with another place and time.
GoesOn(old, at, now) == [old EXCEPT !.at = at, !.now = now]
LEMMA LoginGoesOn ==
    ASSUME NEW old \in Login, NEW at \in {"verified", "rechecked"}, NEW now \in Times,
           NEW new, new = GoesOn(old, at, now)
    PROVE  /\ new \in Login /\ new.at = at /\ new.now = now
           /\ new.version = old.version /\ new.epoch = old.epoch
<1> DEFINE good == old.good
<1>1. new = [at |-> at, version |-> old.version, good |-> good, now |-> now, epoch |-> old.epoch]
  BY DEF Login, GoesOn
<1>2. old.version \in 0 .. MaxVersion /\ good \in BOOLEAN /\ old.epoch \in 0 .. MaxVersion
  BY DEF Login
<1> HIDE DEF good
<1>3. new \in Login
  <2>1. at \in {"idle", "verifying", "verified", "rechecked"}
    OBVIOUS
  <2>2. [at |-> at, version |-> old.version, good |-> good, now |-> now, epoch |-> old.epoch] \in Login
    BY <1>2, <2>1, LoginOf
  <2>3. QED
    BY <1>1, <2>2
<1>4. QED
  BY <1>1, <1>3

LEMMA LoginVerifyInv ==
    ASSUME AuthInv, NEW l \in Logins, LoginVerify(l)
    PROVE  AuthInv'
<1> DEFINE on == GoesOn(login[l], "verified", clock)
<1>1. login[l] \in Login /\ clock \in Times /\ login[l].at # "idle"
  BY DEF AuthInv, TypeOK, LoginVerify
<1>2. login' = [login EXCEPT ![l] = on] \/ login' = [login EXCEPT ![l] = NoLogin]
  BY DEF LoginVerify, GoesOn
<1>3. account.version > 0 /\ login[l].version = login[l].epoch + 1
  BY <1>1 DEF AuthInv, NothingYet, VersionsTell, TypeOK, Account
<1>4. on \in Login /\ on.now <= clock /\ on.version = on.epoch + 1
  <2>1. /\ on \in Login /\ on.now = clock
        /\ on.version = login[l].version /\ on.epoch = login[l].epoch
    BY <1>1, LoginGoesOn
  <2> HIDE DEF on
  <2>2. QED
    BY <1>1, <1>3, <2>1 DEF Times
<1> HIDE DEF on
<1>5. NoLogin.now <= clock
  BY <1>1, NoLoginFits DEF Times
<1>6. UNCHANGED <<clock, account, session, request, epoch, opened, used>>
  BY DEF LoginVerify
<1>7. CASE login' = [login EXCEPT ![l] = on]
  BY <1>3, <1>4, <1>6, <1>7, LoginSteps
<1>8. CASE login' = [login EXCEPT ![l] = NoLogin]
  BY <1>5, <1>6, <1>8, NoLoginFits, LoginSteps
<1>9. QED
  BY <1>2, <1>7, <1>8

LEMMA LoginRecheckInv ==
    ASSUME AuthInv, NEW l \in Logins, LoginRecheck(l)
    PROVE  AuthInv'
<1> PICK now : now = login[l].now
  OBVIOUS
<1> PICK on : on = GoesOn(login[l], "rechecked", now)
  OBVIOUS
<1>1. login[l] \in Login /\ clock \in Times /\ login[l].at # "idle" /\ now \in Times
  BY DEF AuthInv, TypeOK, LoginRecheck, Login
<1>2. login' = [login EXCEPT ![l] = on] \/ login' = [login EXCEPT ![l] = NoLogin]
  BY <1>1 DEF LoginRecheck, Login, GoesOn
<1>3. account.version > 0 /\ login[l].version = login[l].epoch + 1 /\ login[l].now <= clock
  BY <1>1 DEF AuthInv, NothingYet, VersionsTell, TimesPassed, TypeOK, Account
<1>4. on \in Login /\ on.now <= clock /\ on.version = on.epoch + 1
  <2>1. "rechecked" \in {"verified", "rechecked"}
    OBVIOUS
  <2>2. /\ on \in Login /\ on.now = now
        /\ on.version = login[l].version /\ on.epoch = login[l].epoch
    <3>1. PICK old \in Login : old = login[l]
      BY <1>1
    <3>2. PICK at \in Times : at = now
      BY <1>1
    <3>3. on = GoesOn(old, "rechecked", at)
      BY <3>1, <3>2
    <3>4. on \in Login /\ on.now = at /\ on.version = old.version /\ on.epoch = old.epoch
      BY <2>1, <3>3, LoginGoesOn
    <3>5. QED
      BY <3>1, <3>2, <3>4
  <2>3. QED
    BY <1>1, <1>3, <2>2 DEF Times
<1>5. NoLogin.now <= clock
  BY <1>1, NoLoginFits DEF Times
<1>6. UNCHANGED <<clock, account, session, request, epoch, opened, used>>
  BY DEF LoginRecheck
<1>7. CASE login' = [login EXCEPT ![l] = on]
  BY <1>3, <1>4, <1>6, <1>7, LoginSteps
<1>8. CASE login' = [login EXCEPT ![l] = NoLogin]
  BY <1>5, <1>6, <1>8, NoLoginFits, LoginSteps
<1>9. QED
  BY <1>2, <1>7, <1>8

----------------------------------------------------------------------------
LEMMA LoginInsertInv ==
    ASSUME AuthInv, NEW l \in Logins, NEW t \in Tokens, LoginInsert(l, t)
    PROVE  AuthInv'
<1> USE DEF AuthInv
<1> DEFINE new == [state |-> "live", version |-> login[l].version, created |-> login[l].now,
                   seen |-> login[l].now, revoked |-> 0]
<1>1. /\ login[l] \in Login /\ login[l].now <= clock /\ login[l].version = login[l].epoch + 1
      /\ login[l].now \in Times /\ login[l].version \in 0 .. MaxVersion
      /\ login[l].epoch \in 0 .. MaxVersion /\ 0 \in Times /\ clock \in Nat
  BY DEF TypeOK, LoginInsert, TimesPassed, VersionsTell, Login, Times
<1>2. new \in Session
  BY <1>1, SessionOf
<1>3. /\ session' = [session EXCEPT ![t] = new] /\ opened' = [opened EXCEPT ![t] = login[l].epoch]
      /\ session[t].state = "unused" /\ login[l].at # "idle"
  BY DEF LoginInsert, VerifiedVersion
<1>4. /\ session' \in [Tokens -> Session] /\ session'[t] = new
      /\ \A s \in Tokens \ {t} : session'[s] = session[s]
      /\ opened' \in [Tokens -> 0 .. MaxVersion] /\ opened'[t] = login[l].epoch
      /\ \A s \in Tokens \ {t} : opened'[s] = opened[s]
  BY <1>1, <1>2, <1>3 DEF TypeOK
<1>5. /\ login' \in [Logins -> Login] /\ login'[l] = NoLogin
      /\ \A k \in Logins \ {l} : login'[k] = login[k]
  BY NoLoginFits DEF LoginInsert, TypeOK
<1>6. UNCHANGED <<clock, account, request, epoch, used>>
  BY DEF LoginInsert
<1>7. /\ new.state = "live" /\ new.version = login[l].epoch + 1 /\ new.created = login[l].now
      /\ new.seen = login[l].now /\ new.revoked = 0
  BY <1>1
<1> HIDE DEF new
<1>8. TypeOK'
  BY <1>1, <1>4, <1>5, <1>6, <1>7 DEF TypeOK
<1>9. NothingYet' /\ VersionsTell'
  BY <1>3, <1>4, <1>5, <1>6, <1>7, NoLoginFits DEF NothingYet, VersionsTell, Live
<1>10. TimesPassed'
  BY <1>1, <1>5, <1>6, NoLoginFits DEF TimesPassed
<1>11. RequestsFit'
  <2>1. \A r \in Requests : request[r].at # "idle" => request[r].token \in Tokens \ {t}
    BY <1>3 DEF RequestsFit, Underway
  <2>2. QED
    BY <2>1, <1>4, <1>6 DEF RequestsFit, Underway, AcceptedInTime, Live
<1>12. UsesFit'
  BY <1>4, <1>6, <1>7 DEF UsesFit
<1>13. KeptAlive'
  <2>1. used[t] = 0 /\ login[l].now \in Nat
    BY <1>1, <1>3 DEF UsesFit, Times
  <2>2. QED
    BY <2>1, <1>4, <1>6, <1>7 DEF KeptAlive, Live
<1>14. QED
  BY <1>8, <1>9, <1>10, <1>11, <1>12, <1>13

----------------------------------------------------------------------------
LEMMA RevokeInv ==
    ASSUME AuthInv, NEW t \in Tokens, Revoke(t)
    PROVE  AuthInv'
<1> USE DEF AuthInv
<1> DEFINE new == RevokedNow(session[t])
<1>1. session[t] \in Session /\ clock \in Times /\ clock \in Nat /\ Live(t)
      /\ session' = [session EXCEPT ![t] = new]
  BY DEF Revoke, RevokedNow, TypeOK, Times
<1>2. /\ new \in Session /\ new.revoked = clock /\ new.state = session[t].state
      /\ new.version = session[t].version /\ new.created = session[t].created
      /\ new.seen = session[t].seen
  BY <1>1, RevokedRow
<1> HIDE DEF new
<1>3. /\ session' \in [Tokens -> Session] /\ session'[t] = new
      /\ \A s \in Tokens \ {t} : session'[s] = session[s]
  BY <1>1, <1>2 DEF TypeOK
<1>4. UNCHANGED <<clock, account, login, request, epoch, opened, used>>
  BY DEF Revoke
<1>5. TypeOK'
  BY <1>1, <1>2, <1>3, <1>4 DEF TypeOK
<1>6. NothingYet' /\ VersionsTell' /\ TimesPassed'
  BY <1>2, <1>3, <1>4 DEF NothingYet, VersionsTell, TimesPassed, Live
<1>7. RequestsFit' /\ UsesFit'
  BY <1>2, <1>3, <1>4 DEF RequestsFit, Underway, AcceptedInTime, UsesFit, Live
<1>8. KeptAlive'
  BY <1>1, <1>2, <1>3, <1>4 DEF KeptAlive, Live, TimesPassed
<1>9. QED
  BY <1>5, <1>6, <1>7, <1>8

LEMMA CleanupInv ==
    ASSUME AuthInv, NEW t \in Tokens, Cleanup(t)
    PROVE  AuthInv'
<1> USE DEF AuthInv
<1> DEFINE new == [NoSession EXCEPT !.state = "gone"]
<1>1. session' = [session EXCEPT ![t] = new] /\ clock \in Nat /\ Live(t)
  BY DEF Cleanup, TypeOK, Times
<1>2. new \in Session /\ new.state = "gone" /\ new.seen = 0 /\ new.revoked = 0
  BY GoneRow
<1> HIDE DEF new
<1>3. /\ session' \in [Tokens -> Session] /\ session'[t] = new
      /\ \A s \in Tokens \ {t} : session'[s] = session[s]
  BY <1>1, <1>2 DEF TypeOK
<1>4. UNCHANGED <<clock, account, login, request, epoch, opened, used>>
  BY DEF Cleanup
<1>5. TypeOK'
  BY <1>1, <1>2, <1>3, <1>4 DEF TypeOK
<1>6. NothingYet' /\ VersionsTell' /\ TimesPassed'
  BY <1>1, <1>2, <1>3, <1>4 DEF NothingYet, VersionsTell, TimesPassed, Live
<1>7. RequestsFit' /\ UsesFit'
  BY <1>2, <1>3, <1>4 DEF RequestsFit, Underway, AcceptedInTime, UsesFit, Live
<1>8. KeptAlive'
  BY <1>2, <1>3, <1>4 DEF KeptAlive, Live
<1>9. QED
  BY <1>5, <1>6, <1>7, <1>8

----------------------------------------------------------------------------
\* The row of a request that goes on.
LEMMA RequestSteps ==
    ASSUME AuthInv, NEW r \in Requests, NEW new \in Request, request' = [request EXCEPT ![r] = new],
           new.now <= clock,
           new.at # "idle" => new.token \in Tokens /\ session[new.token].state # "unused",
           new.at = "accepted" /\ Live(new.token) =>
              /\ session[new.token].created + Lifetime > new.now
              /\ session[new.token].seen + Idle > new.now,
           UNCHANGED <<clock, account, session, login, epoch, opened, used>>
    PROVE  AuthInv'
<1> USE DEF AuthInv
<1>1. /\ request' \in [Requests -> Request] /\ request'[r] = new
      /\ \A q \in Requests \ {r} : request'[q] = request[q]
  BY DEF TypeOK
<1>2. TypeOK'
  BY <1>1 DEF TypeOK
<1>3. NothingYet' /\ VersionsTell' /\ UsesFit' /\ KeptAlive'
  BY DEF NothingYet, VersionsTell, UsesFit, KeptAlive, Live
<1>4. TimesPassed'
  BY <1>1 DEF TimesPassed
<1>5. RequestsFit'
  BY <1>1 DEF RequestsFit, Underway, AcceptedInTime, Live
<1>6. QED
  BY <1>2, <1>3, <1>4, <1>5

LEMMA NoRequestFits == NoRequest \in Request /\ NoRequest.at = "idle" /\ NoRequest.now = 0
<1>1. 0 \in Times
  BY DEF Times
<1>2. QED
  BY <1>1 DEF NoRequest, Request

LEMMA BeginInv ==
    ASSUME AuthInv, NEW r \in Requests, NEW t \in Tokens, Begin(r, t)
    PROVE  AuthInv'
<1> DEFINE new == [at |-> "started", token |-> t, now |-> clock]
<1>1. clock \in Times /\ clock \in Nat
  BY DEF AuthInv, TypeOK, Times
<1>2. new \in Request /\ new.at = "started" /\ new.token = t /\ new.now = clock
  BY <1>1 DEF Request
<1>3. request' = [request EXCEPT ![r] = new]
  BY DEF Begin
<1> HIDE DEF new
<1>4. /\ new.now <= clock /\ new.at # "accepted"
      /\ new.token \in Tokens /\ session[new.token].state # "unused"
  BY <1>1, <1>2 DEF Begin
<1>5. UNCHANGED <<clock, account, session, login, epoch, opened, used>>
  BY DEF Begin
<1>6. QED
  BY <1>2, <1>3, <1>4, <1>5, RequestSteps

LEMMA IdentifyInv ==
    ASSUME AuthInv, NEW r \in Requests, Identify(r)
    PROVE  AuthInv'
<1> DEFINE new == [request[r] EXCEPT !.at = "accepted"]
<1>1. request[r] \in Request /\ clock \in Nat /\ request[r].now <= clock
  BY DEF AuthInv, TypeOK, Times, TimesPassed
<1>2. new = [at |-> "accepted", token |-> request[r].token, now |-> request[r].now]
  BY <1>1 DEF Request
<1>3. /\ new \in Request /\ new.at = "accepted" /\ new.token = request[r].token
      /\ new.now = request[r].now
  BY <1>1, <1>2 DEF Request
<1>4. \/ Accepts(r) /\ request' = [request EXCEPT ![r] = new]
      \/ request' = [request EXCEPT ![r] = NoRequest]
  BY DEF Identify
<1> HIDE DEF new
<1>5. request[r].token \in Tokens /\ session[request[r].token].state # "unused"
  BY DEF AuthInv, RequestsFit, Underway, Identify
<1>6. CASE Accepts(r) /\ request' = [request EXCEPT ![r] = new]
  <2>1. /\ new.now <= clock
        /\ new.token \in Tokens /\ session[new.token].state # "unused"
        /\ session[new.token].created + Lifetime > new.now
        /\ session[new.token].seen + Idle > new.now
    BY <1>1, <1>3, <1>5, <1>6 DEF Accepts, Valid
  <2>2. UNCHANGED <<clock, account, session, login, epoch, opened, used>>
    BY DEF Identify
  <2>3. QED
    BY <1>3, <1>6, <2>1, <2>2, RequestSteps
<1>7. CASE request' = [request EXCEPT ![r] = NoRequest]
  <2>1. NoRequest.now <= clock /\ NoRequest.at # "accepted"
    BY <1>1, NoRequestFits
  <2>2. QED
    BY <1>7, <2>1, NoRequestFits, RequestSteps DEF Identify
<1>8. QED
  BY <1>4, <1>6, <1>7

----------------------------------------------------------------------------
\* The end of a request: the session of a request that was in time is used, and
\* only ever later.
BeatDue(r) ==
    LET t == request[r].token
        now == request[r].now
    IN  /\ Live(t) /\ session[t].revoked = 0
        /\ session[t].created + Lifetime > now
        /\ session[t].seen + Idle > now
        /\ DueHeartbeat(t, now)
LEMMA BeatRows ==
    ASSUME AuthInv, NEW r \in Requests, Beat(r),
           NEW t, t = request[r].token, NEW now, now = request[r].now
    PROVE  /\ t \in Tokens /\ now \in Times /\ now <= clock /\ session[t].state # "unused"
           /\ Live(t) => session[t].created + Lifetime > now /\ session[t].seen + Idle > now
           /\ session' \in [Tokens -> Session]
           /\ \A s \in Tokens \ {t} : session'[s] = session[s]
           /\ session'[t].state = session[t].state /\ session'[t].version = session[t].version
           /\ session'[t].created = session[t].created /\ session'[t].revoked = session[t].revoked
           /\ session'[t].seen = IF BeatDue(r) THEN now ELSE session[t].seen
<1>1. request[r] \in Request /\ request[r].at = "accepted" /\ now <= clock /\ now \in Times
  BY DEF AuthInv, TypeOK, TimesPassed, Request, Beat
<1>2. /\ t \in Tokens /\ session[t].state # "unused"
      /\ Live(t) => session[t].created + Lifetime > now /\ session[t].seen + Idle > now
  BY <1>1 DEF AuthInv, RequestsFit, Underway, AcceptedInTime
<1>3. session[t] \in Session /\ session \in [Tokens -> Session]
  BY <1>2 DEF AuthInv, TypeOK
<1>4. session' = IF BeatDue(r) THEN [session EXCEPT ![t] = SeenAt(session[t], now)] ELSE session
  BY DEF Beat, BeatDue, SeenAt
<1>5. CASE BeatDue(r)
  <2>1. PICK new : new = SeenAt(session[t], now)
    OBVIOUS
  <2>2. /\ new \in Session /\ new.seen = now /\ new.state = session[t].state
        /\ new.version = session[t].version /\ new.created = session[t].created
        /\ new.revoked = session[t].revoked
    BY <1>1, <1>3, <2>1, SeenRow
  <2>3. session' = [session EXCEPT ![t] = new]
    BY <1>4, <1>5, <2>1
  <2>4. QED
    BY <1>1, <1>2, <1>3, <1>5, <2>2, <2>3
<1>6. CASE ~ BeatDue(r)
  BY <1>1, <1>2, <1>3, <1>4, <1>6
<1>7. QED
  BY <1>5, <1>6

LEMMA BeatInv ==
    ASSUME AuthInv, NEW r \in Requests, Beat(r)
    PROVE  AuthInv'
<1> USE DEF AuthInv
<1>1. PICK t, now : t = request[r].token /\ now = request[r].now
  OBVIOUS
<1>2. /\ t \in Tokens /\ now \in Times /\ now <= clock /\ session[t].state # "unused"
      /\ Live(t) => session[t].created + Lifetime > now /\ session[t].seen + Idle > now
      /\ session' \in [Tokens -> Session]
      /\ \A s \in Tokens \ {t} : session'[s] = session[s]
      /\ session'[t].state = session[t].state /\ session'[t].version = session[t].version
      /\ session'[t].created = session[t].created /\ session'[t].revoked = session[t].revoked
      /\ session'[t].seen = IF BeatDue(r) THEN now ELSE session[t].seen
  BY <1>1, BeatRows
<1>3. /\ UNCHANGED <<clock, account, login, epoch, opened>>
      /\ used' = [used EXCEPT ![t] = IF @ < now THEN now ELSE @]
      /\ request' = [request EXCEPT ![r] = NoRequest]
  BY <1>1 DEF Beat
<1>4. /\ request' \in [Requests -> Request] /\ request'[r] = NoRequest
      /\ \A q \in Requests \ {r} : request'[q] = request[q]
  BY <1>3, NoRequestFits DEF TypeOK
<1>5. clock \in Nat /\ now \in Nat /\ session[t].seen \in Nat /\ used[t] \in Nat /\ used[t] \in Times
  BY <1>2 DEF TypeOK, Times, Session
<1>6. /\ used' \in [Tokens -> Times]
      /\ used'[t] = (IF used[t] < now THEN now ELSE used[t])
      /\ \A s \in Tokens \ {t} : used'[s] = used[s]
  BY <1>2, <1>3, <1>5 DEF TypeOK
<1>7. \A s \in Tokens : session'[s].state = session[s].state /\ session'[s].version = session[s].version
  BY <1>2
<1>8. TypeOK'
  <2>1. \A s \in Tokens : session'[s].seen <= clock /\ session'[s].revoked <= clock
    BY <1>2, <1>5 DEF TypeOK
  <2>2. QED
    BY <1>2, <1>3, <1>4, <1>6, <2>1 DEF TypeOK
<1>9. NothingYet' /\ VersionsTell'
  BY <1>3, <1>7 DEF NothingYet, VersionsTell, Live
<1>10. TimesPassed'
  BY <1>3, <1>4, <1>5, NoRequestFits DEF TimesPassed
<1>11. \A s \in Tokens : session'[s].created = session[s].created /\ session'[s].seen >= session[s].seen
  <2>1. BeatDue(r) => session[t].seen + Heartbeat <= now
    BY <1>1 DEF BeatDue, DueHeartbeat
  <2>2. session'[t].seen >= session[t].seen
    BY <1>2, <1>5, <2>1
  <2>3. \A s \in Tokens : session[s].seen \in Nat
    BY DEF TypeOK, Session, Times
  <2>4. QED
    BY <1>2, <2>2, <2>3
<1>12. RequestsFit'
  <2> SUFFICES ASSUME NEW q \in Requests PROVE Underway(q)' /\ AcceptedInTime(q)'
    BY DEF RequestsFit
  <2>1. CASE q = r
    BY <1>4, <2>1, NoRequestFits DEF Underway, AcceptedInTime
  <2>2. CASE q # r /\ request[q].at # "idle"
    <3>1. request'[q] = request[q] /\ request[q].token \in Tokens
      BY <1>4, <2>2 DEF RequestsFit, Underway
    <3>2. Underway(q)'
      BY <1>7, <3>1 DEF RequestsFit, Underway
    <3>3. /\ request[q].now \in Nat /\ session[request[q].token].seen \in Nat
          /\ session'[request[q].token].seen \in Nat
      BY <1>2, <3>1 DEF TypeOK, Request, Session, Times
    <3>4. AcceptedInTime(q)'
      BY <1>7, <1>11, <3>1, <3>3 DEF RequestsFit, AcceptedInTime, Live
    <3>5. QED
      BY <3>2, <3>4
  <2>3. CASE q # r /\ request[q].at = "idle"
    BY <1>4, <2>3 DEF Underway, AcceptedInTime
  <2>4. QED
    BY <2>1, <2>2, <2>3
<1>13. UsesFit'
  BY <1>2, <1>6, <1>7 DEF UsesFit
<1>14. KeptAlive'
  <2> SUFFICES ASSUME NEW s \in Tokens, Live(s)', session'[s].revoked = 0
               PROVE  used'[s] < session'[s].seen + Heartbeat
    BY DEF KeptAlive
  <2>1. CASE s # t
    BY <1>2, <1>6, <2>1 DEF KeptAlive, Live
  <2>2. CASE s = t
    <3>1. Live(t) /\ session[t].revoked = 0 /\ used[t] < session[t].seen + Heartbeat
      BY <1>2, <2>2 DEF KeptAlive, Live
    <3>2. BeatDue(r) <=> session[t].seen + Heartbeat <= now
      BY <1>1, <1>2, <3>1 DEF BeatDue, DueHeartbeat
    <3>3. QED
      BY <1>2, <1>5, <1>6, <2>2, <3>1, <3>2
  <2>3. QED
    BY <2>1, <2>2
<1>15. QED
  BY <1>8, <1>9, <1>10, <1>12, <1>13, <1>14

----------------------------------------------------------------------------
LEMMA AuthInvStep == AuthInv /\ [Next]_vars => AuthInv'
<1> SUFFICES ASSUME AuthInv, [Next]_vars PROVE AuthInv'
  OBVIOUS
<1>1. CASE Tick
  BY <1>1, TickInv
<1>2. CASE \E p \in Passwords, a \in BOOLEAN : Create(p, a)
  BY <1>2, CreateAuthInv
<1>3. CASE \E new \in NewAccounts : Manage(new)
  BY <1>3, ManageInv
<1>4. ASSUME NEW l \in Logins, (\E p \in Passwords : LoginRead(l, p)) \/ LoginVerify(l)
                               \/ LoginRecheck(l) \/ \E t \in Tokens : LoginInsert(l, t)
      PROVE AuthInv'
  BY <1>4, LoginReadInv, LoginVerifyInv, LoginRecheckInv, LoginInsertInv
<1>5. ASSUME NEW t \in Tokens, Revoke(t) \/ Cleanup(t) PROVE AuthInv'
  BY <1>5, RevokeInv, CleanupInv
<1>6. ASSUME NEW r \in Requests, (\E t \in Tokens : Begin(r, t)) \/ Identify(r) \/ Beat(r)
      PROVE AuthInv'
  BY <1>6, BeginInv, IdentifyInv, BeatInv
<1>7. CASE UNCHANGED vars
  BY <1>7 DEF AuthInv, vars, TypeOK, NothingYet, VersionsTell, TimesPassed, RequestsFit, Underway,
              AcceptedInTime, UsesFit, KeptAlive, Live
<1>8. QED
  BY <1>1, <1>2, <1>3, <1>4, <1>5, <1>6, <1>7 DEF Next

LEMMA AuthInvariant == Spec => []AuthInv
<1>1. Init => AuthInv
  BY AuthInvInit
<1>2. AuthInv /\ [Next]_vars => AuthInv'
  BY AuthInvStep
<1>3. QED
  BY <1>1, <1>2, PTL DEF Spec

\* Every row has its type, none is ahead of the clock, and the account's version
\* counts its changes, whatever the durations are.
THEOREM SessionsTypeCorrect == Spec => []TypeOK
<1>1. AuthInv => TypeOK
  BY DEF AuthInv
<1>2. QED
  BY <1>1, AuthInvariant, PTL

\* session_identity and its heartbeat (auth/service.py): however long a request
\* takes, the last use that is stored lies less than one heartbeat behind the last
\* request of a session that is not revoked.
THEOREM SessionsKept == Spec => []KeptAlive
<1>1. AuthInv => KeptAlive
  BY DEF AuthInv
<1>2. QED
  BY <1>1, AuthInvariant, PTL

----------------------------------------------------------------------------
(* Steps.                                                                  *)

AcceptedStep ==
    \A r \in Requests :
        request[r].at = "started" /\ request'[r].at = "accepted" =>
            opened[request[r].token] = epoch /\ account.active

\* Only Identify accepts, and the version of a session tells the epoch of its
\* password.
LEMMA AcceptedCurrent == AuthInv /\ [Next]_vars => AcceptedStep
<1> SUFFICES ASSUME AuthInv, [Next]_vars, NEW r \in Requests,
                    request[r].at = "started", request'[r].at = "accepted"
             PROVE  opened[request[r].token] = epoch /\ account.active
  BY DEF AcceptedStep
<1>1. request \in [Requests -> Request]
  BY DEF AuthInv, TypeOK
<1>2. CASE Accepts(r)
  <2>1. /\ request[r].token \in Tokens /\ Live(request[r].token) /\ account.active
        /\ session[request[r].token].version = account.version
    BY <1>2 DEF Accepts, Valid, AuthInv, RequestsFit, Underway
  <2>2. session[request[r].token].version = opened[request[r].token] + 1
    BY <2>1 DEF AuthInv, VersionsTell
  <2>3. account.version # 0
    BY <2>1 DEF AuthInv, NothingYet
  <2>4. account.version = epoch + 1
    BY <2>3 DEF AuthInv, TypeOK, Account
  <2>5. opened[request[r].token] \in Nat /\ epoch \in Nat
    BY <2>1 DEF AuthInv, TypeOK
  <2>6. opened[request[r].token] = epoch
    <3>1. opened[request[r].token] + 1 = epoch + 1
      BY <2>1, <2>2, <2>4
    <3>2. QED
      BY <2>5, <3>1
  <2>7. QED
    BY <2>1, <2>6
<1>3. CASE ~ Accepts(r)
  <2>1. request' # request
    BY <1>1
  <2>2. PICK q \in Requests : (\E t \in Tokens : Begin(q, t)) \/ Identify(q) \/ Beat(q)
    BY <2>1 DEF Next, vars, Tick, Create, Manage, LoginRead, LoginVerify, LoginRecheck,
                LoginInsert, Revoke, Cleanup
  <2>3. q = r
    BY <1>1, <2>2 DEF Begin, Identify, Beat
  <2>4. Identify(r)
    BY <2>2, <2>3 DEF Begin, Beat
  <2>5. request'[r] = NoRequest
    BY <1>1, <1>3, <2>4 DEF Identify
  <2>6. QED
    BY <2>5 DEF NoRequest
<1>4. QED
  BY <1>2, <1>3

\* A request is accepted only for a session whose password was verified against
\* the account as it is now, whichever change of the account a login overtook.
THEOREM AcceptedSessionsCurrent == Spec => AcceptedIsCurrent
<1>1. AuthInv /\ [Next]_vars => [AcceptedStep]_vars
  BY AcceptedCurrent
<1>2. QED
  BY <1>1, AuthInvariant, PTL DEF Spec, AcceptedIsCurrent, AcceptedStep

\* What a step may do to a session that was there: nothing but revoke it, set
\* its last use forward or delete it.
SessionStep(t) ==
    session[t].state = "unused"
    \/ session'[t].state = "gone"
    \/ /\ session'[t].state = session[t].state /\ session'[t].version = session[t].version
       /\ session'[t].created = session[t].created
       /\ session[t].seen <= session'[t].seen
       /\ session[t].revoked # 0 => session'[t].revoked # 0
LEMMA SessionSteps ==
    ASSUME AuthInv, [Next]_vars, NEW t \in Tokens PROVE SessionStep(t)
<1> USE DEF SessionStep
<1>1. /\ session \in [Tokens -> Session] /\ session[t] \in Session /\ clock >= 1
      /\ session[t].seen \in Nat /\ clock \in Nat
  BY DEF AuthInv, TypeOK, TimesPassed, Session, Times
<1>2. CASE session' = session
  BY <1>1, <1>2
<1>3. ASSUME NEW new \in NewAccounts, Manage(new) PROVE SessionStep(t)
  BY <1>1, <1>3, AllRevoked
<1>4. ASSUME NEW l \in Logins, NEW s \in Tokens, LoginInsert(l, s) PROVE SessionStep(t)
  BY <1>1, <1>4 DEF LoginInsert
<1>5. ASSUME NEW s \in Tokens, Revoke(s) PROVE SessionStep(t)
  <2>1. session' = [session EXCEPT ![s] = RevokedNow(session[s])]
    BY <1>5 DEF Revoke, RevokedNow
  <2>2. CASE s = t
    <3>1. session'[t] = RevokedNow(session[t])
      BY <1>1, <2>1, <2>2
    <3>2. QED
      BY <1>1, <3>1, RevokedRow DEF AuthInv, TypeOK
  <2>3. CASE s # t
    BY <1>1, <2>1, <2>3
  <2>4. QED
    BY <2>2, <2>3
<1>6. ASSUME NEW s \in Tokens, Cleanup(s) PROVE SessionStep(t)
  <2>1. PICK new : new = [NoSession EXCEPT !.state = "gone"]
    OBVIOUS
  <2>2. session' = [session EXCEPT ![s] = new] /\ new.state = "gone"
    BY <1>6, <2>1, GoneRow DEF Cleanup
  <2>3. QED
    BY <1>1, <2>2
<1>7. ASSUME NEW r \in Requests, Beat(r) PROVE SessionStep(t)
  <2>1. PICK s, now : s = request[r].token /\ now = request[r].now
    OBVIOUS
  <2>2. /\ now <= clock /\ now \in Times
        /\ \A u \in Tokens \ {s} : session'[u] = session[u]
        /\ session'[s].state = session[s].state /\ session'[s].version = session[s].version
        /\ session'[s].created = session[s].created /\ session'[s].revoked = session[s].revoked
        /\ session'[s].seen = IF BeatDue(r) THEN now ELSE session[s].seen
    BY <1>7, <2>1, BeatRows
  <2>3. BeatDue(r) => session[s].seen + Heartbeat <= now
    BY <2>1 DEF BeatDue, DueHeartbeat
  <2>4. CASE s = t
    BY <1>1, <2>2, <2>3, <2>4 DEF Times
  <2>5. CASE s # t
    BY <1>1, <2>2, <2>5
  <2>6. QED
    BY <2>4, <2>5
<1>8. QED
  BY <1>2, <1>3, <1>4, <1>5, <1>6, <1>7
  DEF Next, vars, Tick, Create, LoginRead, LoginVerify, LoginRecheck, Begin, Identify

\* Only the operator changes the account: before there is any session of it, or
\* revoking every session there is.
LEMMA AccountSteps ==
    ASSUME AuthInv, [Next]_vars, NEW t \in Tokens, session[t].state # "unused"
    PROVE  /\ clock' \in Nat /\ clock \in Nat /\ clock <= clock'
           /\ UNCHANGED account \/ (Live(t) => session'[t].revoked # 0)
<1>1. clock \in Nat /\ clock >= 1
  BY DEF AuthInv, TypeOK, TimesPassed, Times
<1>2. clock' \in Nat /\ clock <= clock'
  <2>1. Tick \/ UNCHANGED clock
    BY Zenon DEF Next, vars, Create, Manage, LoginRead, LoginVerify, LoginRecheck, LoginInsert,
                 Revoke, Cleanup, Begin, Identify, Beat
  <2>2. QED
    BY <1>1, <2>1 DEF Tick
<1>3. ASSUME NEW p \in Passwords, NEW a \in BOOLEAN, Create(p, a) PROVE FALSE
  BY <1>3 DEF Create, AuthInv, NothingYet
<1>4. ASSUME NEW new \in NewAccounts, Manage(new) PROVE Live(t) => session'[t].revoked # 0
  <2>1. session'[t].revoked = IF Live(t) THEN clock ELSE session[t].revoked
    BY <1>4, AllRevoked
  <2>2. QED
    BY <1>1, <2>1
<1>5. UNCHANGED account \/ (Live(t) => session'[t].revoked # 0)
  BY <1>3, <1>4 DEF Next, vars, Tick, LoginRead, LoginVerify, LoginRecheck, LoginInsert, Revoke,
                    Cleanup, Begin, Identify, Beat
<1>6. QED
  BY <1>1, <1>2, <1>5

DeadStep == \A t \in Tokens : Dead(t) => Dead(t)'
LEMMA DeadForGood == AuthInv /\ [Next]_vars => DeadStep
<1> SUFFICES ASSUME AuthInv, [Next]_vars, NEW t \in Tokens, Dead(t) PROVE Dead(t)'
  BY DEF DeadStep
<1>1. session[t].state # "unused"
  BY DEF Dead, Live
<1>2. SessionStep(t)
  BY SessionSteps
<1>3. /\ clock' \in Nat /\ clock \in Nat /\ clock <= clock'
      /\ UNCHANGED account \/ (Live(t) => session'[t].revoked # 0)
  BY <1>1, AccountSteps
<1>4. CASE session'[t].state = "gone"
  BY <1>4 DEF Dead
<1>5. CASE session'[t].state # "gone"
  <2>1. /\ session'[t].state = session[t].state /\ session'[t].version = session[t].version
        /\ session'[t].created = session[t].created
        /\ session[t].revoked # 0 => session'[t].revoked # 0
    BY <1>1, <1>2, <1>5 DEF SessionStep
  <2>2. Live(t) /\ Live(t)'
    BY <1>5, <2>1 DEF Dead, Live
  <2>3. CASE session'[t].revoked # 0
    BY <2>2, <2>3 DEF Dead
  <2>4. CASE session'[t].revoked = 0
    <3>1. UNCHANGED account /\ session[t].revoked = 0
      BY <1>3, <2>1, <2>2, <2>4
    <3>2. session[t].created \in Nat
      BY DEF AuthInv, TypeOK, Session, Times
    <3>3. CASE session[t].created + Lifetime <= clock
      <4>1. session'[t].created + Lifetime <= clock'
        BY <1>3, <2>1, <3>2, <3>3
      <4>2. QED
        BY <2>2, <4>1 DEF Dead
    <3>4. CASE session[t].version # account.version
      BY <2>1, <2>2, <3>1, <3>4 DEF Dead
    <3>5. CASE ~ account.active
      BY <2>2, <3>1, <3>5 DEF Dead
    <3>6. QED
      BY <2>2, <3>1, <3>3, <3>4, <3>5 DEF Dead, Live
  <2>5. QED
    BY <2>3, <2>4
<1>6. QED
  BY <1>4, <1>5

\* A session that is revoked, expired, of an older credential or of a disabled
\* account is never usable again: no late heartbeat or login and no change of the
\* account revives it.
THEOREM DeadSessionsStay == Spec => DeadStays
<1>1. AuthInv /\ [Next]_vars => [DeadStep]_vars
  BY DeadForGood
<1>2. QED
  BY <1>1, AuthInvariant, PTL DEF Spec, DeadStays, DeadStep

SeenStep == \A t \in Tokens : Live(t) /\ Live(t)' => session[t].seen <= session'[t].seen
LEMMA SeenOnward == AuthInv /\ [Next]_vars => SeenStep
<1> SUFFICES ASSUME AuthInv, [Next]_vars, NEW t \in Tokens, Live(t), Live(t)'
             PROVE  session[t].seen <= session'[t].seen
  BY DEF SeenStep
<1>1. SessionStep(t)
  BY SessionSteps
<1>2. QED
  BY <1>1 DEF SessionStep, Live

\* The heartbeat of a slow request never sets a session's last use back.
THEOREM SeenNeverBack == Spec => SeenForward
<1>1. AuthInv /\ [Next]_vars => [SeenStep]_vars
  BY SeenOnward
<1>2. QED
  BY <1>1, AuthInvariant, PTL DEF Spec, SeenForward, SeenStep

----------------------------------------------------------------------------
(* The SQL console: the page, its connections and their queries.           *)

HIDE Durations
HIDE AuthBounds
HIDE NoTokenAssumption
USE ConsoleBounds

\* Frames under way on one connection, and a frame that is there once at most.
Carried(q) == {q[i] : i \in 1 .. Len(q)}
OnceIn(q, f) == \A i, j \in 1 .. Len(q) : q[i] = f /\ q[j] = f => i = j

\* Request numbers, the frames of either direction, and what is kept of an answer.
Numbers == 0 .. MaxRequests
Executes(r) == Frame("execute", r, 0)
UpFrames ==
    {Executes(r) : r \in Ids} \cup {Frame("ack", r, b) : r \in Numbers, b \in 1 .. MaxBatches}
    \cup {Frame("cancel", r, 0) : r \in Numbers} \cup {Frame("disconnect", 0, 0)}
DownFrames ==
    {Frame("rows", r, b) : r \in Ids, b \in 1 .. MaxBatches}
    \cup {Frame(v, r, 0) : v \in Verdicts, r \in Ids} \cup {Frame(c, 0, 0) : c \in Closes}
Replies == {[type |-> "rows", batch |-> b] : b \in 1 .. MaxBatches} \cup {[type |-> v, batch |-> 0] : v \in Verdicts}
Handlers == {"none", "connecting", "reading", "authorizing", "starting", "cancelling", "leaving", "gone"}

\* The types of every variable.
SqlTypeOK ==
    /\ ui \in {"Idle", "Running", "Cancelling", "Completed", "Cancelled", "Error"}
    /\ checks \in Nat /\ issued \in Numbers /\ issued + checks <= MaxRequests
    /\ executing \in BOOLEAN
    /\ requestId \in 0 .. issued /\ socket \in 0 .. issued
    /\ batch \in 0 .. MaxBatches /\ shown \in 0 .. MaxBatches
    /\ timers \subseteq {"current", "forgotten"}
    /\ up \in [Sockets -> Seq(UpFrames)]
    /\ down \in [Sockets -> Seq(DownFrames)]
    /\ handler \in [Sockets -> Handlers]
    /\ active \in [Sockets -> Numbers]
    /\ expected \in [Sockets -> 0 .. MaxBatches]
    /\ ack \in [Sockets -> {"none", "pending", "done"}]
    /\ task \in [Sockets -> Tasks]
    /\ closed \in BOOLEAN
    /\ replies \in [Ids -> Seq(Replies)]

\* A connection works on a request from the session check to the verdict.
Engaged(s, r) == active[s] = r /\ (handler[s] = "authorizing" \/ ActiveTask(s))

\* A request that was not sent yet.
Unsent(r) ==
    /\ replies[r] = <<>>
    /\ \A s \in Sockets :
          /\ Executes(r) \notin Carried(up[s]) /\ ~ Engaged(s, r)
          /\ \A b \in 1 .. MaxBatches : Frame("ack", r, b) \notin Carried(up[s])

\* Requests the page has not given a number yet, or whose connection is still opening.
Fresh ==
    /\ \A r \in Ids : r > issued => Unsent(r) /\ handler[r] = "none"
    /\ \A r \in Ids : handler[r] = "connecting" => Unsent(r)

\* A request is sent once, and answered by the one connection that received it.
SentOnce ==
    \A r \in Ids :
        /\ \A s \in Sockets : OnceIn(up[s], Executes(r))
        /\ \A s \in Sockets : Executes(r) \in Carried(up[s]) =>
              /\ replies[r] = <<>>
              /\ \A t \in Sockets : ~ Engaged(t, r) /\ (Executes(r) \in Carried(up[t]) => t = s)
        /\ \A s, t \in Sockets : Engaged(s, r) /\ Engaged(t, r) => s = t

\* What the query at work has answered so far.
AnsweredSoFar ==
    \A s \in Sockets :
        /\ handler[s] = "authorizing" =>
               ~ ActiveTask(s) /\ active[s] \in Ids /\ replies[active[s]] = <<>>
        /\ ActiveTask(s) =>
              /\ handler[s] \notin {"none", "connecting", "gone"}
              /\ active[s] \in Ids
              /\ Len(replies[active[s]]) = task[s].batch
              /\ \A i \in 1 .. Len(replies[active[s]]) : replies[active[s]][i].type = "rows"
              /\ task[s].at = "created" => task[s].batch = 0
              /\ task[s].at = "acking" => expected[s] = task[s].batch

\* What arrives was sent.
\* (A request whose last answer is its verdict "complete".)
Completed(r) == replies[r] # <<>> /\ replies[r][Len(replies[r])].type = "complete"

RowsSent ==
    \A s \in Sockets : \A r \in Ids :
        /\ \A b \in 1 .. MaxBatches : Frame("rows", r, b) \in Carried(down[s]) =>
              /\ OnceIn(down[s], Frame("rows", r, b))
              /\ b <= Len(replies[r]) /\ replies[r][b].type = "rows"
        /\ Frame("complete", r, 0) \in Carried(down[s]) => Completed(r)

\* What the page shows of its request: what it acknowledged it has shown, and the
\* query that is past an acknowledgement knows.
Past(s) ==
    \/ task[s].at = "running"
    \/ task[s].at = "acking" /\ ack[s] = "done"
    \/ task[s].at \in {"settling", "reporting"} /\ task[s].verdict = "complete"

PageFits ==
    /\ shown <= batch
    /\ ui = "Completed" => requestId # 0 /\ Completed(requestId)
    /\ requestId # 0 =>
          /\ batch <= Len(replies[requestId])
          /\ \A s \in Sockets : \A b \in 1 .. MaxBatches :
                 Frame("ack", requestId, b) \in Carried(up[s]) => b <= shown
          /\ socket # 0 =>
                 \A b \in 1 .. MaxBatches : Frame("rows", requestId, b) \in Carried(down[socket]) =>
                 b = batch + 1 /\ shown = batch
          /\ \A s \in Sockets : Engaged(s, requestId) /\ Past(s) =>
                 shown = batch /\ batch = task[s].batch
          /\ Completed(requestId) =>
                /\ shown = batch /\ batch = Len(replies[requestId]) - 1
                /\ \A s \in Sockets : ~ Engaged(s, requestId)

SqlInv == SqlTypeOK /\ Fresh /\ SentOnce /\ AnsweredSoFar /\ RowsSent /\ PageFits

\* Frames in a queue that is empty, grows, shrinks, or was just begun.
LEMMA CarriedEmpty == Carried(<<>>) = {}
  BY DEF Carried

\* A frame that is appended is carried, once when it was not before.
LEMMA CarriedAppend == ASSUME NEW S, NEW q \in Seq(S), NEW f \in S
    PROVE  /\ Append(q, f) \in Seq(S) /\ Carried(Append(q, f)) = Carried(q) \cup {f}
           /\ \A g : OnceIn(q, g) /\ (g = f => f \notin Carried(q)) => OnceIn(Append(q, f), g)
<1>1. /\ Append(q, f) \in Seq(S) /\ Len(Append(q, f)) = Len(q) + 1 /\ Len(q) \in Nat
      /\ \A i \in 1 .. Len(q) : Append(q, f)[i] = q[i]
      /\ Append(q, f)[Len(q) + 1] = f
  OBVIOUS
<1>2. \A i \in 1 .. Len(q) + 1 : i \in 1 .. Len(q) \/ i = Len(q) + 1
  BY <1>1
<1> DEFINE p == Append(q, f)
<1> HIDE DEF p
<1>3. /\ Len(p) = Len(q) + 1 /\ \A i \in 1 .. Len(q) : p[i] = q[i] /\ i \in 1 .. Len(p)
      /\ p[Len(q) + 1] = f /\ Len(q) + 1 \in 1 .. Len(p)
  BY <1>1 DEF p
<1>4. Carried(p) = Carried(q) \cup {f}
  BY <1>2, <1>3 DEF Carried
<1>5. ASSUME NEW g, OnceIn(q, g), g = f => f \notin Carried(q), NEW i \in 1 .. Len(p),
                 NEW j \in 1 .. Len(p),
             p[i] = g, p[j] = g
      PROVE  i = j
  <2>1. CASE i \in 1 .. Len(q) /\ j \in 1 .. Len(q)
    BY <1>3, <1>5, <2>1 DEF OnceIn
  <2>2. CASE i = Len(q) + 1 \/ j = Len(q) + 1
    BY <1>2, <1>3, <1>5, <2>2 DEF Carried
  <2>3. QED
    BY <1>2, <1>3, <2>1, <2>2
<1>6. \A g : OnceIn(q, g) /\ (g = f => f \notin Carried(q)) => OnceIn(p, g)
  BY <1>5 DEF OnceIn
<1>7. QED
  BY <1>1, <1>4, <1>6 DEF p

\* The first frame is taken, and is gone when it was there once.
LEMMA CarriedTail == ASSUME NEW S, NEW q \in Seq(S), q # <<>>
    PROVE  /\ Tail(q) \in Seq(S) /\ Carried(Tail(q)) \subseteq Carried(q)
           /\ Head(q) \in S /\ Head(q) \in Carried(q)
           /\ \A g : OnceIn(q, g) => OnceIn(Tail(q), g)
           /\ OnceIn(q, Head(q)) => Head(q) \notin Carried(Tail(q))
<1>1. /\ Tail(q) \in Seq(S) /\ Len(q) \in Nat \ {0} /\ Len(Tail(q)) = Len(q) - 1
      /\ \A i \in 1 .. Len(Tail(q)) : Tail(q)[i] = q[i + 1]
      /\ Head(q) = q[1]
  OBVIOUS
<1> DEFINE p == Tail(q)
<1> HIDE DEF p
<1>2. /\ p \in Seq(S) /\ Len(p) = Len(q) - 1 /\ \A i \in 1 .. Len(p) :
             p[i] = q[i + 1] /\ i + 1 \in 1 .. Len(q) /\ i + 1 # 1
      /\ 1 \in 1 .. Len(q) /\ q[1] = Head(q)
  BY <1>1 DEF p
<1>3. Carried(p) \subseteq Carried(q) /\ Head(q) \in Carried(q) /\ Head(q) \in S
  BY <1>2 DEF Carried
<1>4. \A g : OnceIn(q, g) => OnceIn(p, g)
  BY <1>2 DEF OnceIn
<1>5. OnceIn(q, Head(q)) => Head(q) \notin Carried(p)
  BY <1>2 DEF OnceIn, Carried
<1>6. QED
  BY <1>2, <1>3, <1>4, <1>5 DEF p

\* A queue of one frame.
LEMMA CarriedOne == ASSUME NEW f PROVE Carried(<<f>>) = {f} /\ \A g : OnceIn(<<f>>, g)
  BY DEF Carried, OnceIn

\* A queue of none.
LEMMA OnceInEmpty == \A g : OnceIn(<<>>, g)
  BY DEF OnceIn

\* What a step does to the queues, as far as the invariant can tell.
NoNewExecute ==
    \A t \in Sockets, r \in Ids :
        /\ Executes(r) \in Carried(up'[t]) => Executes(r) \in Carried(up[t])
        /\ OnceIn(up[t], Executes(r)) => OnceIn(up'[t], Executes(r))
NoNewAck ==
    \A t \in Sockets, r \in Numbers, b \in 1 .. MaxBatches :
        Frame("ack", r, b) \in Carried(up'[t]) => Frame("ack", r, b) \in Carried(up[t])
UpTyped == up' \in [Sockets -> Seq(UpFrames)]
UpQuiet == UpTyped /\ NoNewExecute /\ NoNewAck
NoNewRows ==
    \A t \in Sockets, r \in Ids, b \in 1 .. MaxBatches :
        /\ Frame("rows", r, b) \in Carried(down'[t]) => Frame("rows", r, b) \in Carried(down[t])
        /\ OnceIn(down[t], Frame("rows", r, b)) => OnceIn(down'[t], Frame("rows", r, b))
NoNewComplete ==
    \A t \in Sockets, r \in Ids :
        Frame("complete", r, 0) \in Carried(down'[t]) => Frame("complete", r, 0) \in Carried(down[t])
DownTyped == down' \in [Sockets -> Seq(DownFrames)]
DownQuiet == DownTyped /\ NoNewRows /\ NoNewComplete

\* Frames of different types, requests or batches are different.
LEMMA FramesApart ==
    /\ \A r, q, b : /\ Executes(r) # Frame("ack", q, b) /\ Executes(r) # Frame("cancel", q, 0)
                    /\ Executes(r) # Frame("disconnect", 0, 0) /\ (Executes(r) = Executes(q) => r = q)
                    /\ Frame("ack", q, b) # Frame("cancel", r, 0)
                           /\ Frame("ack", q, b) # Frame("disconnect", 0, 0)
    /\ \A r, q, b, c : /\ Frame("ack", r, b) = Frame("ack", q, c) => r = q /\ b = c
                       /\ Frame("rows", r, b) = Frame("rows", q, c) => r = q /\ b = c
    /\ \A r, q, b, x : /\ x \in Verdicts \cup Closes => Frame("rows", r, b) # Frame(x, q, 0)
                       /\ x \in {"cancelled", "error"} \cup Closes =>
                              Frame("complete", r, 0) # Frame(x, q, 0)
                       /\ Frame("complete", r, 0) # Frame("rows", q, b)
    /\ \A r, q : Frame("complete", r, 0) = Frame("complete", q, 0) => r = q
  BY DEF Executes, Frame, Verdicts, Closes

\* The page sends a frame (Up).
LEMMA UpAdds ==
    ASSUME SqlTypeOK, NEW s \in 0 .. MaxRequests, NEW f \in UpFrames, Up(s, f)
    PROVE  /\ UpTyped
           /\ \A t \in Sockets :
                  Carried(up'[t]) \subseteq Carried(up[t]) \cup (IF t = s THEN {f} ELSE {})
           /\ \A t \in Sockets : \A g : OnceIn(up[t], g) /\ (g = f => f \notin Carried(up[t])) =>
                  OnceIn(up'[t], g)
<1>1. CASE s = 0 \/ Left(s)
  BY <1>1 DEF Up, SqlTypeOK, UpTyped
<1>2. CASE ~ (s = 0 \/ Left(s))
  <2>1. s \in Sockets /\ up' = [up EXCEPT ![s] = Append(up[s], f)] /\ up[s] \in Seq(UpFrames)
    BY <1>2 DEF Up, SqlTypeOK, Sockets, Ids
  <2>2. /\ Append(up[s], f) \in Seq(UpFrames) /\ Carried(Append(up[s], f)) = Carried(up[s]) \cup {f}
        /\ \A g : OnceIn(up[s], g) /\ (g = f => f \notin Carried(up[s])) => OnceIn(Append(up[s], f), g)
    BY <2>1, CarriedAppend
  <2>3. up'[s] = Append(up[s], f) /\ \A t \in Sockets : t # s => up'[t] = up[t]
    BY <2>1 DEF SqlTypeOK
  <2>4. UpTyped
    BY <2>1, <2>2 DEF SqlTypeOK, UpTyped
  <2>5. QED
    BY <2>2, <2>3, <2>4
<1>3. QED
  BY <1>1, <1>2

\* A cancellation or a hang-up says nothing about what was sent.
LEMMA UpOther ==
    ASSUME SqlTypeOK, NEW s \in 0 .. MaxRequests, NEW x \in {"cancel", "disconnect"}, NEW r \in Numbers,
           x = "disconnect" => r = 0, Up(s, Frame(x, r, 0))
    PROVE  UpQuiet
<1>1. Frame(x, r, 0) \in UpFrames
  BY DEF UpFrames
<1>2. \A q, b : Executes(q) # Frame(x, r, 0) /\ Frame("ack", q, b) # Frame(x, r, 0)
  BY FramesApart
<1>3. QED
  BY <1>1, <1>2, UpAdds DEF UpQuiet, NoNewExecute, NoNewAck

\* The handler reads a frame (Read): one that was there once is gone.
LEMMA UpReads ==
    ASSUME SqlTypeOK, NEW s \in Sockets, up[s] # <<>>, Read(s)
    PROVE  /\ UpQuiet
           /\ Head(up[s]) \in UpFrames /\ Head(up[s]) \in Carried(up[s])
           /\ OnceIn(up[s], Head(up[s])) => Head(up[s]) \notin Carried(up'[s])
<1>1. up[s] \in Seq(UpFrames) /\ up' = [up EXCEPT ![s] = Tail(up[s])]
  BY DEF SqlTypeOK, Read
<1>2. /\ Tail(up[s]) \in Seq(UpFrames) /\ Carried(Tail(up[s])) \subseteq Carried(up[s])
      /\ Head(up[s]) \in UpFrames /\ Head(up[s]) \in Carried(up[s])
      /\ \A g : OnceIn(up[s], g) => OnceIn(Tail(up[s]), g)
      /\ OnceIn(up[s], Head(up[s])) => Head(up[s]) \notin Carried(Tail(up[s]))
  BY <1>1, CarriedTail
<1>3. up'[s] = Tail(up[s]) /\ \A t \in Sockets : t # s => up'[t] = up[t]
  BY <1>1 DEF SqlTypeOK
<1>4. UpTyped
  BY <1>1, <1>2 DEF SqlTypeOK, UpTyped
<1>5. QED
  BY <1>2, <1>3, <1>4 DEF UpQuiet, NoNewExecute, NoNewAck

\* A connection that is left, refused or dropped loses what was under way.
LEMMA UpSet ==
    ASSUME SqlTypeOK, NEW s \in Sockets, NEW q \in {<<>>, <<Frame("disconnect", 0, 0)>>},
               up' = [up EXCEPT ![s] = q]
    PROVE  UpQuiet
<1>1. q \in Seq(UpFrames) /\ Carried(q) \subseteq {Frame("disconnect", 0, 0)} /\ \A g : OnceIn(q, g)
  <2>1. CASE q = <<>>
    BY <2>1, CarriedEmpty, OnceInEmpty
  <2>2. CASE q = <<Frame("disconnect", 0, 0)>>
    <3>1. Frame("disconnect", 0, 0) \in UpFrames
      BY DEF UpFrames
    <3>2. q \in Seq(UpFrames)
      BY <2>2, <3>1
    <3>3. QED
      BY <2>2, <3>2, CarriedOne
  <2>3. QED
    BY <2>1, <2>2
<1>2. up'[s] = q /\ \A t \in Sockets : t # s => up'[t] = up[t]
  BY DEF SqlTypeOK
<1>3. UpTyped
  BY <1>1 DEF SqlTypeOK, UpTyped
<1>4. QED
  BY <1>1, <1>2, <1>3, FramesApart DEF UpQuiet, NoNewExecute, NoNewAck

\* Nothing is sent to the server.
LEMMA UpSame == ASSUME SqlTypeOK, UNCHANGED up PROVE UpQuiet
  BY DEF SqlTypeOK, UpQuiet, UpTyped, NoNewExecute, NoNewAck

\* The server sends a frame (Down).
LEMMA DownAdds ==
    ASSUME SqlTypeOK, NEW s \in Sockets, NEW f \in DownFrames, Down(s, f)
    PROVE  /\ DownTyped
           /\ \A t \in Sockets : Carried(down'[t]) \subseteq Carried(down[t]) \cup {f}
           /\ \A t \in Sockets : \A g : OnceIn(down[t], g) /\ (g = f => f \notin Carried(down[t])) =>
                  OnceIn(down'[t], g)
<1>1. CASE s # socket
  BY <1>1 DEF Down, SqlTypeOK, DownTyped
<1>2. CASE s = socket
  <2>1. down' = [down EXCEPT ![s] = Append(down[s], f)] /\ down[s] \in Seq(DownFrames)
    BY <1>2 DEF Down, SqlTypeOK
  <2>2. /\ Append(down[s], f) \in Seq(DownFrames)
               /\ Carried(Append(down[s], f)) = Carried(down[s]) \cup {f}
        /\ \A g : OnceIn(down[s], g) /\ (g = f => f \notin Carried(down[s])) =>
               OnceIn(Append(down[s], f), g)
    BY <2>1, CarriedAppend
  <2>3. down'[s] = Append(down[s], f) /\ \A t \in Sockets : t # s => down'[t] = down[t]
    BY <2>1 DEF SqlTypeOK
  <2>4. DownTyped
    BY <2>1, <2>2 DEF SqlTypeOK, DownTyped
  <2>5. QED
    BY <2>2, <2>3, <2>4
<1>3. QED
  BY <1>1, <1>2

\* An error, a cancelled verdict or a close says nothing about rows.
LEMMA DownOther ==
    ASSUME SqlTypeOK, NEW s \in Sockets, NEW x \in {"cancelled", "error"} \cup Closes,
               NEW r \in Numbers,
           IF x \in Closes THEN r = 0 ELSE r \in Ids, Down(s, Frame(x, r, 0))
    PROVE  DownQuiet
<1>1. Frame(x, r, 0) \in DownFrames
  BY DEF DownFrames, Verdicts, Closes
<1>2. \A q, b : Frame("rows", q, b) # Frame(x, r, 0) /\ Frame("complete", q, 0) # Frame(x, r, 0)
  BY FramesApart DEF Verdicts
<1>3. QED
  BY <1>1, <1>2, DownAdds DEF DownQuiet, NoNewRows, NoNewComplete

\* The page takes the next frame (onmessage, onclose).
LEMMA Consumes ==
    ASSUME SqlTypeOK, NEW f, Arrives(f), Consume
    PROVE  /\ DownQuiet
           /\ socket \in Sockets /\ f \in DownFrames /\ f \in Carried(down[socket])
           /\ OnceIn(down[socket], f) => f \notin Carried(down'[socket])
<1>1. socket \in Sockets /\ down[socket] \in Seq(DownFrames) /\ down[socket] # <<>>
          /\ f = Head(down[socket])
      /\ down' = [down EXCEPT ![socket] = Tail(down[socket])]
  BY DEF SqlTypeOK, Arrives, Consume, Sockets, Ids, Numbers
<1>2. /\ Tail(down[socket]) \in Seq(DownFrames)
             /\ Carried(Tail(down[socket])) \subseteq Carried(down[socket])
      /\ f \in DownFrames /\ f \in Carried(down[socket])
      /\ \A g : OnceIn(down[socket], g) => OnceIn(Tail(down[socket]), g)
      /\ OnceIn(down[socket], f) => f \notin Carried(Tail(down[socket]))
  BY <1>1, CarriedTail
<1>3. down'[socket] = Tail(down[socket]) /\ \A t \in Sockets : t # socket => down'[t] = down[t]
  BY <1>1 DEF SqlTypeOK
<1>4. DownTyped
  BY <1>1, <1>2 DEF SqlTypeOK, DownTyped
<1>5. QED
  BY <1>1, <1>2, <1>3, <1>4 DEF DownQuiet, NoNewRows, NoNewComplete

\* Nothing is sent to the page.
LEMMA DownSame == ASSUME SqlTypeOK, UNCHANGED down PROVE DownQuiet
  BY DEF SqlTypeOK, DownQuiet, DownTyped, NoNewRows, NoNewComplete

\* The page closes its connection.
LEMMA HangsUp == ASSUME SqlTypeOK, HangUp PROVE UpQuiet /\ DownQuiet
<1>1. UpQuiet
  BY UpOther DEF HangUp, SqlTypeOK, Numbers
<1>2. \A t \in Sockets : down'[t] = down[t] \/ down'[t] = <<>>
  BY DEF HangUp
<1>3. DownTyped
  BY DEF HangUp, SqlTypeOK, DownTyped
<1>4. QED
  BY <1>1, <1>2, <1>3, CarriedEmpty, OnceInEmpty DEF DownQuiet, NoNewRows, NoNewComplete

\* The connection is dropped with everything on its way.
LEMMA Drops == ASSUME SqlTypeOK, Drop PROVE UpQuiet /\ DownQuiet
<1>1. socket \in Sockets
  BY DEF SqlTypeOK, Drop, Open, Sockets, Ids, Numbers
<1>2. UpQuiet
  BY <1>1, UpSet, UpSame DEF Drop
<1>3. down' = [down EXCEPT ![socket] = <<Frame("close", 0, 0)>>]
  BY DEF Drop
<1>4. Frame("close", 0, 0) \in DownFrames /\ <<Frame("close", 0, 0)>> \in Seq(DownFrames)
  <2>1. Frame("close", 0, 0) \in DownFrames
    BY DEF DownFrames, Closes
  <2>2. QED
    BY <2>1
<1>5. DownTyped
  BY <1>3, <1>4 DEF SqlTypeOK, DownTyped
<1>6. down'[socket] = <<Frame("close", 0, 0)>> /\ \A t \in Sockets : t # socket => down'[t] = down[t]
  BY <1>1, <1>3 DEF SqlTypeOK
<1>7. \A q, b : Frame("rows", q, b) # Frame("close", 0, 0) /\ Frame("complete", q, 0) # Frame("close", 0, 0)
  BY FramesApart DEF Closes
<1>8. QED
  BY <1>2, <1>5, <1>6, <1>7, CarriedOne DEF DownQuiet, NoNewRows, NoNewComplete

\* A history that grows by one entry.
LEMMA AppendFacts == ASSUME NEW S, NEW q \in Seq(S), NEW e \in S
    PROVE  /\ Append(q, e) \in Seq(S) /\ Len(Append(q, e)) = Len(q) + 1 /\ Len(q) \in Nat
                  /\ Append(q, e) # <<>>
           /\ \A i \in 1 .. Len(q) : Append(q, e)[i] = q[i]
           /\ Append(q, e)[Len(q) + 1] = e
<1>1. /\ Append(q, e) \in Seq(S) /\ Len(Append(q, e)) = Len(q) + 1 /\ Len(q) \in Nat
      /\ \A i \in 1 .. Len(q) : Append(q, e)[i] = q[i]
      /\ Append(q, e)[Len(q) + 1] = e
  OBVIOUS
<1>2. Append(q, e) # <<>>
  BY <1>1
<1>3. QED
  BY <1>1, <1>2

\* A frame enters the history of its request (Sent).
LEMMA Sends ==
    ASSUME SqlTypeOK, NEW r \in Ids, NEW x \in Verdicts \cup {"rows"}, NEW b \in 0 .. MaxBatches,
           IF x = "rows" THEN b # 0 ELSE b = 0, Sent(Frame(x, r, b))
    PROVE  /\ replies' \in [Ids -> Seq(Replies)]
           /\ \A q \in Ids : q # r => replies'[q] = replies[q]
           /\ Len(replies'[r]) = Len(replies[r]) + 1 /\ Len(replies[r]) \in Nat
           /\ \A i \in 1 .. Len(replies[r]) : replies'[r][i] = replies[r][i]
           /\ replies'[r][Len(replies[r]) + 1].type = x
           /\ replies'[r] # <<>>
           /\ Completed(r)' <=> x = "complete"
<1> DEFINE e == [type |-> x, batch |-> b]
<1>1. e \in Replies /\ replies[r] \in Seq(Replies)
  BY DEF SqlTypeOK, Replies
<1>2. replies' = [replies EXCEPT ![r] = Append(replies[r], e)]
  BY DEF Sent, Frame
<1>5. e.type = x
  OBVIOUS
<1> HIDE DEF e
<1>3. /\ Append(replies[r], e) \in Seq(Replies) /\ Len(Append(replies[r], e)) = Len(replies[r]) + 1
      /\ Len(replies[r]) \in Nat /\ Append(replies[r], e) # <<>>
      /\ \A i \in 1 .. Len(replies[r]) : Append(replies[r], e)[i] = replies[r][i]
      /\ Append(replies[r], e)[Len(replies[r]) + 1] = e
  BY <1>1, AppendFacts
<1>4. replies'[r] = Append(replies[r], e) /\ (\A q \in Ids : q # r => replies'[q] = replies[q])
  BY <1>2 DEF SqlTypeOK
<1>6. replies' \in [Ids -> Seq(Replies)]
  BY <1>2, <1>3 DEF SqlTypeOK
<1>7. QED
  BY <1>3, <1>4, <1>5, <1>6 DEF Completed

\* What a step does to the queries, as far as the invariant can tell.
TaskQuiet ==
    /\ task' \in [Sockets -> Tasks] /\ ack' \in [Sockets -> {"none", "pending", "done"}]
    /\ \A t \in Sockets :
          /\ task'[t].batch = task[t].batch
          /\ ActiveTask(t)' => ActiveTask(t)
          /\ Past(t)' => Past(t)
          /\ task'[t].at \in {"created", "acking"} => task'[t].at = task[t].at

\* The queries are left alone.
LEMMA TaskSame == ASSUME SqlTypeOK, UNCHANGED <<task, ack>> PROVE TaskQuiet
  BY DEF SqlTypeOK, TaskQuiet, ActiveTask, Past

\* Cancelling brings no query to life, and none past an acknowledgement.
LEMMA Cancels == ASSUME SqlTypeOK, NEW S \in SUBSET Sockets, CancelTasks(S)
    PROVE  /\ TaskQuiet
           /\ \A t \in Sockets \ S : task'[t] = task[t] /\ ack'[t] = ack[t]
           /\ \A t \in S : ~ ActiveTask(t) => ~ ActiveTask(t)'
<1>1. \A t \in Sockets : Cancelled(task[t]) \in Tasks /\ Cancelled(task[t]).batch = task[t].batch
  BY DEF SqlTypeOK, Tasks, Cancelled, Verdicts
<1>2. task' \in [Sockets -> Tasks] /\ ack' \in [Sockets -> {"none", "pending", "done"}]
  BY <1>1 DEF SqlTypeOK, CancelTasks
<1>3. \A t \in Sockets : /\ t \in S => task'[t] = Cancelled(task[t])
                         /\ t \notin S => task'[t] = task[t] /\ ack'[t] = ack[t]
  BY DEF CancelTasks
<1>4. \A t \in S : /\ task'[t].at \notin {"created", "running", "acking"}
                   /\ task'[t].at \in {"settling", "reporting"} =>
                         /\ task[t].at \in {"running", "acking", "settling"}
                         /\ task'[t].verdict = "complete" =>
                                task[t].at = "settling" /\ task[t].verdict = "complete"
  <2> SUFFICES ASSUME NEW t \in S
               PROVE  /\ task'[t].at \notin {"created", "running", "acking"}
                      /\ task'[t].at \in {"settling", "reporting"} =>
                            /\ task[t].at \in {"running", "acking", "settling"}
                            /\ task'[t].verdict = "complete" =>
                                   task[t].at = "settling" /\ task[t].verdict = "complete"
    OBVIOUS
  <2>1. PICK k \in Tasks : k = task[t]
    BY DEF SqlTypeOK
  <2>2. task'[t] = Cancelled(k)
    BY <1>3, <2>1
  <2>3. CASE k.at = "created"
    BY <2>2, <2>3 DEF Cancelled, Tasks
  <2>4. CASE k.at \in {"running", "acking"}
    BY <2>1, <2>2, <2>4 DEF Cancelled, Tasks
  <2>5. CASE k.at = "settling"
    BY <2>1, <2>2, <2>5 DEF Cancelled, Tasks
  <2>6. CASE k.at \in {"reporting", "none", "done"}
    BY <2>2, <2>6 DEF Cancelled, Tasks
  <2>7. QED
    BY <2>3, <2>4, <2>5, <2>6 DEF Tasks
<1>5. \A t \in Sockets :
          task[t].at \in {"none", "created", "running", "acking", "settling", "reporting", "done"}
                         /\ task'[t].at \in {"none", "created", "running", "acking", "settling", "reporting", "done"}
  BY <1>2 DEF SqlTypeOK, Tasks
<1>6. \A t \in S : (ActiveTask(t)' => ActiveTask(t)) /\ (Past(t)' => Past(t))
  BY <1>4, <1>5 DEF ActiveTask, Past
<1>7. \A t \in Sockets \ S : (ActiveTask(t)' => ActiveTask(t)) /\ (Past(t)' => Past(t))
  BY <1>3 DEF ActiveTask, Past
<1>8. QED
  BY <1>1, <1>2, <1>3, <1>4, <1>6, <1>7 DEF TaskQuiet

\* A handler that leaves waits for its query (console_socket's finally).
LEMMA Leaves == ASSUME SqlTypeOK, NEW s \in Sockets, Leave(s)
    PROVE  /\ UpQuiet /\ TaskQuiet
           /\ handler' \in [Sockets -> Handlers]
           /\ \A t \in Sockets : t # s => handler'[t] = handler[t] /\ task'[t] = task[t]
           /\ handler'[s] \in {"leaving", "gone"} /\ (handler'[s] = "gone" => ~ ActiveTask(s)')
<1>1. UpQuiet
  BY UpSet DEF Leave
<1>2. TaskQuiet /\ (\A t \in Sockets :
          t # s => task'[t] = task[t]) /\ (~ ActiveTask(s) => ~ ActiveTask(s)')
  BY Cancels DEF Leave
<1>3. handler' \in [Sockets -> Handlers] /\ (\A t \in Sockets : t # s => handler'[t] = handler[t])
  BY DEF Leave, SqlTypeOK, Handlers
<1>4. handler'[s] = IF ActiveTask(s) THEN "leaving" ELSE "gone"
  BY DEF Leave, SqlTypeOK
<1>5. QED
  BY <1>1, <1>2, <1>3, <1>4

\* The steps of a query that tell the invariant nothing new.
LEMMA QueryGoesOn == ASSUME SqlTypeOK, NEW s \in Sockets,
    TaskAcked(s) \/ TaskCompletes(s) \/ TaskFails(s) \/ Settled(s)
    PROVE  /\ TaskQuiet
           /\ UNCHANGED <<pageVars, up, down, handler, active, expected, closed, replies>>
<1>1. UNCHANGED <<pageVars, up, down, handler, active, expected, closed, replies>>
  BY DEF TaskAcked, TaskCompletes, TaskFails, Settled, handlerVars
<1>2. \A t \in Sockets : t # s => task'[t] = task[t] /\ ack'[t] = ack[t]
  BY DEF TaskAcked, TaskCompletes, TaskFails, Settled, handlerVars, SqlTypeOK
<1>3. CASE TaskAcked(s)
  <2>1. task' \in [Sockets -> Tasks] /\ task'[s].at = "running" /\ task'[s].batch = task[s].batch
    BY <1>3 DEF TaskAcked, SqlTypeOK, Tasks
  <2>2. task[s].at = "acking" /\ ack[s] = "done" /\ UNCHANGED ack
    BY <1>3 DEF TaskAcked, handlerVars
  <2>3. QED
    BY <1>1, <1>2, <2>1, <2>2 DEF TaskQuiet, ActiveTask, Past, SqlTypeOK
<1>4. CASE TaskCompletes(s)
  <2>1. task' \in [Sockets -> Tasks] /\ task'[s].at = "settling" /\ task'[s].batch = task[s].batch
    BY <1>4 DEF TaskCompletes, SqlTypeOK, Tasks, Verdicts
  <2>2. task[s].at = "running" /\ UNCHANGED ack
    BY <1>4 DEF TaskCompletes, handlerVars
  <2>3. QED
    BY <1>1, <1>2, <2>1, <2>2 DEF TaskQuiet, ActiveTask, Past, SqlTypeOK
<1>5. CASE TaskFails(s)
  <2>1. task' \in [Sockets -> Tasks] /\ task'[s].at = "settling" /\ task'[s].batch = task[s].batch
            /\ task'[s].verdict = "error"
    BY <1>5 DEF TaskFails, SqlTypeOK, Tasks, Verdicts
  <2>2. task[s].at \in {"running", "acking"} /\ ack' \in [Sockets -> {"none", "pending", "done"}]
    BY <1>5 DEF TaskFails, SqlTypeOK
  <2>3. QED
    BY <1>1, <1>2, <2>1, <2>2 DEF TaskQuiet, ActiveTask, Past, SqlTypeOK
<1>6. CASE Settled(s)
  <2>1. task' \in [Sockets -> Tasks] /\ task'[s].at = "reporting"
            /\ task'[s].batch = task[s].batch /\ task'[s].verdict = task[s].verdict
    BY <1>6 DEF Settled, SqlTypeOK, Tasks, Verdicts
  <2>2. task[s].at = "settling" /\ UNCHANGED ack
    BY <1>6 DEF Settled, handlerVars
  <2>3. QED
    BY <1>1, <1>2, <2>1, <2>2 DEF TaskQuiet, ActiveTask, Past, SqlTypeOK
<1>7. QED
  BY <1>1, <1>3, <1>4, <1>5, <1>6

\* What a step does to the handlers, and a step that tells the page nothing new.
HandlerQuiet ==
    /\ handler' \in [Sockets -> Handlers]
    /\ \A t \in Sockets :
          /\ handler'[t] \in {"none", "connecting", "authorizing"} => handler'[t] = handler[t]
          /\ handler[t] = "none" => handler'[t] = "none"
          /\ ActiveTask(t)' => handler'[t] \notin {"none", "connecting", "gone"}
NothingNew ==
    UpQuiet /\ DownQuiet /\ TaskQuiet /\ HandlerQuiet /\ UNCHANGED <<active, expected, replies, issued>>
PageBehind ==
    /\ \/ requestId' = requestId /\ shown' = shown /\ batch' = batch
       \/ requestId' = 0 /\ shown' = 0 /\ batch' = 0 /\ ui' # "Completed"
    /\ socket' \in {socket, 0}
    /\ ui' = "Completed" => requestId # 0 /\ Completed(requestId)

\* The types of the page's variables.
PageTypeOK ==
    /\ ui \in {"Idle", "Running", "Cancelling", "Completed", "Cancelled", "Error"}
    /\ checks \in Nat /\ issued \in Numbers /\ issued + checks <= MaxRequests
    /\ executing \in BOOLEAN
    /\ requestId \in 0 .. issued /\ socket \in 0 .. issued
    /\ batch \in 0 .. MaxBatches /\ shown \in 0 .. MaxBatches
    /\ timers \subseteq {"current", "forgotten"}

\* The page's and the server's steps of that kind.
PageQuiet ==
    \/ Execute \/ CheckFails \/ CheckIgnored \/ Cancel \/ TimerFires \/ Remount \/ Drop
    \/ \E f : Arrives(f) /\ (OnOther(f) \/ OnVerdict(f) \/ OnClose(f))
    \/ \E s \in Sockets : Refused(s)
ServerQuiet ==
    \/ Shutdown
    \/ \E s \in Sockets :
          \/ \E f : Reads(s, f) /\ (OnDisconnect(s, f) \/ OnWrongAck(s, f) \/ OnCancel(s, f))
          \/ Denied(s) \/ Continue(s) \/ IdleTimeout(s)
          \/ TaskAcked(s) \/ TaskCompletes(s) \/ TaskFails(s) \/ Settled(s)

\* The handlers are left alone.
LEMMA HandlerSame == ASSUME SqlInv, UNCHANGED <<handler, task>> PROVE HandlerQuiet
  BY DEF SqlInv, SqlTypeOK, AnsweredSoFar, HandlerQuiet, ActiveTask

\* The types of the page, the queues and the queries together.
LEMMA TypesTogether ==
    ASSUME SqlTypeOK, PageTypeOK', NothingNew, closed' \in BOOLEAN
    PROVE  SqlTypeOK'
  BY DEF SqlTypeOK, PageTypeOK, NothingNew, UpQuiet, UpTyped, DownQuiet, DownTyped, TaskQuiet,
     HandlerQuiet

\* A verdict that arrives is one about a request that was sent, and true.
LEMMA VerdictsComplete == ASSUME SqlInv, NEW f, Arrives(f), f.id = requestId, f.type \in Verdicts
    PROVE  requestId \in Ids /\ (f.type = "complete" => Completed(requestId))
<1>1. socket \in Sockets /\ f \in DownFrames /\ f \in Carried(down[socket])
  <2>1. socket \in Sockets /\ down[socket] \in Seq(DownFrames) /\ down[socket] # <<>>
            /\ f = Head(down[socket])
    BY DEF SqlInv, SqlTypeOK, Arrives, Sockets, Ids, Numbers
  <2>2. QED
    BY <2>1, CarriedTail
<1>2. PICK v \in Verdicts, r \in Ids : f = Frame(v, r, 0)
  BY <1>1 DEF DownFrames, Frame, Verdicts, Closes
<1>3. f.id = r /\ f.type = v
  BY <1>2 DEF Frame
<1>4. QED
  BY <1>1, <1>2, <1>3 DEF SqlInv, RowsSent

\* Each of the page's own steps keeps the page's types.
LEMMA PageTypes ==
    ASSUME PageTypeOK,
           \/ Execute \/ CheckFails \/ CheckIgnored \/ Cancel \/ TimerFires \/ Remount
           \/ \E f : OnClose(f)
           \/ \E s \in Sockets : Refused(s)
    PROVE  PageTypeOK'
<1>0. /\ MaxRequests \in Nat /\ issued \in Nat /\ issued <= MaxRequests
      /\ 0 \in 0 .. issued /\ 0 \in 0 .. MaxBatches /\ checks \in Nat
  BY DEF PageTypeOK, Numbers
<1>a. ASSUME checks' \in Nat, issued' = issued, issued + checks' <= MaxRequests
      PROVE  issued' \in Numbers /\ issued' + checks' <= MaxRequests
  <2>1. issued \in Numbers
    BY DEF PageTypeOK
  <2>2. QED
    BY <1>a, <2>1
<1>1. CASE Execute
  <2>1. checks' \in Nat /\ issued' = issued /\ issued + checks' <= MaxRequests
    BY <1>0, <1>1 DEF Execute
  <2>2. QED
    BY <1>0, <1>1, <1>a, <2>1 DEF Execute, PageTypeOK
<1>2. CASE CheckFails \/ CheckIgnored
  <2>0. checks > 0 /\ checks' = checks - 1 /\ issued' = issued /\ issued + checks <= MaxRequests
    BY <1>0, <1>2 DEF CheckFails, CheckIgnored, PageTypeOK
  <2>1. checks' \in Nat /\ issued' = issued /\ issued + checks' <= MaxRequests
    BY <1>0, <2>0
  <2>2. QED
    BY <1>0, <1>2, <1>a, <2>1 DEF CheckFails, CheckIgnored, PageTypeOK
<1>3. CASE Cancel
  BY <1>0, <1>3 DEF Cancel, Disconnect, PageTypeOK
<1>4. CASE TimerFires
  BY <1>0, <1>4 DEF TimerFires, Disconnect, PageTypeOK
<1>5. CASE Remount
  <2>1. checks' \in Nat /\ issued' = issued /\ issued + checks' <= MaxRequests
    BY <1>0, <1>5 DEF Remount, Reset
  <2>2. QED
    BY <1>0, <1>5, <1>a, <2>1 DEF Remount, Reset, PageTypeOK
<1>6. CASE \E f : OnClose(f)
  <2>1. checks' \in Nat /\ issued' = issued /\ issued + checks' <= MaxRequests
    BY <1>0, <1>6 DEF OnClose, Reset, PageTypeOK
  <2>2. QED
    BY <1>0, <1>6, <1>a, <2>1 DEF OnClose, Reset, PageTypeOK
<1>7. CASE \E s \in Sockets : Refused(s)
  BY <1>0, <1>7 DEF Refused, PageTypeOK
<1>8. QED
  BY <1>1, <1>2, <1>3, <1>4, <1>5, <1>6, <1>7

\* What the page does without running, connecting or adding rows.
LEMMA PageQuietly == ASSUME SqlInv, PageQuiet PROVE SqlTypeOK' /\ NothingNew /\ PageBehind
<1> USE DEF SqlInv
<1>1. SUFFICES NothingNew /\ PageBehind /\ PageTypeOK' /\ closed' \in BOOLEAN
  BY TypesTogether
<1>2. PageTypeOK /\ closed \in BOOLEAN /\ socket \in Numbers /\ requestId \in Numbers
  BY DEF PageTypeOK, SqlTypeOK, Numbers
<1>3. ui = "Completed" => requestId # 0 /\ Completed(requestId)
  BY DEF PageFits
<1>4. ASSUME UNCHANGED <<serverVars, issued>>, UpQuiet, DownQuiet
      PROVE NothingNew /\ closed' \in BOOLEAN
  BY <1>2, <1>4, TaskSame, HandlerSame DEF NothingNew, serverVars, handlerVars
<1>5. ASSUME UNCHANGED <<issued, serverVars>>, UNCHANGED <<up, down>>
      PROVE NothingNew /\ closed' \in BOOLEAN
  BY <1>4, <1>5, UpSame, DownSame
<1>6. CASE Execute
  <2>1. NothingNew /\ closed' \in BOOLEAN /\ PageBehind
    BY <1>5, <1>6 DEF Execute, PageBehind
  <2>2. QED
    BY <1>2, <1>6, <2>1, PageTypes
<1>7. CASE CheckFails \/ CheckIgnored
  <2>1. NothingNew /\ closed' \in BOOLEAN /\ PageBehind
    BY <1>3, <1>5, <1>7 DEF CheckFails, CheckIgnored, PageBehind
  <2>2. QED
    BY <1>2, <1>7, <2>1, PageTypes
<1>8. CASE Cancel
  <2>1. UpQuiet /\ DownQuiet
    <3>1. CASE executing /\ Open
      <4>1. Up(socket, Frame("cancel", requestId, 0)) /\ UNCHANGED down
        BY <1>8, <3>1 DEF Cancel
      <4>2. UpQuiet
        BY <1>2, <4>1, UpOther DEF Numbers
      <4>3. QED
        BY <4>1, <4>2, DownSame
    <3>2. CASE ~ (executing /\ Open)
      BY <1>8, <3>2, HangsUp DEF Cancel, Disconnect
    <3>3. QED
      BY <3>1, <3>2
  <2>2. NothingNew /\ closed' \in BOOLEAN
    BY <1>4, <1>8, <2>1 DEF Cancel
  <2>3. PageBehind
    BY <1>8 DEF Cancel, Disconnect, PageBehind
  <2>4. QED
    BY <1>2, <1>8, <2>2, <2>3, PageTypes
<1>9. CASE TimerFires
  <2>1. UpQuiet /\ DownQuiet
    BY <1>9, HangsUp DEF TimerFires, Disconnect
  <2>2. NothingNew /\ closed' \in BOOLEAN
    BY <1>4, <1>9, <2>1 DEF TimerFires
  <2>3. PageBehind
    BY <1>9 DEF TimerFires, Disconnect, PageBehind
  <2>4. QED
    BY <1>2, <1>9, <2>2, <2>3, PageTypes
<1>10. CASE Remount
  <2>1. NothingNew /\ closed' \in BOOLEAN
    BY <1>4, <1>10, HangsUp DEF Remount
  <2>2. QED
    <3>1. PageBehind
      BY <1>10 DEF Remount, Reset, PageBehind
    <3>2. QED
      BY <1>2, <1>10, <2>1, <3>1, PageTypes
<1>11. CASE Drop
  <2>1. NothingNew /\ closed' \in BOOLEAN
    BY <1>4, <1>11, Drops DEF Drop, pageVars
  <2>2. QED
    BY <1>2, <1>3, <1>11, <2>1 DEF Drop, pageVars, PageTypeOK, PageBehind
<1>12. ASSUME NEW f, Arrives(f), OnOther(f)
       PROVE NothingNew /\ PageBehind /\ PageTypeOK' /\ closed' \in BOOLEAN
  <2>1. NothingNew /\ closed' \in BOOLEAN
    BY <1>4, <1>12, Consumes, UpSame DEF OnOther, pageVars
  <2>2. QED
    BY <1>2, <1>3, <1>12, <2>1 DEF OnOther, pageVars, PageTypeOK, PageBehind
<1>13. ASSUME NEW f, Arrives(f), OnVerdict(f)
       PROVE NothingNew /\ PageBehind /\ PageTypeOK' /\ closed' \in BOOLEAN
  <2>1. NothingNew /\ closed' \in BOOLEAN
    BY <1>4, <1>13, Consumes, UpSame DEF OnVerdict
  <2>2. requestId \in Ids /\ (f.type = "complete" => Completed(requestId))
    BY <1>13, VerdictsComplete DEF OnVerdict
  <2>3. PageBehind
    BY <1>13, <2>2 DEF OnVerdict, Verdicts, Ids, PageBehind
  <2>4. QED
    BY <1>2, <1>13, <2>1, <2>3 DEF OnVerdict, Verdicts, PageTypeOK
<1>14. ASSUME NEW f, Arrives(f), OnClose(f)
       PROVE NothingNew /\ PageBehind /\ PageTypeOK' /\ closed' \in BOOLEAN
  <2>1. NothingNew /\ closed' \in BOOLEAN
    BY <1>4, <1>14, Consumes, UpSame DEF OnClose
  <2>2. PageBehind
    BY <1>3, <1>14 DEF OnClose, Reset, PageBehind
  <2>3. QED
    BY <1>2, <1>14, <2>1, <2>2, PageTypes
<1>15. ASSUME NEW s \in Sockets, Refused(s)
       PROVE NothingNew /\ PageBehind /\ PageTypeOK' /\ closed' \in BOOLEAN
  <2>1. UpQuiet /\ DownQuiet
    BY <1>15, UpSet, DownSame DEF Refused
  <2>2. TaskQuiet
    BY <1>15, TaskSame DEF Refused
  <2>3. HandlerQuiet
    <3>1. ~ ActiveTask(s) /\ handler[s] = "connecting"
      BY <1>15 DEF Refused, AnsweredSoFar
    <3>2. handler' \in [Sockets -> Handlers] /\ handler'[s] = "gone" /\ \A t \in Sockets : t # s =>
              handler'[t] = handler[t]
      BY <1>15 DEF Refused, SqlTypeOK, Handlers
    <3>3. \A t \in Sockets : ActiveTask(t)' <=> ActiveTask(t)
      BY <1>15 DEF Refused, ActiveTask
    <3>4. QED
      BY <3>1, <3>2, <3>3 DEF HandlerQuiet, AnsweredSoFar
  <2>4. PageBehind
    BY <1>3, <1>15 DEF Refused, PageBehind
  <2>5. PageTypeOK' /\ closed' \in BOOLEAN
    BY <1>2, <1>15, PageTypes DEF Refused
  <2>6. QED
    BY <1>15, <2>1, <2>2, <2>3, <2>4, <2>5 DEF Refused, NothingNew
<1>16. QED
  BY <1>6, <1>7, <1>8, <1>9, <1>10, <1>11, <1>12, <1>13, <1>14, <1>15 DEF PageQuiet

\* What the server does leaves the page as it is.
LEMMA PageStays == ASSUME SqlInv, UNCHANGED <<pageVars, replies>> PROVE PageTypeOK' /\ PageBehind
<1>1. PageTypeOK /\ (ui = "Completed" => requestId # 0 /\ Completed(requestId))
  BY DEF SqlInv, SqlTypeOK, PageTypeOK, PageFits
<1>2. QED
  BY <1>1 DEF pageVars, PageTypeOK, PageBehind

\* What the server does without answering, accepting or reading an acknowledgement.
LEMMA ServerQuietly == ASSUME SqlInv, ServerQuiet PROVE SqlTypeOK' /\ NothingNew /\ PageBehind
<1>0. SqlTypeOK /\ AnsweredSoFar
  BY DEF SqlInv
<1>1. SUFFICES /\ UpQuiet /\ DownQuiet /\ TaskQuiet /\ HandlerQuiet
               /\ UNCHANGED <<pageVars, active, expected, replies>> /\ closed' \in BOOLEAN
  <2>1. PageTypeOK' /\ PageBehind
    BY <1>1, PageStays
  <2>2. NothingNew
    BY <1>1 DEF NothingNew, pageVars
  <2>3. QED
    BY <1>0, <1>1, <2>1, <2>2, TypesTogether
<1>2. CASE Shutdown
  <2>1. UNCHANGED <<pageVars, up, down, handler, active, expected, replies>>
            /\ closed' \in BOOLEAN /\ CancelTasks(Sockets)
    BY <1>2 DEF Shutdown
  <2>2. TaskQuiet
    BY <1>0, <2>1, Cancels
  <2>3. HandlerQuiet
    BY <1>0, <2>1, <2>2 DEF HandlerQuiet, TaskQuiet, AnsweredSoFar, SqlTypeOK
  <2>4. QED
    BY <1>0, <2>1, <2>2, <2>3, UpSame, DownSame
<1>3. ASSUME NEW s \in Sockets, Leave(s), handler[s] \in {"reading", "authorizing"}
      PROVE  UpQuiet /\ TaskQuiet /\ HandlerQuiet
  <2>1. /\ UpQuiet /\ TaskQuiet
        /\ handler' \in [Sockets -> Handlers]
        /\ \A t \in Sockets : t # s => handler'[t] = handler[t] /\ task'[t] = task[t]
        /\ handler'[s] \in {"leaving", "gone"} /\ (handler'[s] = "gone" => ~ ActiveTask(s)')
    BY <1>0, <1>3, Leaves
  <2>2. \A t \in Sockets : t # s /\ ActiveTask(t)' => handler'[t] \notin {"none", "connecting", "gone"}
    BY <1>0, <2>1 DEF AnsweredSoFar, ActiveTask
  <2>3. QED
    BY <1>3, <2>1, <2>2 DEF HandlerQuiet
<1>4. ASSUME NEW s \in Sockets, NEW x \in Closes, Down(s, Frame(x, 0, 0)) PROVE DownQuiet
  <2>1. 0 \in Numbers /\ x \in {"cancelled", "error"} \cup Closes
    BY DEF Numbers
  <2>2. QED
    BY <1>0, <1>4, <2>1, DownOther
<1>5. ASSUME NEW s \in Sockets, NEW f, Reads(s, f), OnDisconnect(s, f)
      PROVE  /\ UpQuiet /\ DownQuiet /\ TaskQuiet /\ HandlerQuiet
             /\ UNCHANGED <<pageVars, active, expected, replies>> /\ closed' \in BOOLEAN
  BY <1>0, <1>3, <1>5, DownSame DEF OnDisconnect, Reads, SqlTypeOK
<1>6. ASSUME NEW s \in Sockets, NEW f, Reads(s, f), OnWrongAck(s, f)
      PROVE  /\ UpQuiet /\ DownQuiet /\ TaskQuiet /\ HandlerQuiet
             /\ UNCHANGED <<pageVars, active, expected, replies>> /\ closed' \in BOOLEAN
  <2>1. DownQuiet
    BY <1>4, <1>6 DEF OnWrongAck, Closes
  <2>2. QED
    BY <1>0, <1>3, <1>6, <2>1 DEF OnWrongAck, Reads, SqlTypeOK
<1>7. ASSUME NEW s \in Sockets, NEW f, Reads(s, f), OnCancel(s, f)
      PROVE  /\ UpQuiet /\ DownQuiet /\ TaskQuiet /\ HandlerQuiet
             /\ UNCHANGED <<pageVars, active, expected, replies>> /\ closed' \in BOOLEAN
  <2>1. UpQuiet
    BY <1>0, <1>7, UpReads DEF OnCancel, Reads
  <2>2. UNCHANGED <<pageVars, down, active, expected, closed, replies>> /\ closed' \in BOOLEAN
    BY <1>0, <1>7 DEF OnCancel, SqlTypeOK
  <2>3. TaskQuiet /\ HandlerQuiet
    <3>1. CASE ActiveTask(s) /\ f.id = active[s]
      <4>1. CancelTasks({s}) /\ handler' = [handler EXCEPT ![s] = "cancelling"]
        BY <1>7, <3>1 DEF OnCancel
      <4>2. TaskQuiet /\ \A t \in Sockets \ {s} : task'[t] = task[t]
        BY <1>0, <4>1, Cancels
      <4>3. handler' \in [Sockets -> Handlers] /\ handler'[s] = "cancelling" /\ handler[s] = "reading"
            /\ \A t \in Sockets : t # s => handler'[t] = handler[t]
        BY <1>0, <1>7, <4>1 DEF SqlTypeOK, Handlers, Reads
      <4>4. \A t \in Sockets : t # s /\ ActiveTask(t)' =>
                handler'[t] \notin {"none", "connecting", "gone"}
        BY <1>0, <4>2, <4>3 DEF AnsweredSoFar, ActiveTask
      <4>5. QED
        BY <4>2, <4>3, <4>4 DEF HandlerQuiet
    <3>2. CASE ~ (ActiveTask(s) /\ f.id = active[s])
      <4>1. UNCHANGED <<task, ack, handler>>
        BY <1>7, <3>2 DEF OnCancel
      <4>2. QED
        BY <1>0, <4>1, TaskSame, HandlerSame
    <3>3. QED
      BY <3>1, <3>2
  <2>4. QED
    BY <1>0, <2>1, <2>2, <2>3, DownSame
<1>8. ASSUME NEW s \in Sockets, Denied(s)
      PROVE  /\ UpQuiet /\ DownQuiet /\ TaskQuiet /\ HandlerQuiet
             /\ UNCHANGED <<pageVars, active, expected, replies>> /\ closed' \in BOOLEAN
  <2>1. DownQuiet
    BY <1>4, <1>8 DEF Denied, Closes
  <2>2. QED
    BY <1>0, <1>3, <1>8, <2>1 DEF Denied, SqlTypeOK
<1>9. ASSUME NEW s \in Sockets, IdleTimeout(s)
      PROVE  /\ UpQuiet /\ DownQuiet /\ TaskQuiet /\ HandlerQuiet
             /\ UNCHANGED <<pageVars, active, expected, replies>> /\ closed' \in BOOLEAN
  <2>1. DownQuiet
    BY <1>4, <1>9 DEF IdleTimeout, Closes
  <2>2. QED
    BY <1>0, <1>3, <1>9, <2>1 DEF IdleTimeout, SqlTypeOK
<1>10. ASSUME NEW s \in Sockets, Continue(s)
      PROVE  /\ UpQuiet /\ DownQuiet /\ TaskQuiet /\ HandlerQuiet
             /\ UNCHANGED <<pageVars, active, expected, replies>> /\ closed' \in BOOLEAN
  <2>1. UNCHANGED <<pageVars, up, down, active, expected, ack, task, closed, replies>>
            /\ closed' \in BOOLEAN
    BY <1>0, <1>10 DEF Continue, SqlTypeOK
  <2>2. /\ handler' \in [Sockets -> Handlers] /\ handler'[s] \in {"gone", "reading"}
        /\ handler[s] \in {"cancelling", "leaving"} /\ ~ ActiveTask(s)
        /\ \A t \in Sockets : t # s => handler'[t] = handler[t]
    BY <1>0, <1>10 DEF Continue, SqlTypeOK, Handlers
  <2>3. \A t \in Sockets : ActiveTask(t)' <=> ActiveTask(t)
    BY <2>1 DEF ActiveTask
  <2>4. HandlerQuiet
    BY <1>0, <2>2, <2>3 DEF HandlerQuiet, AnsweredSoFar
  <2>5. QED
    BY <1>0, <2>1, <2>4, UpSame, DownSame, TaskSame
<1>11. ASSUME NEW s \in Sockets, TaskAcked(s) \/ TaskCompletes(s) \/ TaskFails(s) \/ Settled(s)
      PROVE  /\ UpQuiet /\ DownQuiet /\ TaskQuiet /\ HandlerQuiet
             /\ UNCHANGED <<pageVars, active, expected, replies>> /\ closed' \in BOOLEAN
  <2>1. TaskQuiet /\ UNCHANGED <<pageVars, up, down, handler, active, expected, closed, replies>>
    BY <1>0, <1>11, QueryGoesOn
  <2>2. HandlerQuiet
    BY <1>0, <2>1 DEF HandlerQuiet, TaskQuiet, AnsweredSoFar, SqlTypeOK
  <2>3. QED
    BY <1>0, <2>1, <2>2, UpSame, DownSame DEF SqlTypeOK
<1>12. QED
  BY <1>2, <1>5, <1>6, <1>7, <1>8, <1>9, <1>10, <1>11 DEF ServerQuiet

\* None of those steps can break the invariant.
LEMMA QuietKeeps == ASSUME SqlInv, SqlTypeOK', NothingNew, PageBehind PROVE SqlInv'
<1> USE DEF NothingNew
<1>0. /\ \A s \in Sockets : /\ active'[s] = active[s] /\ expected'[s] = expected[s]
                            /\ (ActiveTask(s)' => ActiveTask(s)) /\ (Past(s)' => Past(s))
                                   /\ task'[s].batch = task[s].batch
                            /\ task'[s].at \in {"created", "acking"} => task'[s].at = task[s].at
      /\ \A r \in Ids : replies'[r] = replies[r] /\ (Completed(r)' <=> Completed(r))
      /\ \A s \in Sockets : \A r : Engaged(s, r)' => Engaged(s, r)
  BY DEF TaskQuiet, HandlerQuiet, Engaged, Completed
<1>1. Fresh'
  <2>1. \A r \in Ids : Unsent(r) => Unsent(r)'
    BY <1>0 DEF Unsent, UpQuiet, NoNewExecute, NoNewAck, Ids, Numbers
  <2>2. QED
    BY <2>1 DEF SqlInv, Fresh, HandlerQuiet, Sockets
<1>2. SentOnce'
  BY <1>0 DEF SqlInv, SentOnce, UpQuiet, NoNewExecute
<1>3. AnsweredSoFar'
  BY <1>0 DEF SqlInv, AnsweredSoFar, HandlerQuiet
<1>4. RowsSent'
  BY <1>0 DEF SqlInv, RowsSent, DownQuiet, NoNewRows, NoNewComplete
<1>5. PageFits'
  <2>1. CASE requestId' = requestId /\ shown' = shown /\ batch' = batch
    <3>1. requestId # 0 => requestId \in Ids /\ requestId \in Numbers
      BY DEF SqlInv, SqlTypeOK, Ids, Numbers
    <3>2. requestId # 0 =>
            /\ \A s \in Sockets : \A b \in 1 .. MaxBatches :
                   Frame("ack", requestId, b) \in Carried(up'[s]) => b <= shown
            /\ socket' # 0 =>
                   \A b \in 1 .. MaxBatches : Frame("rows", requestId, b) \in Carried(down'[socket']) =>
                 b = batch + 1 /\ shown = batch
      <4>1. socket' # 0 => socket' = socket /\ socket \in Sockets
        BY DEF SqlInv, SqlTypeOK, PageBehind, Sockets, Ids, Numbers
      <4>2. QED
        BY <3>1, <4>1 DEF SqlInv, PageFits, UpQuiet, DownQuiet, NoNewAck, NoNewRows
    <3>3. ui' = "Completed" => requestId # 0 /\ Completed(requestId)
      BY DEF PageBehind
    <3>4. QED
      BY <1>0, <2>1, <3>1, <3>2, <3>3 DEF SqlInv, PageFits
  <2>2. CASE requestId' = 0 /\ shown' = 0 /\ batch' = 0 /\ ui' # "Completed"
    BY <2>2 DEF PageFits
  <2>3. QED
    BY <2>1, <2>2 DEF PageBehind
<1>6. QED
  BY <1>1, <1>2, <1>3, <1>4, <1>5 DEF SqlInv

\* A step of the page that only leaves the server's variables alone.
LEMMA HandlerKept == ASSUME SqlInv, UNCHANGED serverVars
    PROVE  /\ \A s \in Sockets : \A r : Engaged(s, r)' <=> Engaged(s, r)
           /\ \A s \in Sockets : (ActiveTask(s)' <=> ActiveTask(s)) /\ (Past(s)' <=> Past(s))
           /\ \A r : Completed(r)' <=> Completed(r)
           /\ AnsweredSoFar'
           /\ /\ handler' \in [Sockets -> Handlers] /\ active' \in [Sockets -> Numbers]
              /\ expected' \in [Sockets -> 0 .. MaxBatches]
                     /\ ack' \in [Sockets -> {"none", "pending", "done"}]
              /\ task' \in [Sockets -> Tasks] /\ closed' \in BOOLEAN
                     /\ replies' \in [Ids -> Seq(Replies)]
<1>1. UNCHANGED <<handler, active, expected, ack, task, closed, replies>>
  BY DEF serverVars, handlerVars
<1>2. /\ \A s \in Sockets : \A r : Engaged(s, r)' <=> Engaged(s, r)
      /\ \A s \in Sockets : (ActiveTask(s)' <=> ActiveTask(s)) /\ (Past(s)' <=> Past(s))
      /\ \A r : Completed(r)' <=> Completed(r)
  BY <1>1 DEF Engaged, ActiveTask, Past, Completed
<1>3. AnsweredSoFar'
  BY <1>1, <1>2 DEF SqlInv, AnsweredSoFar
<1>4. QED
  BY <1>1, <1>2, <1>3 DEF SqlInv, SqlTypeOK

\* Rows arrive: the batch after the last, of a query that is not complete.
LEMMA RowsArrive == ASSUME SqlInv, NEW f, Arrives(f), OnRows(f) PROVE SqlInv'
<1>0. SqlTypeOK /\ UNCHANGED <<serverVars, issued, socket, requestId, ui>>
  BY DEF SqlInv, OnRows
<1>1. DownQuiet /\ socket \in Sockets /\ f \in DownFrames /\ f \in Carried(down[socket])
      /\ (OnceIn(down[socket], f) => f \notin Carried(down'[socket]))
  BY <1>0, Consumes DEF OnRows
<1>2. PICK r \in Ids, b \in 1 .. MaxBatches : f = Frame("rows", r, b)
  BY <1>1 DEF DownFrames, Frame, Verdicts, Closes, OnRows
<1>3. f.id = r /\ f.batch = b /\ f.type = "rows"
  BY <1>2 DEF Frame
<1>4. requestId = r /\ b = batch + 1 /\ batch' = b /\ requestId # 0 /\ socket # 0
  BY <1>0, <1>1, <1>3 DEF OnRows, Ids, Sockets
<1>5. shown = batch /\ f \notin Carried(down'[socket])
      /\ b \in 1 .. Len(replies[r]) /\ Len(replies[r]) \in Nat /\ replies[r][b].type = "rows"
  <2>1. OnceIn(down[socket], f) /\ b <= Len(replies[r]) /\ replies[r][b].type = "rows"
    BY <1>1, <1>2 DEF SqlInv, RowsSent
  <2>2. Len(replies[r]) \in Nat
    BY <1>0 DEF SqlTypeOK
  <2>3. shown = batch
    BY <1>1, <1>2, <1>4 DEF SqlInv, PageFits
  <2>4. QED
    BY <1>1, <2>1, <2>2, <2>3
<1>6. /\ UpTyped /\ NoNewExecute /\ shown' \in {shown, b}
      /\ \A t \in Sockets, q \in Numbers, c \in 1 .. MaxBatches :
            Frame("ack", q, c) \in Carried(up'[t]) =>
                Frame("ack", q, c) \in Carried(up[t]) \/ (q = r /\ c = b /\ shown' = b)
  <2>1. CASE ui = "Running"
    <3>1. shown' = b /\ Up(socket, Frame("ack", r, b))
      BY <1>0, <1>3, <1>4, <1>5, <2>1 DEF OnRows
    <3>2. Frame("ack", r, b) \in UpFrames /\ socket \in 0 .. MaxRequests
      BY <1>1 DEF UpFrames, Ids, Numbers, Sockets
    <3>3. \A q, c : Executes(q) # Frame("ack", r, b) /\ (Frame("ack", q, c) = Frame("ack", r, b) => q = r /\ c = b)
      BY FramesApart
    <3>4. QED
      BY <1>0, <3>1, <3>2, <3>3, UpAdds DEF NoNewExecute
  <2>2. CASE ui # "Running"
    BY <1>0, <2>2, UpSame DEF OnRows, UpQuiet, NoNewAck
  <2>3. QED
    BY <2>1, <2>2
<1>7. SqlTypeOK'
  <2>1. UNCHANGED <<ui, checks, executing, requestId, socket, timers, issued>>
    BY DEF OnRows
  <2>2. batch' \in 0 .. MaxBatches /\ shown' \in 0 .. MaxBatches
    BY <1>0, <1>2, <1>4, <1>6 DEF SqlTypeOK
  <2>3. up' \in [Sockets -> Seq(UpFrames)] /\ down' \in [Sockets -> Seq(DownFrames)]
    BY <1>1, <1>6 DEF UpTyped, DownQuiet, DownTyped
  <2>4. QED
    BY <1>0, <2>1, <2>2, <2>3, HandlerKept DEF SqlTypeOK
<1>8. Fresh'
  <2>1. UNCHANGED <<handler, replies, issued>>
    BY <1>0 DEF serverVars, handlerVars
  <2>2. \A q \in Ids : Unsent(q) => Unsent(q)'
    <3> SUFFICES ASSUME NEW q \in Ids, Unsent(q) PROVE Unsent(q)'
      OBVIOUS
    <3>1. q # r
      BY <1>0, <1>5 DEF Unsent, SqlTypeOK
    <3>2. q \in Numbers
      BY DEF Ids, Numbers
    <3>3. QED
      BY <1>0, <1>6, <2>1, <3>1, <3>2, HandlerKept DEF Unsent, NoNewExecute
  <2>3. QED
    BY <2>1, <2>2 DEF SqlInv, Fresh
<1>9. SentOnce'
  BY <1>0, <1>6, HandlerKept DEF SqlInv, SentOnce, NoNewExecute, serverVars
<1>10. RowsSent'
  BY <1>0, <1>1, HandlerKept DEF SqlInv, RowsSent, DownQuiet, NoNewRows, NoNewComplete, serverVars
<1>11. PageFits'
  <2>a. batch \in Nat /\ b \in Nat /\ replies'[r] = replies[r] /\ requestId' = r /\ batch' = b
    BY <1>0, <1>2, <1>4 DEF SqlTypeOK, serverVars
  <2>b. shown' \in {batch, b} /\ b = batch + 1 /\ b <= Len(replies[r]) /\ Len(replies[r]) \in Nat
    <3>1. shown' \in {shown, b}
      BY <1>6
    <3>2. QED
      BY <1>4, <1>5, <3>1
  <2>c. shown' \in Nat /\ shown' <= b /\ b <= shown' + 1
    <3>1. batch \in Nat /\ b \in Nat /\ b = batch + 1 /\ (shown' = batch \/ shown' = b)
      BY <2>a, <2>b
    <3>2. CASE shown' = batch
      BY <3>1, <3>2
    <3>3. CASE shown' = b
      BY <3>1, <3>3
    <3>4. QED
      BY <3>1, <3>2, <3>3
  <2>1. /\ shown' <= batch' /\ batch' <= Len(replies'[r]) /\ b <= shown' + 1
        /\ requestId' = r /\ batch' = b
    BY <2>a, <2>b, <2>c
  <2>2. ~ Completed(r)
    <3>1. Completed(r) => shown = batch /\ batch = Len(replies[r]) - 1
      BY <1>4 DEF SqlInv, PageFits
    <3>2. QED
      BY <1>0, <1>4, <1>5, <3>1 DEF Completed, SqlTypeOK
  <2>3. ui' # "Completed"
    BY <1>0, <1>4, <2>2 DEF SqlInv, PageFits
  <2>4. \A s \in Sockets : ~ (Engaged(s, r) /\ Past(s))
    <3> SUFFICES ASSUME NEW s \in Sockets, Engaged(s, r), Past(s) PROVE FALSE
      OBVIOUS
    <3>1. ActiveTask(s) /\ active[s] = r
      BY DEF Engaged, Past, ActiveTask
    <3>2. Len(replies[r]) = task[s].batch /\ batch = task[s].batch
      BY <1>4, <3>1 DEF SqlInv, AnsweredSoFar, PageFits
    <3>3. QED
      BY <1>0, <1>4, <1>5, <3>2 DEF SqlTypeOK
  <2>5. \A s \in Sockets : \A c \in 1 .. MaxBatches : Frame("ack", r, c) \in Carried(up'[s]) =>
            c <= shown'
    <3>1. r \in Numbers
      BY DEF Ids, Numbers
    <3>2. \A s \in Sockets : \A c \in 1 .. MaxBatches : Frame("ack", r, c) \in Carried(up[s]) =>
              c <= shown
      BY <1>4 DEF SqlInv, PageFits
    <3>3. shown <= shown'
      BY <1>0, <1>2, <1>4, <1>5, <1>6 DEF SqlTypeOK
    <3>4. shown \in Nat /\ shown' \in Nat
      BY <1>0, <1>2, <1>6 DEF SqlTypeOK
    <3>5. QED
      BY <1>6, <3>1, <3>2, <3>3, <3>4
  <2>6. \A c \in 1 .. MaxBatches : Frame("rows", r, c) \notin Carried(down'[socket])
    <3> SUFFICES ASSUME NEW c \in 1 .. MaxBatches,
        Frame("rows", r, c) \in Carried(down'[socket]) PROVE FALSE
      OBVIOUS
    <3>1. Frame("rows", r, c) \in Carried(down[socket])
      BY <1>1 DEF DownQuiet, NoNewRows
    <3>2. c = batch + 1
      BY <1>1, <1>4, <3>1 DEF SqlInv, PageFits
    <3>3. QED
      BY <1>2, <1>4, <1>5, <3>2
  <2>7. QED
    BY <1>0, <2>1, <2>2, <2>3, <2>4, <2>5, <2>6, HandlerKept DEF PageFits
<1>12. QED
  BY <1>0, <1>7, <1>8, <1>9, <1>10, <1>11, HandlerKept DEF SqlInv

\* A request that gets its number was never sent.
LEMMA NextIsFresh == ASSUME SqlInv, CheckPasses
    PROVE  /\ requestId' \in Ids /\ issued' = requestId' /\ requestId' = issued + 1 /\ ui = "Running"
           /\ requestId' # 0 /\ requestId' > issued
           /\ Unsent(requestId') /\ handler[requestId'] = "none"
           /\ batch' = 0 /\ shown' = 0
           /\ checks' \in Nat /\ issued' \in Numbers /\ issued' + checks' <= MaxRequests
<1>1. issued \in Nat /\ checks \in Nat /\ checks > 0 /\ issued + checks <= MaxRequests
          /\ MaxRequests \in Nat
  BY DEF SqlInv, SqlTypeOK, Numbers, CheckPasses
<1>2. issued' = issued + 1 /\ requestId' = issued' /\ checks' = checks - 1 /\ batch' = 0
          /\ shown' = 0 /\ ui = "Running"
  BY DEF CheckPasses
<1>3. issued + 1 \in Nat /\ issued + 1 <= MaxRequests /\ issued + 1 > 0 /\ checks - 1 \in Nat
      /\ issued + 1 + (checks - 1) <= MaxRequests /\ issued + 1 > issued
  BY <1>1
<1>4. requestId' \in Ids /\ issued' \in Numbers
  BY <1>1, <1>2, <1>3 DEF Ids, Numbers
<1>5. Unsent(requestId') /\ handler[requestId'] = "none"
  BY <1>2, <1>3, <1>4 DEF SqlInv, Fresh
<1>6. QED
  BY <1>2, <1>3, <1>4, <1>5

\* A query is sent on the open connection.
LEMMA RunsOnOpen == ASSUME SqlInv, RunOnOpen PROVE SqlInv'
<1>n. PICK n \in Ids : requestId' = n
  BY NextIsFresh DEF RunOnOpen
<1>0. /\ SqlTypeOK /\ UNCHANGED <<serverVars, down, ui, socket>>
      /\ n \in Ids /\ issued' = n /\ n = issued + 1 /\ n # 0 /\ n > issued
      /\ Unsent(n) /\ handler[n] = "none" /\ batch' = 0 /\ shown' = 0 /\ ui = "Running"
      /\ checks' \in Nat /\ issued' \in Numbers /\ issued' + checks' <= MaxRequests
  BY <1>n, NextIsFresh DEF SqlInv, RunOnOpen
<1>1. executing' = TRUE /\ timers' \subseteq {"current", "forgotten"} /\ Up(socket, Executes(n))
          /\ requestId' = n
  BY <1>n DEF RunOnOpen, Arm, Executes
<1>2. socket \in Numbers /\ Executes(n) \in UpFrames /\ socket \in 0 .. issued /\ issued \in Nat
  <2>1. Executes(n) \in UpFrames
    BY <1>0 DEF UpFrames
  <2>2. issued \in Nat /\ socket \in 0 .. issued /\ issued <= MaxRequests
    BY <1>0 DEF SqlTypeOK, Numbers
  <2>3. QED
    BY <2>1, <2>2 DEF Numbers
<1>3. /\ UpTyped
      /\ \A t \in Sockets :
             Carried(up'[t]) \subseteq Carried(up[t]) \cup (IF t = socket THEN {Executes(n)} ELSE {})
      /\ \A t \in Sockets : \A g :
             OnceIn(up[t], g) /\ (g = Executes(n) => Executes(n) \notin Carried(up[t])) =>
                 OnceIn(up'[t], g)
  BY <1>0, <1>1, <1>2, UpAdds DEF Numbers
<1>4. \A q, b : Executes(q) # Frame("ack", n, b) /\ Executes(n) # Frame("ack", q, b) /\ (Executes(q) = Executes(n) => q = n)
  BY FramesApart
<1>5. /\ \A t \in Sockets, q \in Ids : q # n /\ Executes(q) \in Carried(up'[t]) =>
             Executes(q) \in Carried(up[t])
      /\ \A t \in Sockets, q \in Ids : q # n /\ OnceIn(up[t], Executes(q)) =>
             OnceIn(up'[t], Executes(q))
      /\ \A t \in Sockets :
             OnceIn(up'[t], Executes(n)) /\ (Executes(n) \in Carried(up'[t]) => t = socket)
      /\ NoNewAck
  <2>1. \A t \in Sockets : Executes(n) \notin Carried(up[t]) /\ OnceIn(up[t], Executes(n))
    BY <1>0 DEF Unsent, SqlInv, SentOnce
  <2>2. NoNewAck
    BY <1>3, <1>4 DEF NoNewAck
  <2>3. QED
    BY <1>3, <1>4, <2>1, <2>2
<1>6. SqlTypeOK'
  <2>1. requestId' \in 0 .. issued' /\ socket' \in 0 .. issued' /\ 0 \in 0 .. MaxBatches
    BY <1>0, <1>1, <1>2
  <2>2. UNCHANGED <<ui, down>> /\ executing' \in BOOLEAN
    BY <1>0, <1>1
  <2>3. QED
    BY <1>0, <1>1, <1>3, <2>1, <2>2, HandlerKept DEF SqlTypeOK, UpTyped
<1>7. UNCHANGED <<handler, replies, task, expected, active>>
  BY <1>0 DEF serverVars, handlerVars
<1>e. \A t \in Sockets, q \in Ids : Engaged(t, q)' <=> Engaged(t, q)
  BY <1>0, HandlerKept
<1>8. Fresh'
  <2>1. \A q \in Ids : q # n /\ Unsent(q) => Unsent(q)'
    <3> SUFFICES ASSUME NEW q \in Ids, q # n, Unsent(q) PROVE Unsent(q)'
      OBVIOUS
    <3>1. q \in Numbers
      BY DEF Ids, Numbers
    <3>2. \A t \in Sockets : Executes(q) \notin Carried(up'[t]) /\ ~ Engaged(t, q)'
      BY <1>5, <1>e DEF Unsent
    <3>3. \A t \in Sockets, b \in 1 .. MaxBatches : Frame("ack", q, b) \notin Carried(up'[t])
      BY <1>5, <3>1 DEF Unsent, NoNewAck
    <3>4. replies'[q] = <<>>
      BY <1>7 DEF Unsent
    <3>5. QED
      BY <3>2, <3>3, <3>4 DEF Unsent
  <2>2. \A q \in Ids : q > issued' => q > issued /\ q # n
    BY <1>0, <1>2 DEF Ids
  <2>3. \A q \in Ids : handler[q] = "connecting" => q # n
    BY <1>0
  <2>4. QED
    BY <1>7, <2>1, <2>2, <2>3 DEF SqlInv, Fresh
<1>9. SentOnce'
  <2>1. ASSUME NEW q \in Ids, q # n
        PROVE  /\ \A s \in Sockets : OnceIn(up'[s], Executes(q))
               /\ \A s \in Sockets : Executes(q) \in Carried(up'[s]) =>
                     /\ replies'[q] = <<>>
                     /\ \A t \in Sockets :
                            ~ Engaged(t, q)' /\ (Executes(q) \in Carried(up'[t]) => t = s)
               /\ \A s, t \in Sockets : Engaged(s, q)' /\ Engaged(t, q)' => s = t
    <3>1. /\ \A s \in Sockets : OnceIn(up[s], Executes(q))
          /\ \A s \in Sockets : Executes(q) \in Carried(up[s]) =>
                /\ replies[q] = <<>>
                /\ \A t \in Sockets : ~ Engaged(t, q) /\ (Executes(q) \in Carried(up[t]) => t = s)
          /\ \A s, t \in Sockets : Engaged(s, q) /\ Engaged(t, q) => s = t
      BY DEF SqlInv, SentOnce
    <3>2. QED
      BY <1>5, <1>7, <1>e, <2>1, <3>1
  <2>2. /\ replies'[n] = <<>> /\ \A t \in Sockets : ~ Engaged(t, n)'
    BY <1>0, <1>7, HandlerKept DEF Unsent
  <2>3. QED
    BY <1>5, <2>1, <2>2 DEF SentOnce
<1>10. RowsSent'
  BY <1>0, <1>7, HandlerKept DEF SqlInv, RowsSent
<1>11. PageFits'
  <2>1. replies[n] = <<>> /\ Len(replies[n]) = 0 /\ ~ Completed(n)
    BY <1>0 DEF Unsent, Completed
  <2>2. \A s \in Sockets, b \in 1 .. MaxBatches : Frame("ack", n, b) \notin Carried(up'[s])
    BY <1>0, <1>5 DEF Unsent, NoNewAck, Ids, Numbers
  <2>3. \A s \in Sockets, b \in 1 .. MaxBatches : Frame("rows", n, b) \notin Carried(down'[s])
    BY <1>0, <2>1 DEF SqlInv, RowsSent
  <2>4. \A s \in Sockets : ~ Engaged(s, n)
    BY <1>0 DEF Unsent
  <2>5. socket # 0 => socket \in Sockets
    BY <1>2 DEF Sockets, Ids, Numbers
  <2>6. QED
    BY <1>0, <1>1, <1>7, <2>1, <2>2, <2>3, <2>4, <2>5, HandlerKept DEF PageFits
<1>12. QED
  BY <1>0, <1>6, <1>8, <1>9, <1>10, <1>11, HandlerKept DEF SqlInv

\* A connection is opened for a query.
LEMMA Connects == ASSUME SqlInv, Connect PROVE SqlInv'
<1>n. PICK n \in Ids : requestId' = n
  BY NextIsFresh DEF Connect
<1>0. /\ SqlTypeOK /\ UNCHANGED <<ui, executing, active, expected, ack, task, closed, replies>>
      /\ n \in Ids /\ issued' = n /\ n = issued + 1 /\ n # 0 /\ n > issued
      /\ Unsent(n) /\ handler[n] = "none" /\ batch' = 0 /\ shown' = 0 /\ ui = "Running"
      /\ checks' \in Nat /\ issued' \in Numbers /\ issued' + checks' <= MaxRequests
  BY <1>n, NextIsFresh DEF SqlInv, Connect
<1>1. timers' \subseteq {"current", "forgotten"} /\ HangUp /\ requestId' = n /\ socket' = n
      /\ handler' = [handler EXCEPT ![n] = "connecting"]
  <2>1. timers' = timers \cup {"current"}
    BY DEF Connect
  <2>2. QED
    BY <1>n, <1>0, <2>1 DEF Connect, SqlTypeOK
<1>2. UpQuiet /\ DownQuiet
  BY <1>0, <1>1, HangsUp
<1>3. /\ handler' \in [Sockets -> Handlers] /\ handler'[n] = "connecting"
      /\ \A t \in Sockets : t # n => handler'[t] = handler[t]
  BY <1>0, <1>1 DEF SqlTypeOK, Handlers, Sockets
<1>4. ~ ActiveTask(n) /\ n \in Sockets
  BY <1>0 DEF SqlInv, AnsweredSoFar, Sockets
<1>5. /\ \A t \in Sockets, q \in Ids : Engaged(t, q)' <=> Engaged(t, q)
      /\ \A t \in Sockets : (ActiveTask(t)' <=> ActiveTask(t)) /\ (Past(t)' <=> Past(t))
      /\ \A q \in Ids : Completed(q)' <=> Completed(q)
  <2>1. /\ \A t \in Sockets : (ActiveTask(t)' <=> ActiveTask(t)) /\ (Past(t)' <=> Past(t))
        /\ \A q \in Ids : Completed(q)' <=> Completed(q)
    BY <1>0 DEF ActiveTask, Past, Completed
  <2>2. \A t \in Sockets : handler'[t] = "authorizing" <=> handler[t] = "authorizing"
    BY <1>0, <1>3
  <2>3. QED
    BY <1>0, <2>1, <2>2 DEF Engaged
<1>6. SqlTypeOK'
  <2>1. requestId' \in 0 .. issued' /\ socket' \in 0 .. issued' /\ 0 \in 0 .. MaxBatches
    BY <1>0, <1>1 DEF SqlTypeOK, Numbers
  <2>2. QED
    BY <1>0, <1>1, <1>2, <1>3, <2>1 DEF SqlTypeOK, UpQuiet, UpTyped, DownQuiet, DownTyped
<1>8. Fresh'
  <2>1. \A q \in Ids : Unsent(q) => Unsent(q)'
    <3> SUFFICES ASSUME NEW q \in Ids, Unsent(q) PROVE Unsent(q)'
      OBVIOUS
    <3>1. q \in Numbers
      BY DEF Ids, Numbers
    <3>2. \A t \in Sockets : Executes(q) \notin Carried(up'[t]) /\ ~ Engaged(t, q)'
      BY <1>2, <1>5 DEF Unsent, UpQuiet, NoNewExecute
    <3>3. \A t \in Sockets, b \in 1 .. MaxBatches : Frame("ack", q, b) \notin Carried(up'[t])
      BY <1>2, <3>1 DEF Unsent, UpQuiet, NoNewAck
    <3>4. replies'[q] = <<>>
      BY <1>0 DEF Unsent
    <3>5. QED
      BY <3>2, <3>3, <3>4 DEF Unsent
  <2>2. issued \in Nat /\ \A q \in Ids : q \in Nat /\ (q > issued' => q > issued /\ q # n)
    BY <1>0 DEF Ids, SqlTypeOK, Numbers
  <2>3. ASSUME NEW q \in Ids, q > issued' PROVE Unsent(q)' /\ handler'[q] = "none"
    BY <1>3, <2>1, <2>2, <2>3 DEF SqlInv, Fresh, Sockets
  <2>4. ASSUME NEW q \in Ids, handler'[q] = "connecting" PROVE Unsent(q)'
    BY <1>0, <1>3, <2>1, <2>4 DEF SqlInv, Fresh, Sockets
  <2>5. QED
    BY <2>3, <2>4 DEF Fresh
<1>9. SentOnce'
  BY <1>0, <1>2, <1>5 DEF SqlInv, SentOnce, UpQuiet, NoNewExecute
<1>a. AnsweredSoFar'
  <2>1. \A t \in Sockets : ActiveTask(t) => t # n
    BY <1>4
  <2>2. \A t \in Sockets : handler'[t] = "authorizing" => handler[t] = "authorizing"
    BY <1>3
  <2>3. QED
    BY <1>0, <1>3, <1>5, <2>1, <2>2 DEF SqlInv, AnsweredSoFar
<1>10. RowsSent'
  BY <1>0, <1>2, <1>5 DEF SqlInv, RowsSent, DownQuiet, NoNewRows, NoNewComplete
<1>11. PageFits'
  <2>1. replies[n] = <<>> /\ Len(replies[n]) = 0 /\ ~ Completed(n)
    BY <1>0 DEF Unsent, Completed
  <2>2. \A s \in Sockets, b \in 1 .. MaxBatches : Frame("ack", n, b) \notin Carried(up'[s])
    BY <1>0, <1>2 DEF Unsent, UpQuiet, NoNewAck, Ids, Numbers
  <2>3. \A s \in Sockets, b \in 1 .. MaxBatches : Frame("rows", n, b) \notin Carried(down'[s])
    BY <1>0, <1>2, <2>1 DEF SqlInv, RowsSent, DownQuiet, NoNewRows
  <2>4. \A s \in Sockets : ~ Engaged(s, n)
    BY <1>0 DEF Unsent
  <2>6. QED
    BY <1>0, <1>1, <1>4, <1>5, <2>1, <2>2, <2>3, <2>4 DEF PageFits
<1>12. QED
  BY <1>6, <1>8, <1>9, <1>a, <1>10, <1>11 DEF SqlInv

\* A connection opens, and its query is sent unless it was given up.
LEMMA Opens == ASSUME SqlInv, NEW s \in Sockets, Opened(s) PROVE SqlInv'
<1>0. /\ SqlTypeOK
      /\ UNCHANGED <<ui, checks, requestId, batch, shown, socket, issued, down, active, expected, ack, task, closed, replies>>
      /\ handler[s] = "connecting" /\ Unsent(s) /\ s \in Ids
      /\ handler' = [handler EXCEPT ![s] = "reading"]
  BY DEF SqlInv, Fresh, Opened, Sockets
<1>1. executing' \in BOOLEAN /\ timers' \subseteq {"current", "forgotten"}
      /\ (Up(s, Executes(s)) \/ UNCHANGED up)
  BY <1>0 DEF Opened, Executes, SqlTypeOK
<1>2. s \in 0 .. MaxRequests /\ Executes(s) \in UpFrames
  BY <1>0 DEF UpFrames, Ids
<1>3. /\ UpTyped
      /\ \A t \in Sockets :
             Carried(up'[t]) \subseteq Carried(up[t]) \cup (IF t = s THEN {Executes(s)} ELSE {})
      /\ \A t \in Sockets : \A g :
             OnceIn(up[t], g) /\ (g = Executes(s) => Executes(s) \notin Carried(up[t])) =>
                 OnceIn(up'[t], g)
  <2>1. CASE Up(s, Executes(s))
    BY <1>0, <1>2, <2>1, UpAdds
  <2>2. CASE UNCHANGED up
    BY <1>0, <2>2 DEF SqlTypeOK, UpTyped
  <2>3. QED
    BY <1>1, <2>1, <2>2
<1>4. \A q, b : Executes(q) # Frame("ack", s, b) /\ Executes(s) # Frame("ack", q, b) /\ (Executes(q) = Executes(s) => q = s)
  BY FramesApart
<1>5. /\ \A t \in Sockets, q \in Ids : q # s /\ Executes(q) \in Carried(up'[t]) =>
             Executes(q) \in Carried(up[t])
      /\ \A t \in Sockets, q \in Ids : q # s /\ OnceIn(up[t], Executes(q)) =>
             OnceIn(up'[t], Executes(q))
      /\ \A t \in Sockets : OnceIn(up'[t], Executes(s)) /\ (Executes(s) \in Carried(up'[t]) => t = s)
      /\ NoNewAck
  <2>1. \A t \in Sockets : Executes(s) \notin Carried(up[t]) /\ OnceIn(up[t], Executes(s))
    BY <1>0 DEF Unsent, SqlInv, SentOnce
  <2>2. NoNewAck
    BY <1>3, <1>4 DEF NoNewAck
  <2>3. QED
    BY <1>3, <1>4, <2>1, <2>2
<1>6. /\ handler' \in [Sockets -> Handlers] /\ handler'[s] = "reading"
      /\ \A t \in Sockets : t # s => handler'[t] = handler[t]
  BY <1>0 DEF SqlTypeOK, Handlers
<1>7. /\ \A t \in Sockets, q \in Ids : Engaged(t, q)' <=> Engaged(t, q)
      /\ \A t \in Sockets : (ActiveTask(t)' <=> ActiveTask(t)) /\ (Past(t)' <=> Past(t))
      /\ \A q \in Ids : Completed(q)' <=> Completed(q)
  <2>1. /\ \A t \in Sockets : (ActiveTask(t)' <=> ActiveTask(t)) /\ (Past(t)' <=> Past(t))
        /\ \A q \in Ids : Completed(q)' <=> Completed(q)
    BY <1>0 DEF ActiveTask, Past, Completed
  <2>2. \A t \in Sockets : handler'[t] = "authorizing" <=> handler[t] = "authorizing"
    BY <1>0, <1>6
  <2>3. QED
    BY <1>0, <2>1, <2>2 DEF Engaged
<1>8. SqlTypeOK'
  BY <1>0, <1>1, <1>3, <1>6 DEF SqlTypeOK, UpTyped
<1>9. Fresh'
  <2>1. ASSUME NEW q \in Ids, q # s, Unsent(q) PROVE Unsent(q)'
    <3>1. q \in Numbers
      BY DEF Ids, Numbers
    <3>2. \A t \in Sockets : Executes(q) \notin Carried(up'[t]) /\ ~ Engaged(t, q)'
      BY <1>5, <1>7, <2>1 DEF Unsent
    <3>3. \A t \in Sockets, b \in 1 .. MaxBatches : Frame("ack", q, b) \notin Carried(up'[t])
      BY <1>5, <2>1, <3>1 DEF Unsent, NoNewAck
    <3>4. replies'[q] = <<>>
      BY <1>0, <2>1 DEF Unsent
    <3>5. QED
      BY <3>2, <3>3, <3>4 DEF Unsent
  <2>2. \A q \in Ids : q > issued => q # s
    BY <1>0 DEF SqlInv, Fresh
  <2>3. \A q \in Ids : handler'[q] = "connecting" => q # s /\ handler[q] = "connecting"
    BY <1>6 DEF Sockets
  <2>4. \A q \in Ids : q # s /\ handler[q] = "none" => handler'[q] = "none"
    BY <1>6 DEF Sockets
  <2>5. QED
    BY <1>0, <2>1, <2>2, <2>3, <2>4 DEF SqlInv, Fresh
<1>10. SentOnce'
  <2>1. ASSUME NEW q \in Ids, q # s
        PROVE  /\ \A t \in Sockets : OnceIn(up'[t], Executes(q))
               /\ \A t \in Sockets : Executes(q) \in Carried(up'[t]) =>
                     /\ replies'[q] = <<>>
                     /\ \A u \in Sockets :
                            ~ Engaged(u, q)' /\ (Executes(q) \in Carried(up'[u]) => u = t)
               /\ \A t, u \in Sockets : Engaged(t, q)' /\ Engaged(u, q)' => t = u
    <3>1. /\ \A t \in Sockets : OnceIn(up[t], Executes(q))
          /\ \A t \in Sockets : Executes(q) \in Carried(up[t]) =>
                /\ replies[q] = <<>>
                /\ \A u \in Sockets : ~ Engaged(u, q) /\ (Executes(q) \in Carried(up[u]) => u = t)
          /\ \A t, u \in Sockets : Engaged(t, q) /\ Engaged(u, q) => t = u
      BY DEF SqlInv, SentOnce
    <3>2. QED
      BY <1>0, <1>5, <1>7, <2>1, <3>1
  <2>2. replies'[s] = <<>> /\ \A t \in Sockets : ~ Engaged(t, s)'
    BY <1>0, <1>7 DEF Unsent
  <2>3. QED
    BY <1>5, <2>1, <2>2 DEF SentOnce
<1>11. AnsweredSoFar'
  <2>1. \A t \in Sockets : handler'[t] = "authorizing" => handler[t] = "authorizing"
    BY <1>6
  <2>2. \A t \in Sockets : ActiveTask(t) => handler'[t] \notin {"none", "connecting", "gone"}
    BY <1>6 DEF SqlInv, AnsweredSoFar
  <2>3. QED
    BY <1>0, <1>7, <2>1, <2>2 DEF SqlInv, AnsweredSoFar
<1>12. RowsSent'
  BY <1>0, <1>7 DEF SqlInv, RowsSent
<1>13. PageFits'
  <2>1. requestId # 0 => requestId \in Ids /\ requestId \in Numbers
    BY <1>0 DEF SqlTypeOK, Ids, Numbers
  <2>2. requestId # 0 =>
          \A t \in Sockets : \A b \in 1 .. MaxBatches :
              Frame("ack", requestId, b) \in Carried(up'[t]) => b <= shown
    BY <1>5, <2>1 DEF SqlInv, PageFits, NoNewAck
  <2>3. QED
    BY <1>0, <1>7, <2>1, <2>2 DEF SqlInv, PageFits
<1>14. QED
  BY <1>8, <1>9, <1>10, <1>11, <1>12, <1>13 DEF SqlInv

\* An acknowledgement arrives: the page has shown the batch the query waits for.
LEMMA AcksArrive == ASSUME SqlInv, NEW s \in Sockets, NEW f, Reads(s, f), OnAck(s, f) PROVE SqlInv'
<1>0. /\ SqlTypeOK
      /\ UNCHANGED <<pageVars, down, handler, active, expected, task, closed, replies>>
      /\ ack' = [ack EXCEPT ![s] = "done"] /\ ack[s] = "pending"
      /\ f.id = active[s] /\ f.batch = expected[s] /\ f.type = "ack"
  BY DEF SqlInv, OnAck, Awaited
<1>1. UpQuiet /\ f \in UpFrames /\ f \in Carried(up[s])
  BY <1>0, UpReads DEF OnAck, Reads
<1>2. PICK r \in Numbers, b \in 1 .. MaxBatches : f = Frame("ack", r, b)
  BY <1>0, <1>1 DEF UpFrames, Frame, Executes
<1>3. r = active[s] /\ b = expected[s]
  BY <1>0, <1>2 DEF Frame
<1>4. /\ \A t \in Sockets : \A q : Engaged(t, q)' <=> Engaged(t, q)
      /\ \A t \in Sockets : ActiveTask(t)' <=> ActiveTask(t)
      /\ \A q \in Ids : Completed(q)' <=> Completed(q)
      /\ \A t \in Sockets : t # s => (Past(t)' <=> Past(t))
  BY <1>0 DEF Engaged, ActiveTask, Completed, Past, SqlTypeOK
<1>5. SqlTypeOK'
  BY <1>0, <1>1 DEF SqlTypeOK, UpQuiet, UpTyped, pageVars
<1>6. Fresh'
  <2>1. ASSUME NEW q \in Ids, Unsent(q) PROVE Unsent(q)'
    <3>1. q \in Numbers
      BY DEF Ids, Numbers
    <3>2. QED
      BY <1>0, <1>1, <1>4, <2>1, <3>1 DEF Unsent, UpQuiet, NoNewExecute, NoNewAck
  <2>2. QED
    BY <1>0, <2>1 DEF SqlInv, Fresh, pageVars
<1>7. SentOnce'
  BY <1>0, <1>1, <1>4 DEF SqlInv, SentOnce, UpQuiet, NoNewExecute
<1>8. AnsweredSoFar'
  BY <1>0, <1>4 DEF SqlInv, AnsweredSoFar
<1>9. RowsSent'
  BY <1>0, <1>4 DEF SqlInv, RowsSent
<1>10. PageFits'
  <2>1. UNCHANGED <<ui, requestId, batch, shown, socket>>
    BY <1>0 DEF pageVars
  <2>2. requestId # 0 => requestId \in Ids /\ requestId \in Numbers
    BY <1>0 DEF SqlTypeOK, Ids, Numbers
  <2>3. ASSUME requestId # 0, Engaged(s, requestId), Past(s)'
        PROVE shown = batch /\ batch = task[s].batch
    <3>1. CASE Past(s)
      BY <2>3, <3>1 DEF SqlInv, PageFits
    <3>2. CASE ~ Past(s)
      <4>1. task[s].at = "acking" /\ ActiveTask(s) /\ active[s] = requestId
        BY <1>0, <2>3, <3>2 DEF Past, Engaged, ActiveTask
      <4>2. b = task[s].batch /\ Len(replies[requestId]) = task[s].batch
        BY <1>3, <4>1 DEF SqlInv, AnsweredSoFar
      <4>3. b <= shown /\ shown <= batch /\ batch <= Len(replies[requestId])
        BY <1>1, <1>2, <1>3, <2>3, <4>1 DEF SqlInv, PageFits
      <4>4. shown \in Nat /\ batch \in Nat /\ b \in Nat
        BY <1>0 DEF SqlTypeOK
      <4>5. QED
        BY <4>2, <4>3, <4>4
    <3>3. QED
      BY <3>1, <3>2
  <2>4. \A t \in Sockets : requestId # 0 /\ Engaged(t, requestId) /\ Past(t)' =>
            shown = batch /\ batch = task[t].batch
    <3> SUFFICES ASSUME NEW t \in Sockets, requestId # 0, Engaged(t, requestId), Past(t)'
                 PROVE  shown = batch /\ batch = task[t].batch
      OBVIOUS
    <3>1. CASE t = s
      BY <2>3, <3>1
    <3>2. CASE t # s
      BY <1>4, <3>2 DEF SqlInv, PageFits
    <3>3. QED
      BY <3>1, <3>2
  <2>5. requestId # 0 =>
          \A t \in Sockets : \A c \in 1 .. MaxBatches :
              Frame("ack", requestId, c) \in Carried(up'[t]) => c <= shown
    BY <1>1, <2>2 DEF SqlInv, PageFits, UpQuiet, NoNewAck
  <2>6. QED
    BY <1>0, <1>4, <2>1, <2>2, <2>4, <2>5 DEF SqlInv, PageFits
<1>11. QED
  BY <1>5, <1>6, <1>7, <1>8, <1>9, <1>10 DEF SqlInv

\* A new query runs.
LEMMA Starts == ASSUME SqlInv, NEW s \in Sockets, Started(s) PROVE SqlInv'
<1>0. /\ SqlTypeOK
      /\ UNCHANGED <<pageVars, up, down, active, expected, ack, closed, replies>>
      /\ handler[s] = "starting" /\ handler' = [handler EXCEPT ![s] = "reading"]
      /\ task' = IF task[s].at = "created" THEN [task EXCEPT ![s] = [task[s] EXCEPT !.at = "running"]] ELSE task
  BY DEF SqlInv, SqlTypeOK, Started
<1>1. /\ handler' \in [Sockets -> Handlers] /\ handler'[s] = "reading"
      /\ \A t \in Sockets : t # s => handler'[t] = handler[t]
  BY <1>0 DEF SqlTypeOK, Handlers
<1>2. /\ task' \in [Sockets -> Tasks] /\ \A t \in Sockets : t # s => task'[t] = task[t]
      /\ task'[s].batch = task[s].batch
      /\ \/ task'[s] = task[s] /\ task[s].at # "created"
         \/ task'[s].at = "running" /\ task[s].at = "created"
  <2>1. CASE task[s].at = "created"
    <3>1. task' = [task EXCEPT ![s] = [task[s] EXCEPT !.at = "running"]]
      BY <1>0, <2>1
    <3>2. [task[s] EXCEPT !.at = "running"] \in Tasks
              /\ [task[s] EXCEPT !.at = "running"].at = "running"
          /\ [task[s] EXCEPT !.at = "running"].batch = task[s].batch
      BY <1>0 DEF SqlTypeOK, Tasks
    <3>3. QED
      BY <1>0, <2>1, <3>1, <3>2 DEF SqlTypeOK
  <2>2. CASE task[s].at # "created"
    <3>1. task' = task
      BY <1>0, <2>2
    <3>2. QED
      BY <1>0, <2>2, <3>1 DEF SqlTypeOK
  <2>3. QED
    BY <2>1, <2>2
<1>3. /\ \A t \in Sockets : ActiveTask(t)' <=> ActiveTask(t)
      /\ \A t \in Sockets : t # s => (Past(t)' <=> Past(t))
      /\ Past(s)' => Past(s) \/ task[s].at = "created"
      /\ \A q \in Ids : Completed(q)' <=> Completed(q)
  BY <1>0, <1>2 DEF ActiveTask, Past, Completed
<1>4. \A t \in Sockets, q \in Ids : Engaged(t, q)' <=> Engaged(t, q)
  <2>1. \A t \in Sockets : handler'[t] = "authorizing" <=> handler[t] = "authorizing"
    BY <1>0, <1>1
  <2>2. QED
    BY <1>0, <1>3, <2>1 DEF Engaged
<1>5. SqlTypeOK'
  BY <1>0, <1>1, <1>2 DEF SqlTypeOK, pageVars
<1>6. Fresh'
  <2>1. \A q \in Ids : Unsent(q) => Unsent(q)'
    BY <1>0, <1>4 DEF Unsent
  <2>2. \A q \in Ids : /\ handler'[q] = "connecting" => handler[q] = "connecting"
                       /\ handler[q] = "none" => handler'[q] = "none"
    BY <1>0, <1>1 DEF Sockets
  <2>3. QED
    BY <1>0, <2>1, <2>2 DEF SqlInv, Fresh, pageVars
<1>7. SentOnce'
  BY <1>0, <1>4 DEF SqlInv, SentOnce
<1>8. AnsweredSoFar'
  <2>1. \A t \in Sockets : /\ handler'[t] = "authorizing" => handler[t] = "authorizing"
                           /\ ActiveTask(t) => handler'[t] \notin {"none", "connecting", "gone"}
                           /\ task'[t].batch = task[t].batch
                           /\ task'[t].at \in {"created", "acking"} => task'[t].at = task[t].at
    BY <1>1, <1>2 DEF SqlInv, AnsweredSoFar
  <2>2. QED
    BY <1>0, <1>3, <2>1 DEF SqlInv, AnsweredSoFar
<1>9. RowsSent'
  BY <1>0, <1>3 DEF SqlInv, RowsSent
<1>10. PageFits'
  <2>1. UNCHANGED <<ui, requestId, batch, shown, socket>>
    BY <1>0 DEF pageVars
  <2>2. requestId # 0 => requestId \in Ids
    BY <1>0 DEF SqlTypeOK, Ids, Numbers
  <2>3. ASSUME requestId # 0, NEW t \in Sockets, Engaged(t, requestId), Past(t)'
        PROVE  shown = batch /\ batch = task'[t].batch
    <3>1. CASE Past(t)
      BY <1>2, <2>3, <3>1 DEF SqlInv, PageFits
    <3>2. CASE ~ Past(t)
      <4>1. t = s /\ task[s].at = "created"
        BY <1>3, <2>3, <3>2
      <4>2. ActiveTask(s) /\ active[s] = requestId
        BY <2>3, <4>1 DEF Engaged, ActiveTask
      <4>3. task[s].batch = 0 /\ Len(replies[requestId]) = 0
        BY <4>1, <4>2 DEF SqlInv, AnsweredSoFar
      <4>4. shown <= batch /\ batch <= 0 /\ shown \in Nat /\ batch \in Nat
        BY <1>0, <2>3, <4>3 DEF SqlInv, PageFits, SqlTypeOK
      <4>5. QED
        BY <1>2, <4>1, <4>3, <4>4
    <3>3. QED
      BY <3>1, <3>2
  <2>4. QED
    BY <1>0, <1>3, <1>4, <2>1, <2>2, <2>3 DEF SqlInv, PageFits
<1>11. QED
  BY <1>5, <1>6, <1>7, <1>8, <1>9, <1>10 DEF SqlInv

\* What follows about the other requests when one of them, asked for once, is answered.
Answers(r) ==
    /\ UpTyped /\ NoNewExecute /\ NoNewAck /\ \A t \in Sockets : Executes(r) \notin Carried(up'[t])
    /\ ~ Unsent(r)
    /\ \A q \in Ids : q # r => replies'[q] = replies[q]
    /\ \A t \in Sockets, q \in Ids : Engaged(t, q)' => Engaged(t, q)
    /\ \A t \in Sockets : handler'[t] \in {"none", "connecting"} => handler'[t] = handler[t]
    /\ \A t \in Sockets : handler[t] = "none" => handler'[t] = "none"
    /\ UNCHANGED pageVars

\* A request that is answered stays the only one its connection works on.
LEMMA AnswersKeep == ASSUME SqlInv, NEW r \in Ids, Answers(r) PROVE Fresh' /\ SentOnce'
<1> USE DEF Answers
<1>1. Fresh'
  <2>1. ASSUME NEW q \in Ids, Unsent(q) PROVE Unsent(q)'
    <3>1. q \in Numbers /\ q # r
      BY <2>1 DEF Ids, Numbers
    <3>2. \A t \in Sockets : Executes(q) \notin Carried(up'[t]) /\ ~ Engaged(t, q)'
      BY <2>1 DEF Unsent, NoNewExecute
    <3>3. \A t \in Sockets, b \in 1 .. MaxBatches : Frame("ack", q, b) \notin Carried(up'[t])
      BY <2>1, <3>1 DEF Unsent, NoNewAck
    <3>4. replies'[q] = <<>>
      BY <2>1, <3>1 DEF Unsent
    <3>5. QED
      BY <3>2, <3>3, <3>4 DEF Unsent
  <2>2. QED
    BY <2>1 DEF SqlInv, Fresh, pageVars, Sockets
<1>2. SentOnce'
  <2>1. ASSUME NEW q \in Ids
        PROVE  /\ \A t \in Sockets : OnceIn(up'[t], Executes(q))
               /\ \A t \in Sockets : Executes(q) \in Carried(up'[t]) =>
                     /\ replies'[q] = <<>>
                     /\ \A u \in Sockets :
                            ~ Engaged(u, q)' /\ (Executes(q) \in Carried(up'[u]) => u = t)
               /\ \A t, u \in Sockets : Engaged(t, q)' /\ Engaged(u, q)' => t = u
    <3>1. /\ \A t \in Sockets : OnceIn(up[t], Executes(q))
          /\ \A t \in Sockets : Executes(q) \in Carried(up[t]) =>
                /\ replies[q] = <<>>
                /\ \A u \in Sockets : ~ Engaged(u, q) /\ (Executes(q) \in Carried(up[u]) => u = t)
          /\ \A t, u \in Sockets : Engaged(t, q) /\ Engaged(u, q) => t = u
      BY DEF SqlInv, SentOnce
    <3>2. \A t \in Sockets : OnceIn(up'[t], Executes(q))
      BY <3>1 DEF NoNewExecute
    <3>3. \A t \in Sockets : Executes(q) \in Carried(up'[t]) =>
             Executes(q) \in Carried(up[t]) /\ replies'[q] = <<>>
      BY <3>1 DEF NoNewExecute
    <3>4. QED
      BY <3>1, <3>2, <3>3 DEF NoNewExecute
  <2>2. QED
    BY <2>1 DEF SentOnce
<1>3. QED
  BY <1>1, <1>2

\* A query refused before it ran: its only answer is an error.
LEMMA RefusedAnswer ==
    ASSUME SqlInv, NEW r \in Ids, NEW s \in Sockets, Answers(r), replies[r] = <<>>,
           Down(s, Frame("error", r, 0)), Sent(Frame("error", r, 0)),
           \A t \in Sockets : ~ Engaged(t, r)',
           UNCHANGED <<active, expected, ack, task, closed>>,
           handler' \in [Sockets -> Handlers],
           \A t \in Sockets :
               handler'[t] = handler[t] \/ (handler[t] = "authorizing" /\ handler'[t] = "reading")
    PROVE  SqlInv'
<1>0. SqlTypeOK /\ UNCHANGED <<ui, checks, executing, requestId, batch, shown, socket, timers, issued>>
  BY DEF SqlInv, Answers, pageVars
<1>1. /\ replies' \in [Ids -> Seq(Replies)]
      /\ \A q \in Ids : q # r => replies'[q] = replies[q]
      /\ Len(replies'[r]) = 1 /\ Len(replies[r]) = 0 /\ ~ Completed(r)'
  <2>1. "error" \in Verdicts \cup {"rows"} /\ 0 \in 0 .. MaxBatches
    BY DEF Verdicts
  <2>2. /\ replies' \in [Ids -> Seq(Replies)]
        /\ \A q \in Ids : q # r => replies'[q] = replies[q]
        /\ Len(replies'[r]) = Len(replies[r]) + 1
        /\ Completed(r)' <=> "error" = "complete"
    BY <1>0, <2>1, Sends
  <2>3. Len(replies[r]) = 0
    OBVIOUS
  <2>4. QED
    BY <2>2, <2>3
<1>2. DownQuiet
  <2>1. r \in Numbers
    BY DEF Ids, Numbers
  <2>2. "error" \in {"cancelled", "error"} \cup Closes /\ "error" \notin Closes
    BY DEF Closes
  <2>3. QED
    BY <1>0, <2>1, <2>2, DownOther
<1>3. /\ \A t \in Sockets : (ActiveTask(t)' <=> ActiveTask(t)) /\ (Past(t)' <=> Past(t))
      /\ \A q \in Ids : q # r => (Completed(q)' <=> Completed(q))
  BY <1>0, <1>1 DEF ActiveTask, Past, Completed
<1>4. SqlTypeOK'
  BY <1>0, <1>1, <1>2 DEF SqlTypeOK, Answers, UpTyped, DownQuiet, DownTyped
<1>5. Fresh' /\ SentOnce'
  BY AnswersKeep
<1>6. AnsweredSoFar'
  <2>1. ASSUME NEW t \in Sockets, handler'[t] = "authorizing" \/ ActiveTask(t)
        PROVE  active[t] # r
    <3>1. Engaged(t, active[t])'
      BY <1>0, <1>3, <2>1 DEF Engaged
    <3>2. QED
      BY <3>1
  <2>2. \A t \in Sockets : handler'[t] = "authorizing" => handler[t] = "authorizing"
    OBVIOUS
  <2>3. \A t \in Sockets : ActiveTask(t) => handler'[t] \notin {"none", "connecting", "gone"}
    BY DEF SqlInv, AnsweredSoFar
  <2>4. QED
    BY <1>1, <1>3, <2>1, <2>2, <2>3 DEF SqlInv, AnsweredSoFar
<1>7. RowsSent'
  <2>1. \A t \in Sockets, b \in 1 .. MaxBatches : Frame("rows", r, b) \notin Carried(down[t])
    BY <1>1 DEF SqlInv, RowsSent
  <2>2. \A t \in Sockets : Frame("complete", r, 0) \notin Carried(down[t])
    BY DEF SqlInv, RowsSent, Completed
  <2>3. QED
    BY <1>1, <1>2, <1>3, <2>1, <2>2 DEF SqlInv, RowsSent, DownQuiet, NoNewRows, NoNewComplete
<1>8. PageFits'
  <2>1. ~ Completed(r)
    BY DEF Completed
  <2>2. requestId # 0 => requestId \in Ids /\ requestId \in Numbers /\ batch \in Nat
    BY <1>0 DEF SqlTypeOK, Ids, Numbers
  <2>3. socket # 0 => socket \in Sockets
    BY <1>0 DEF SqlTypeOK, Sockets, Ids, Numbers
  <2>4. requestId # 0 => batch <= Len(replies'[requestId])
    BY <1>0, <1>1, <2>2 DEF SqlInv, PageFits
  <2>5. requestId # 0 => /\ \A t \in Sockets : Engaged(t, requestId)' => Engaged(t, requestId)
                         /\ Completed(requestId)' => requestId # r /\ Completed(requestId)
    BY <1>0, <1>1, <1>3, <2>2 DEF Answers
  <2>6. requestId # 0 =>
          /\ \A t \in Sockets : \A b \in 1 .. MaxBatches :
                 Frame("ack", requestId, b) \in Carried(up'[t]) => b <= shown
          /\ socket # 0 =>
                 \A b \in 1 .. MaxBatches : Frame("rows", requestId, b) \in Carried(down'[socket]) =>
                 b = batch + 1 /\ shown = batch
    BY <1>2, <2>2, <2>3 DEF SqlInv, PageFits, Answers, DownQuiet, NoNewAck, NoNewRows
  <2>7. ui = "Completed" => requestId # 0 /\ requestId # r /\ Completed(requestId)
    BY <2>1 DEF SqlInv, PageFits
  <2>8. ui = "Completed" => Completed(requestId)'
    BY <1>0, <1>3, <2>2, <2>7
  <2>9. ASSUME requestId # 0, Completed(requestId)'
        PROVE  shown = batch /\ batch = Len(replies'[requestId]) - 1
                   /\ \A t \in Sockets : ~ Engaged(t, requestId)'
    BY <1>1, <2>2, <2>5, <2>9 DEF SqlInv, PageFits
  <2>10. QED
    BY <1>0, <1>3, <2>4, <2>5, <2>6, <2>7, <2>8, <2>9 DEF SqlInv, PageFits
<1>9. QED
  BY <1>4, <1>5, <1>6, <1>7, <1>8 DEF SqlInv

\* A query is received: refused at once, or its session is checked first.
LEMMA Executed == ASSUME SqlInv, NEW s \in Sockets, NEW f, Reads(s, f), OnExecute(s, f) PROVE SqlInv'
<1>0. /\ SqlTypeOK /\ handler[s] = "reading" /\ f.type = "execute"
      /\ UNCHANGED <<pageVars, expected, ack, task, closed>>
  BY DEF SqlInv, OnExecute, Reads
<1>1. UpQuiet /\ f \in UpFrames /\ f \in Carried(up[s])
          /\ (OnceIn(up[s], f) => f \notin Carried(up'[s]))
  BY <1>0, UpReads DEF OnExecute, Reads
<1>2. PICK r \in Ids : f = Executes(r)
  BY <1>0, <1>1 DEF UpFrames, Frame, Executes
<1>3. f.id = r
  BY <1>2 DEF Frame, Executes
<1>4. /\ replies[r] = <<>> /\ \A t \in Sockets : ~ Engaged(t, r)
      /\ \A t \in Sockets : Executes(r) \notin Carried(up'[t])
      /\ ~ Unsent(r)
  <2>1. /\ replies[r] = <<>> /\ \A t \in Sockets : ~ Engaged(t, r)
        /\ \A t \in Sockets : Executes(r) \in Carried(up[t]) => t = s
        /\ OnceIn(up[s], Executes(r))
    BY <1>1, <1>2 DEF SqlInv, SentOnce
  <2>2. ~ Unsent(r)
    BY <1>1, <1>2 DEF Unsent
  <2>3. QED
    BY <1>1, <1>2, <2>1, <2>2 DEF UpQuiet, NoNewExecute
<1>5. CASE ActiveTask(s)
  <2>1. Down(s, Frame("error", r, 0)) /\ Sent(Frame("error", r, 0)) /\ UNCHANGED <<handler, active>>
    BY <1>3, <1>5 DEF OnExecute
  <2>2. \A q \in Ids : q # r => replies'[q] = replies[q]
    BY <1>0, <2>1 DEF Sent, Frame, SqlTypeOK
  <2>3. \A t \in Sockets, q \in Ids : Engaged(t, q)' <=> Engaged(t, q)
    BY <1>0, <2>1 DEF Engaged, ActiveTask
  <2>4. Answers(r)
    BY <1>0, <1>1, <1>4, <2>1, <2>2, <2>3 DEF Answers, UpQuiet
  <2>5. handler' \in [Sockets -> Handlers]
    BY <1>0, <2>1 DEF SqlTypeOK
  <2>6. QED
    BY <1>0, <1>4, <2>1, <2>3, <2>4, <2>5, RefusedAnswer
<1>6. CASE ~ ActiveTask(s)
  <2>1. /\ handler' = [handler EXCEPT ![s] = "authorizing"] /\ active' = [active EXCEPT ![s] = r]
        /\ UNCHANGED <<down, replies>>
    BY <1>3, <1>6 DEF OnExecute
  <2>2. /\ handler' \in [Sockets -> Handlers] /\ active' \in [Sockets -> Numbers]
        /\ handler'[s] = "authorizing" /\ active'[s] = r
        /\ \A t \in Sockets : t # s => handler'[t] = handler[t] /\ active'[t] = active[t]
    <3>1. r \in Numbers /\ "authorizing" \in Handlers
      BY DEF Ids, Numbers, Handlers
    <3>2. QED
      BY <1>0, <2>1, <3>1 DEF SqlTypeOK
  <2>3. /\ \A t \in Sockets : (ActiveTask(t)' <=> ActiveTask(t)) /\ (Past(t)' <=> Past(t))
        /\ \A q \in Ids : Completed(q)' <=> Completed(q)
    BY <1>0, <2>1 DEF ActiveTask, Past, Completed
  <2>4. \A t \in Sockets, q \in Ids : Engaged(t, q)' => Engaged(t, q) \/ (t = s /\ q = r)
    BY <1>6, <2>2, <2>3 DEF Engaged
  <2>5. SqlTypeOK'
    BY <1>0, <1>1, <2>1, <2>2 DEF SqlTypeOK, UpQuiet, UpTyped, pageVars
  <2>6. Fresh'
    <3>1. ASSUME NEW q \in Ids, Unsent(q) PROVE Unsent(q)'
      <4>1. q # r /\ q \in Numbers
        BY <1>4, <3>1 DEF Ids, Numbers
      <4>2. \A t \in Sockets : Executes(q) \notin Carried(up'[t]) /\ ~ Engaged(t, q)'
        BY <1>1, <2>4, <3>1, <4>1 DEF Unsent, UpQuiet, NoNewExecute
      <4>3. \A t \in Sockets, b \in 1 .. MaxBatches : Frame("ack", q, b) \notin Carried(up'[t])
        BY <1>1, <3>1, <4>1 DEF Unsent, UpQuiet, NoNewAck
      <4>4. QED
        BY <2>1, <3>1, <4>2, <4>3 DEF Unsent
    <3>2. \A q \in Ids : /\ handler'[q] = "connecting" => handler[q] = "connecting"
                         /\ handler[q] = "none" => handler'[q] = "none"
      BY <1>0, <2>2 DEF Sockets
    <3>3. QED
      BY <1>0, <3>1, <3>2 DEF SqlInv, Fresh, pageVars
  <2>7. SentOnce'
    <3>1. ASSUME NEW q \in Ids, q # r
          PROVE  /\ \A t \in Sockets : OnceIn(up'[t], Executes(q))
                 /\ \A t \in Sockets : Executes(q) \in Carried(up'[t]) =>
                       /\ replies'[q] = <<>>
                       /\ \A u \in Sockets :
                              ~ Engaged(u, q)' /\ (Executes(q) \in Carried(up'[u]) => u = t)
                 /\ \A t, u \in Sockets : Engaged(t, q)' /\ Engaged(u, q)' => t = u
      <4>1. /\ \A t \in Sockets : OnceIn(up[t], Executes(q))
            /\ \A t \in Sockets : Executes(q) \in Carried(up[t]) =>
                  /\ replies[q] = <<>>
                  /\ \A u \in Sockets : ~ Engaged(u, q) /\ (Executes(q) \in Carried(up[u]) => u = t)
            /\ \A t, u \in Sockets : Engaged(t, q) /\ Engaged(u, q) => t = u
        BY DEF SqlInv, SentOnce
      <4>2. QED
        BY <1>1, <2>1, <2>4, <3>1, <4>1 DEF UpQuiet, NoNewExecute
    <3>2. /\ \A t \in Sockets : OnceIn(up'[t], Executes(r))
          /\ \A t, u \in Sockets : Engaged(t, r)' /\ Engaged(u, r)' => t = u
      BY <1>1, <1>4, <2>4 DEF SqlInv, SentOnce, UpQuiet, NoNewExecute
    <3>3. QED
      BY <1>4, <3>1, <3>2 DEF SentOnce
  <2>8. AnsweredSoFar'
    <3>1. ~ ActiveTask(s)' /\ replies'[r] = <<>>
      BY <1>4, <1>6, <2>1, <2>3
    <3>2. QED
      BY <1>0, <2>1, <2>2, <2>3, <3>1 DEF SqlInv, AnsweredSoFar
  <2>9. RowsSent'
    BY <2>1, <2>3 DEF SqlInv, RowsSent
  <2>10. PageFits'
    <3>1. UNCHANGED <<ui, requestId, batch, shown, socket>> /\ UNCHANGED task
      BY <1>0 DEF pageVars
    <3>2. requestId # 0 => requestId \in Ids /\ requestId \in Numbers
      BY <1>0 DEF SqlTypeOK, Ids, Numbers
    <3>3. ~ Completed(r) /\ ~ Past(s)
      BY <1>4, <1>6 DEF Completed, Past, ActiveTask
    <3>4. requestId # 0 =>
            \A t \in Sockets : \A c \in 1 .. MaxBatches :
                Frame("ack", requestId, c) \in Carried(up'[t]) => c <= shown
      BY <1>1, <3>2 DEF SqlInv, PageFits, UpQuiet, NoNewAck
    <3>5. requestId # 0 => \A t \in Sockets : Engaged(t, requestId)' /\ Past(t)' =>
              Engaged(t, requestId) /\ Past(t)
      BY <2>3, <2>4, <3>1, <3>2, <3>3
    <3>6. requestId # 0 => (Completed(requestId)' <=> Completed(requestId))
      BY <2>3, <3>1, <3>2
    <3>7. requestId # 0 /\ Completed(requestId) => \A t \in Sockets : ~ Engaged(t, requestId)'
      BY <2>4, <3>1, <3>2, <3>3 DEF SqlInv, PageFits
    <3>8. QED
      BY <2>1, <3>1, <3>4, <3>5, <3>6, <3>7 DEF SqlInv, PageFits
  <2>11. QED
    BY <2>5, <2>6, <2>7, <2>8, <2>9, <2>10 DEF SqlInv
<1>7. QED
  BY <1>5, <1>6

\* A query that is at work was sent, and what it has answered so far are its batches.
LEMMA AtWork == ASSUME SqlInv, NEW s \in Sockets, handler[s] = "authorizing" \/ ActiveTask(s)
    PROVE  /\ active[s] \in Ids /\ Engaged(s, active[s]) /\ ~ Unsent(active[s])
           /\ \A t \in Sockets : Executes(active[s]) \notin Carried(up[t])
           /\ \A t \in Sockets : Engaged(t, active[s]) => t = s
           /\ ~ Completed(active[s]) /\ Len(replies[active[s]]) \in Nat
           /\ handler[s] = "authorizing" => replies[active[s]] = <<>> /\ ~ ActiveTask(s)
           /\ ActiveTask(s) => Len(replies[active[s]]) = task[s].batch /\ handler[s] # "authorizing"
<1>1. active[s] \in Ids /\ Engaged(s, active[s])
  BY DEF SqlInv, AnsweredSoFar, Engaged
<1> DEFINE r == active[s]
<1>2. /\ handler[s] = "authorizing" => replies[r] = <<>> /\ ~ ActiveTask(s)
      /\ ActiveTask(s) => /\ Len(replies[r]) = task[s].batch
                          /\ \A i \in 1 .. Len(replies[r]) : replies[r][i].type = "rows"
  BY DEF SqlInv, AnsweredSoFar
<1> HIDE DEF r
<1>3. r \in Ids /\ Engaged(s, r)
  BY <1>1 DEF r
<1>4. Len(replies[r]) \in Nat /\ (replies[r] # <<>> => Len(replies[r]) \in 1 .. Len(replies[r]))
  <2>1. replies[r] \in Seq(Replies)
    BY <1>3 DEF SqlInv, SqlTypeOK
  <2>2. QED
    BY <2>1
<1>5. ~ Completed(r)
  BY <1>2, <1>4 DEF Completed
<1>6. /\ \A t \in Sockets : Executes(r) \notin Carried(up[t])
      /\ \A t \in Sockets : Engaged(t, r) => t = s
  BY <1>3 DEF SqlInv, SentOnce
<1>7. ~ Unsent(r)
  BY <1>3 DEF Unsent
<1>8. QED
  BY <1>2, <1>3, <1>4, <1>5, <1>6, <1>7 DEF r

\* A query that may run takes a slot, or is refused.
LEMMA Authorizes == ASSUME SqlInv, NEW s \in Sockets, Authorized(s) PROVE SqlInv'
<1>0. /\ SqlTypeOK /\ handler[s] = "authorizing"
      /\ UNCHANGED <<pageVars, up, active, expected, ack, closed>>
  BY DEF SqlInv, Authorized
<1>1. PICK r \in Ids : r = active[s]
  BY <1>0, AtWork
<1>2. /\ Engaged(s, r) /\ ~ Unsent(r) /\ replies[r] = <<>> /\ ~ ActiveTask(s)
      /\ \A t \in Sockets : Executes(r) \notin Carried(up[t])
      /\ \A t \in Sockets : Engaged(t, r) => t = s
  BY <1>0, <1>1, AtWork
<1>3. UpQuiet
  BY <1>0, UpSame
<1>4. CASE Full
  <2>1. /\ Down(s, Frame("error", r, 0)) /\ Sent(Frame("error", r, 0))
        /\ handler' = [handler EXCEPT ![s] = "reading"] /\ UNCHANGED task
    BY <1>1, <1>4 DEF Authorized
  <2>2. \A q \in Ids : q # r => replies'[q] = replies[q]
    BY <1>0, <2>1 DEF Sent, Frame, SqlTypeOK
  <2>3. /\ handler' \in [Sockets -> Handlers] /\ handler'[s] = "reading"
        /\ \A t \in Sockets : t # s => handler'[t] = handler[t]
    BY <1>0, <2>1 DEF SqlTypeOK, Handlers
  <2>4. \A t \in Sockets, q \in Ids : Engaged(t, q)' => Engaged(t, q) /\ t # s
    BY <1>0, <1>2, <2>1, <2>3 DEF Engaged, ActiveTask
  <2>5. Answers(r)
    BY <1>0, <1>2, <1>3, <2>2, <2>3, <2>4 DEF Answers, UpQuiet
  <2>6. \A t \in Sockets :
            handler'[t] = handler[t] \/ (handler[t] = "authorizing" /\ handler'[t] = "reading")
    BY <1>0, <2>3
  <2>7. QED
    BY <1>0, <1>2, <2>1, <2>3, <2>4, <2>5, <2>6, RefusedAnswer
<1>5. CASE ~ Full
  <2> DEFINE k == [at |-> "created", batch |-> 0, verdict |-> "error"]
  <2>1. /\ handler' = [handler EXCEPT ![s] = "starting"] /\ task' = [task EXCEPT ![s] = k]
        /\ UNCHANGED <<down, replies>>
    BY <1>5 DEF Authorized
  <2>2. k \in Tasks /\ k.at = "created" /\ k.batch = 0
    BY DEF Tasks, Verdicts
  <2> HIDE DEF k
  <2>3. /\ handler' \in [Sockets -> Handlers] /\ handler'[s] = "starting"
        /\ task' \in [Sockets -> Tasks] /\ task'[s] = k
        /\ \A t \in Sockets : t # s => handler'[t] = handler[t] /\ task'[t] = task[t]
    BY <1>0, <2>1, <2>2 DEF SqlTypeOK, Handlers
  <2>4. /\ \A t \in Sockets : t # s => (ActiveTask(t)' <=> ActiveTask(t)) /\ (Past(t)' <=> Past(t))
        /\ ActiveTask(s)' /\ ~ Past(s)'
        /\ \A q \in Ids : Completed(q)' <=> Completed(q)
    BY <1>0, <2>1, <2>2, <2>3 DEF ActiveTask, Past, Completed
  <2>5. \A t \in Sockets, q \in Ids : Engaged(t, q)' <=> Engaged(t, q)
    BY <1>0, <2>3, <2>4 DEF Engaged
  <2>6. SqlTypeOK'
    BY <1>0, <2>1, <2>3 DEF SqlTypeOK, pageVars
  <2>7. \A q \in Ids : replies'[q] = replies[q]
    BY <2>1
  <2>8. Answers(r)
    BY <1>0, <1>2, <1>3, <2>3, <2>5, <2>7 DEF Answers, UpQuiet
  <2>9. Fresh' /\ SentOnce'
    BY <2>8, AnswersKeep
  <2>10. AnsweredSoFar'
    <3>1. Len(replies[r]) = 0
      BY <1>2
    <3>2. ASSUME NEW t \in Sockets, t # s
          PROVE  /\ handler'[t] = "authorizing" =>
                        ~ ActiveTask(t)' /\ active'[t] \in Ids /\ replies'[active'[t]] = <<>>
                 /\ ActiveTask(t)' =>
                       /\ handler'[t] \notin {"none", "connecting", "gone"}
                       /\ active'[t] \in Ids
                       /\ Len(replies'[active'[t]]) = task'[t].batch
                       /\ \A i \in 1 .. Len(replies'[active'[t]]) :
                              replies'[active'[t]][i].type = "rows"
                       /\ task'[t].at = "created" => task'[t].batch = 0
                       /\ task'[t].at = "acking" => expected'[t] = task'[t].batch
      BY <1>0, <2>1, <2>3, <2>4, <3>2 DEF SqlInv, AnsweredSoFar
    <3>3. QED
      BY <1>0, <1>1, <2>1, <2>2, <2>3, <3>1, <3>2 DEF AnsweredSoFar
  <2>11. RowsSent'
    BY <2>1, <2>4 DEF SqlInv, RowsSent
  <2>12. PageFits'
    <3>1. UNCHANGED <<ui, requestId, batch, shown, socket, up>>
      BY <1>0 DEF pageVars
    <3>2. requestId # 0 => requestId \in Ids
      BY <1>0 DEF SqlTypeOK, Ids, Numbers
    <3>3. requestId # 0 => (Completed(requestId)' <=> Completed(requestId))
      BY <2>4, <3>1, <3>2
    <3>4. requestId # 0 => \A t \in Sockets : Engaged(t, requestId)' /\ Past(t)' =>
             Engaged(t, requestId) /\ Past(t) /\ task'[t] = task[t]
      BY <2>3, <2>4, <2>5, <3>1, <3>2
    <3>5. requestId # 0 => \A t \in Sockets : Engaged(t, requestId)' => Engaged(t, requestId)
      BY <2>5, <3>1, <3>2
    <3>6. QED
      BY <2>1, <3>1, <3>3, <3>4, <3>5 DEF SqlInv, PageFits
  <2>13. QED
    BY <2>6, <2>9, <2>10, <2>11, <2>12 DEF SqlInv
<1>6. QED
  BY <1>4, <1>5

\* A batch is sent: the first one after those that are acknowledged.
LEMMA RowsAreSent == ASSUME SqlInv, NEW s \in Sockets, TaskRows(s) PROVE SqlInv'
<1> DEFINE b == task[s].batch + 1
<1>0. /\ SqlTypeOK /\ task[s].at = "running" /\ task[s].batch \in 0 .. MaxBatches
      /\ b \in 1 .. MaxBatches /\ b = task[s].batch + 1
      /\ UNCHANGED <<pageVars, up, handler, active, closed>>
      /\ expected' = [expected EXCEPT ![s] = b] /\ ack' = [ack EXCEPT ![s] = "pending"]
      /\ Down(s, Frame("rows", active[s], b)) /\ Sent(Frame("rows", active[s], b))
  <2>1. SqlTypeOK /\ task[s] \in Tasks
    BY DEF SqlInv, SqlTypeOK
  <2>2. task[s].batch \in 0 .. MaxBatches /\ task[s].batch < MaxBatches /\ task[s].at = "running"
    BY <2>1 DEF Tasks, TaskRows
  <2>3. b \in 1 .. MaxBatches /\ b = task[s].batch + 1
    BY <2>2
  <2>4. /\ UNCHANGED <<pageVars, up, handler, active, closed>>
        /\ expected' = [expected EXCEPT ![s] = b] /\ ack' = [ack EXCEPT ![s] = "pending"]
        /\ Down(s, Frame("rows", active[s], b)) /\ Sent(Frame("rows", active[s], b))
    BY DEF TaskRows
  <2>5. QED
    BY <2>1, <2>2, <2>3, <2>4
<1>1. /\ task' \in [Sockets -> Tasks] /\ task'[s].at = "acking" /\ task'[s].batch = b
      /\ \A t \in Sockets : t # s => task'[t] = task[t]
  <2>1. task' = [task EXCEPT ![s] = [task[s] EXCEPT !.at = "acking", !.batch = b]]
    BY <1>0 DEF TaskRows, SqlTypeOK
  <2>2. task[s] \in Tasks
    BY <1>0 DEF SqlTypeOK
  <2>3. b \in 0 .. MaxBatches
    BY <1>0
  <2> HIDE DEF b
  <2>4. [task[s] EXCEPT !.at = "acking", !.batch = b] \in Tasks
        /\ [task[s] EXCEPT !.at = "acking", !.batch = b].at = "acking"
        /\ [task[s] EXCEPT !.at = "acking", !.batch = b].batch = b
    BY <2>2, <2>3 DEF Tasks
  <2>5. QED
    BY <1>0, <2>1, <2>4 DEF SqlTypeOK
<1> HIDE DEF b
<1>2. PICK r \in Ids : r = active[s]
  BY <1>0, AtWork DEF ActiveTask
<1>3. /\ Engaged(s, r) /\ ~ Unsent(r) /\ ~ Completed(r) /\ Len(replies[r]) = task[s].batch
      /\ \A t \in Sockets : Executes(r) \notin Carried(up[t])
      /\ \A t \in Sockets : Engaged(t, r) => t = s
      /\ ActiveTask(s) /\ Past(s) /\ handler[s] # "authorizing"
  BY <1>0, <1>2, AtWork DEF ActiveTask, Past
<1>4. /\ replies' \in [Ids -> Seq(Replies)]
      /\ \A q \in Ids : q # r => replies'[q] = replies[q]
      /\ Len(replies'[r]) = b
      /\ \A i \in 1 .. task[s].batch : replies'[r][i] = replies[r][i]
      /\ replies'[r][b].type = "rows" /\ ~ Completed(r)'
  <2>1. b \in 0 .. MaxBatches /\ b # 0
    BY <1>0
  <2>2. /\ replies' \in [Ids -> Seq(Replies)]
        /\ \A q \in Ids : q # r => replies'[q] = replies[q]
        /\ Len(replies'[r]) = Len(replies[r]) + 1
        /\ \A i \in 1 .. Len(replies[r]) : replies'[r][i] = replies[r][i]
        /\ replies'[r][Len(replies[r]) + 1].type = "rows"
        /\ Completed(r)' <=> "rows" = "complete"
    BY <1>0, <1>2, <2>1, Sends
  <2>3. QED
    BY <1>0, <1>3, <2>2
<1>5. /\ DownTyped
      /\ \A t \in Sockets : Carried(down'[t]) \subseteq Carried(down[t]) \cup {Frame("rows", r, b)}
      /\ \A t \in Sockets : \A g :
             OnceIn(down[t], g) /\ (g = Frame("rows", r, b) => g \notin Carried(down[t])) =>
                 OnceIn(down'[t], g)
  <2>1. Frame("rows", r, b) \in DownFrames
    BY <1>0 DEF DownFrames
  <2>2. QED
    BY <1>0, <1>2, <2>1, DownAdds
<1>6. \A t \in Sockets, c \in 1 .. MaxBatches : Frame("rows", r, c) \in Carried(down[t]) =>
          c <= task[s].batch /\ c # b
  BY <1>0, <1>3 DEF SqlInv, RowsSent
<1>7. /\ \A t \in Sockets : ActiveTask(t)' <=> ActiveTask(t)
      /\ \A t \in Sockets : t # s => (Past(t)' <=> Past(t))
      /\ ~ Past(s)'
      /\ \A q \in Ids : Completed(q)' <=> Completed(q)
  <2>1. ack'[s] = "pending" /\ \A t \in Sockets : t # s => ack'[t] = ack[t]
    BY <1>0 DEF SqlTypeOK
  <2>2. \A q \in Ids : Completed(q)' <=> Completed(q)
    BY <1>3, <1>4 DEF Completed
  <2>3. QED
    BY <1>0, <1>1, <2>1, <2>2 DEF ActiveTask, Past
<1>8. \A t \in Sockets, q \in Ids : Engaged(t, q)' <=> Engaged(t, q)
  BY <1>0, <1>7 DEF Engaged
<1>9. SqlTypeOK'
  <2>1. expected' \in [Sockets -> 0 .. MaxBatches] /\ ack' \in [Sockets -> {"none", "pending", "done"}]
    BY <1>0 DEF SqlTypeOK
  <2>2. QED
    BY <1>0, <1>1, <1>4, <1>5, <2>1 DEF SqlTypeOK, pageVars, DownTyped
<1>10. Fresh' /\ SentOnce'
  <2>1. Answers(r)
    BY <1>0, <1>3, <1>4, <1>8, UpSame DEF Answers, UpQuiet
  <2>2. QED
    BY <2>1, AnswersKeep
<1>11. AnsweredSoFar'
  <2>1. ASSUME NEW t \in Sockets, t # s
        PROVE  /\ handler'[t] = "authorizing" =>
                      ~ ActiveTask(t)' /\ active'[t] \in Ids /\ replies'[active'[t]] = <<>>
               /\ ActiveTask(t)' =>
                     /\ handler'[t] \notin {"none", "connecting", "gone"}
                     /\ active'[t] \in Ids
                     /\ Len(replies'[active'[t]]) = task'[t].batch
                     /\ \A i \in 1 .. Len(replies'[active'[t]]) : replies'[active'[t]][i].type = "rows"
                     /\ task'[t].at = "created" => task'[t].batch = 0
                     /\ task'[t].at = "acking" => expected'[t] = task'[t].batch
    <3>1. handler[t] = "authorizing" \/ ActiveTask(t) => active[t] # r
      BY <1>3, <2>1 DEF Engaged
    <3>2. expected'[t] = expected[t]
      BY <1>0, <2>1 DEF SqlTypeOK
    <3>3. QED
      BY <1>0, <1>1, <1>4, <1>7, <2>1, <3>1, <3>2 DEF SqlInv, AnsweredSoFar
  <2>2. handler[s] \notin {"none", "connecting", "gone"}
            /\ \A i \in 1 .. task[s].batch : replies[r][i].type = "rows"
    BY <1>2, <1>3 DEF SqlInv, AnsweredSoFar
  <2>3. \A i \in 1 .. b : i \in 1 .. task[s].batch \/ i = b
    BY <1>0
  <2>4. expected'[s] = b
    BY <1>0 DEF SqlTypeOK
  <2>5. \A i \in 1 .. b : replies'[r][i].type = "rows"
    BY <1>4, <2>2, <2>3
  <2>6. QED
    BY <1>0, <1>1, <1>2, <1>3, <1>4, <2>1, <2>2, <2>4, <2>5 DEF AnsweredSoFar
<1>12. RowsSent'
  <2>1. ASSUME NEW t \in Sockets, NEW q \in Ids, NEW c \in 1 .. MaxBatches,
                   Frame("rows", q, c) \in Carried(down'[t])
        PROVE  OnceIn(down'[t], Frame("rows", q, c)) /\ c <= Len(replies'[q])
                   /\ replies'[q][c].type = "rows"
    <3>1. CASE q = r /\ c = b
      <4>1. Frame("rows", q, c) \notin Carried(down[t])
        BY <1>6, <3>1
      <4>2. OnceIn(down[t], Frame("rows", q, c))
        BY <4>1 DEF OnceIn, Carried
      <4>3. OnceIn(down'[t], Frame("rows", q, c))
        BY <1>5, <3>1, <4>1, <4>2
      <4>4. QED
        BY <1>0, <1>4, <3>1, <4>3
    <3>2. CASE ~ (q = r /\ c = b)
      <4>1. Frame("rows", q, c) # Frame("rows", r, b)
        BY <3>2, FramesApart
      <4>2. Frame("rows", q, c) \in Carried(down[t])
        BY <1>5, <2>1, <4>1
      <4>3. OnceIn(down[t], Frame("rows", q, c)) /\ c <= Len(replies[q]) /\ replies[q][c].type = "rows"
        BY <4>2 DEF SqlInv, RowsSent
      <4>4. q = r => c \in 1 .. task[s].batch
        BY <1>0, <1>6, <4>2
      <4>5. c <= Len(replies'[q]) /\ replies'[q][c].type = "rows"
        BY <1>0, <1>4, <4>3, <4>4
      <4>6. QED
        BY <1>5, <4>1, <4>3, <4>5
    <3>3. QED
      BY <3>1, <3>2
  <2>2. ASSUME NEW t \in Sockets, NEW q \in Ids, Frame("complete", q, 0) \in Carried(down'[t])
        PROVE Completed(q)'
    <3>1. Frame("complete", q, 0) # Frame("rows", r, b)
      BY FramesApart
    <3>2. Completed(q)
      BY <1>5, <2>2, <3>1 DEF SqlInv, RowsSent
    <3>3. QED
      BY <1>7, <3>2
  <2>3. QED
    BY <2>1, <2>2 DEF RowsSent
<1>13. PageFits'
  <2>1. UNCHANGED <<ui, requestId, batch, shown, socket, up>>
    BY <1>0 DEF pageVars
  <2>2. requestId # 0 => requestId \in Ids /\ batch \in Nat
    BY <1>0 DEF SqlTypeOK, Ids, Numbers
  <2>3. requestId = r => shown = batch /\ batch = task[s].batch
    BY <1>2, <1>3 DEF SqlInv, PageFits, Ids
  <2>4. requestId # 0 => batch <= Len(replies'[requestId])
    BY <1>0, <1>4, <2>2, <2>3 DEF SqlInv, PageFits
  <2>5. ASSUME requestId # 0, socket # 0, NEW c \in 1 .. MaxBatches,
                   Frame("rows", requestId, c) \in Carried(down'[socket])
        PROVE  c = batch + 1 /\ shown = batch
    <3>1. socket \in Sockets
      BY <1>0, <2>5 DEF SqlTypeOK, Sockets, Ids, Numbers
    <3>2. CASE Frame("rows", requestId, c) \in Carried(down[socket])
      BY <2>5, <3>1, <3>2 DEF SqlInv, PageFits
    <3>3. CASE Frame("rows", requestId, c) \notin Carried(down[socket])
      <4>1. Frame("rows", requestId, c) = Frame("rows", r, b)
        BY <1>5, <2>5, <3>1, <3>3
      <4>2. requestId = r /\ c = b
        BY <4>1, FramesApart
      <4>3. QED
        BY <1>0, <2>3, <4>2
    <3>4. QED
      BY <3>2, <3>3
  <2>6. requestId # 0 => (Completed(requestId)' <=> Completed(requestId) /\ requestId # r)
    BY <1>3, <1>7, <2>1, <2>2
  <2>7. requestId # 0 => \A t \in Sockets : Engaged(t, requestId)' /\ Past(t)' =>
           Engaged(t, requestId) /\ Past(t) /\ task'[t] = task[t]
    BY <1>1, <1>7, <1>8, <2>1, <2>2
  <2>8. requestId # 0 => \A t \in Sockets : Engaged(t, requestId)' => Engaged(t, requestId)
    BY <1>8, <2>1, <2>2
  <2>9. ASSUME requestId # 0, Completed(requestId)'
        PROVE  shown = batch /\ batch = Len(replies'[requestId]) - 1
                   /\ \A t \in Sockets : ~ Engaged(t, requestId)'
    <3>1. Completed(requestId) /\ requestId # r /\ requestId \in Ids
      BY <2>2, <2>6, <2>9
    <3>2. shown = batch /\ batch = Len(replies[requestId]) - 1
              /\ \A t \in Sockets : ~ Engaged(t, requestId)
      BY <2>9, <3>1 DEF SqlInv, PageFits
    <3>3. QED
      BY <1>4, <2>8, <2>9, <3>1, <3>2
  <2>10. ui = "Completed" => requestId # 0 /\ Completed(requestId)'
    BY <1>3, <2>6 DEF SqlInv, PageFits
  <2>11. QED
    BY <2>1, <2>4, <2>5, <2>7, <2>9, <2>10 DEF SqlInv, PageFits
<1>14. QED
  BY <1>9, <1>10, <1>11, <1>12, <1>13 DEF SqlInv

\* The verdict is sent, or not: a complete query has every batch acknowledged.
LEMMA Reports == ASSUME SqlInv, NEW s \in Sockets, Report(s) PROVE SqlInv'
<1>0. /\ SqlTypeOK /\ task[s].at = "reporting" /\ task[s].verdict \in Verdicts
      /\ UNCHANGED <<pageVars, up, handler, active, expected, ack, closed>>
  BY DEF SqlInv, SqlTypeOK, Report, Tasks, handlerVars
<1>1. /\ task' \in [Sockets -> Tasks] /\ task'[s].at = "done" /\ task'[s].batch = task[s].batch
      /\ \A t \in Sockets : t # s => task'[t] = task[t]
  <2>1. task' = [task EXCEPT ![s] = [task[s] EXCEPT !.at = "done"]]
    BY <1>0 DEF Report, SqlTypeOK
  <2>2. task[s] \in Tasks
    BY <1>0 DEF SqlTypeOK
  <2>3. [task[s] EXCEPT !.at = "done"] \in Tasks /\ [task[s] EXCEPT !.at = "done"].at = "done"
        /\ [task[s] EXCEPT !.at = "done"].batch = task[s].batch
    BY <2>2 DEF Tasks
  <2>4. QED
    BY <1>0, <2>1, <2>3 DEF SqlTypeOK
<1>2. /\ \A t \in Sockets : t # s => (ActiveTask(t)' <=> ActiveTask(t)) /\ (Past(t)' <=> Past(t))
      /\ ~ ActiveTask(s)' /\ ~ Past(s)' /\ ActiveTask(s)
  BY <1>0, <1>1 DEF ActiveTask, Past
<1>3. CASE UNCHANGED <<down, replies>>
  <2>1. TaskQuiet
    BY <1>0, <1>1, <1>2 DEF TaskQuiet, SqlTypeOK
  <2>2. HandlerQuiet
    BY <1>0, <1>2 DEF HandlerQuiet, SqlInv, AnsweredSoFar, SqlTypeOK
  <2>3. PageTypeOK' /\ PageBehind
    BY <1>0, <1>3, PageStays
  <2>4. NothingNew /\ closed' \in BOOLEAN
    BY <1>0, <1>3, <2>1, <2>2, UpSame, DownSame DEF NothingNew, pageVars, SqlTypeOK
  <2>5. SqlTypeOK'
    BY <1>0, <2>3, <2>4, TypesTogether
  <2>6. QED
    BY <2>3, <2>4, <2>5, QuietKeeps
<1>4. ASSUME Down(s, Frame(task[s].verdict, active[s], 0)),
                 Sent(Frame(task[s].verdict, active[s], 0)) PROVE SqlInv'
  <2>1. PICK r \in Ids : r = active[s]
    BY <1>2, AtWork
  <2>2. PICK v \in Verdicts : v = task[s].verdict
    BY <1>0
  <2>3. /\ Engaged(s, r) /\ ~ Unsent(r) /\ ~ Completed(r) /\ Len(replies[r]) = task[s].batch
        /\ \A t \in Sockets : Executes(r) \notin Carried(up[t])
        /\ \A t \in Sockets : Engaged(t, r) => t = s
        /\ handler[s] # "authorizing" /\ Len(replies[r]) \in Nat
    BY <1>2, <2>1, AtWork
  <2>4. /\ replies' \in [Ids -> Seq(Replies)]
        /\ \A q \in Ids : q # r => replies'[q] = replies[q]
        /\ Len(replies'[r]) = Len(replies[r]) + 1
        /\ \A i \in 1 .. Len(replies[r]) : replies'[r][i] = replies[r][i]
        /\ (Completed(r)' <=> v = "complete")
    <3>1. v \in Verdicts \cup {"rows"} /\ v # "rows" /\ 0 \in 0 .. MaxBatches
      BY <2>2 DEF Verdicts
    <3>2. Sent(Frame(v, r, 0))
      BY <1>4, <2>1, <2>2
    <3>3. QED
      BY <1>0, <3>1, <3>2, Sends
  <2>5. /\ DownTyped
        /\ \A t \in Sockets : Carried(down'[t]) \subseteq Carried(down[t]) \cup {Frame(v, r, 0)}
        /\ \A t \in Sockets : \A g :
               OnceIn(down[t], g) /\ (g = Frame(v, r, 0) => g \notin Carried(down[t])) =>
                   OnceIn(down'[t], g)
    <3>1. Frame(v, r, 0) \in DownFrames
      BY DEF DownFrames
    <3>2. Down(s, Frame(v, r, 0))
      BY <1>4, <2>1, <2>2
    <3>3. QED
      BY <1>0, <3>1, <3>2, DownAdds
  <2>6. \A q \in Ids : q # r => (Completed(q)' <=> Completed(q))
    BY <2>4 DEF Completed
  <2>7. \A t \in Sockets, q \in Ids : Engaged(t, q)' <=> Engaged(t, q) /\ t # s
    BY <1>0, <1>2, <2>3 DEF Engaged
  <2>8. SqlTypeOK'
    BY <1>0, <1>1, <2>4, <2>5 DEF SqlTypeOK, pageVars, DownTyped
  <2>9. Fresh' /\ SentOnce'
    <3>1. Answers(r)
      BY <1>0, <2>3, <2>4, <2>7, UpSame DEF Answers, UpQuiet
    <3>2. QED
      BY <3>1, AnswersKeep
  <2>10. AnsweredSoFar'
    <3>1. ASSUME NEW t \in Sockets, t # s
          PROVE  /\ handler'[t] = "authorizing" =>
                        ~ ActiveTask(t)' /\ active'[t] \in Ids /\ replies'[active'[t]] = <<>>
                 /\ ActiveTask(t)' =>
                       /\ handler'[t] \notin {"none", "connecting", "gone"}
                       /\ active'[t] \in Ids
                       /\ Len(replies'[active'[t]]) = task'[t].batch
                       /\ \A i \in 1 .. Len(replies'[active'[t]]) :
                              replies'[active'[t]][i].type = "rows"
                       /\ task'[t].at = "created" => task'[t].batch = 0
                       /\ task'[t].at = "acking" => expected'[t] = task'[t].batch
      <4>1. handler[t] = "authorizing" \/ ActiveTask(t) => active[t] # r
        BY <2>3, <3>1 DEF Engaged
      <4>2. QED
        BY <1>0, <1>1, <1>2, <2>4, <3>1, <4>1 DEF SqlInv, AnsweredSoFar
    <3>2. QED
      BY <1>0, <1>2, <2>3, <3>1 DEF AnsweredSoFar
  <2>11. RowsSent'
    <3>1. ASSUME NEW t \in Sockets, NEW q \in Ids, NEW c \in 1 .. MaxBatches,
                     Frame("rows", q, c) \in Carried(down'[t])
          PROVE  OnceIn(down'[t], Frame("rows", q, c)) /\ c <= Len(replies'[q])
                     /\ replies'[q][c].type = "rows"
      <4>1. Frame("rows", q, c) # Frame(v, r, 0)
        BY FramesApart
      <4>2. Frame("rows", q, c) \in Carried(down[t])
        BY <2>5, <3>1, <4>1
      <4>3. OnceIn(down[t], Frame("rows", q, c)) /\ c <= Len(replies[q]) /\ replies[q][c].type = "rows"
        BY <4>2 DEF SqlInv, RowsSent
      <4>4. q = r => c \in 1 .. Len(replies[r])
        BY <2>3, <4>3
      <4>5. c <= Len(replies'[q]) /\ replies'[q][c].type = "rows"
        BY <2>3, <2>4, <4>3, <4>4
      <4>6. QED
        BY <2>5, <4>1, <4>3, <4>5
    <3>2. ASSUME NEW t \in Sockets, NEW q \in Ids,
                     Frame("complete", q, 0) \in Carried(down'[t]) PROVE Completed(q)'
      <4>1. CASE Frame("complete", q, 0) \in Carried(down[t])
        <5>1. Completed(q) /\ q # r
          BY <2>3, <4>1 DEF SqlInv, RowsSent
        <5>2. QED
          BY <2>6, <5>1
      <4>2. CASE Frame("complete", q, 0) \notin Carried(down[t])
        <5>1. Frame("complete", q, 0) = Frame(v, r, 0)
          BY <2>5, <3>2, <4>2
        <5>2. v = "complete" /\ q = r
          BY <5>1 DEF Frame
        <5>3. QED
          BY <2>4, <5>2
      <4>3. QED
        BY <4>1, <4>2
    <3>3. QED
      BY <3>1, <3>2 DEF RowsSent
  <2>12. PageFits'
    <3>1. UNCHANGED <<ui, requestId, batch, shown, socket, up>>
      BY <1>0 DEF pageVars
    <3>2. requestId # 0 => requestId \in Ids /\ batch \in Nat
      BY <1>0 DEF SqlTypeOK, Ids, Numbers
    <3>3. requestId # 0 => batch <= Len(replies'[requestId])
      BY <2>3, <2>4, <3>2 DEF SqlInv, PageFits
    <3>4. ASSUME requestId # 0, socket # 0, NEW c \in 1 .. MaxBatches,
                     Frame("rows", requestId, c) \in Carried(down'[socket])
          PROVE  c = batch + 1 /\ shown = batch
      <4>1. socket \in Sockets
        BY <1>0, <3>4 DEF SqlTypeOK, Sockets, Ids, Numbers
      <4>2. Frame("rows", requestId, c) # Frame(v, r, 0)
        BY FramesApart
      <4>3. Frame("rows", requestId, c) \in Carried(down[socket])
        BY <2>5, <3>4, <4>1, <4>2
      <4>4. QED
        BY <3>4, <4>1, <4>3 DEF SqlInv, PageFits
    <3>5. requestId # 0 => \A t \in Sockets : Engaged(t, requestId)' =>
             Engaged(t, requestId) /\ t # s /\ (Past(t)' <=> Past(t)) /\ task'[t] = task[t]
      BY <1>1, <1>2, <2>7, <3>1, <3>2
    <3>6. ASSUME requestId # 0, Completed(requestId)'
          PROVE  shown = batch /\ batch = Len(replies'[requestId]) - 1
                     /\ \A t \in Sockets : ~ Engaged(t, requestId)'
      <4>1. CASE requestId = r
        <5>1. v = "complete"
          BY <2>4, <3>1, <3>6, <4>1
        <5>2. Past(s)
          BY <1>0, <2>2, <5>1 DEF Past
        <5>3. shown = batch /\ batch = task[s].batch
          BY <2>3, <3>6, <4>1, <5>2 DEF SqlInv, PageFits
        <5>4. \A t \in Sockets : ~ Engaged(t, requestId)'
          BY <2>3, <3>5, <3>6, <4>1
        <5>5. QED
          BY <2>3, <2>4, <4>1, <5>3, <5>4
      <4>2. CASE requestId # r
        <5>1. Completed(requestId) /\ requestId \in Ids
          BY <2>6, <3>1, <3>2, <3>6, <4>2
        <5>2. shown = batch /\ batch = Len(replies[requestId]) - 1
                  /\ \A t \in Sockets : ~ Engaged(t, requestId)
          BY <3>6, <5>1 DEF SqlInv, PageFits
        <5>3. QED
          BY <2>4, <3>5, <3>6, <4>2, <5>1, <5>2
      <4>3. QED
        BY <4>1, <4>2
    <3>7. ui = "Completed" => requestId # 0 /\ Completed(requestId)'
      <4>1. ui = "Completed" => requestId # 0 /\ Completed(requestId)
        BY DEF SqlInv, PageFits
      <4>2. QED
        BY <2>3, <2>6, <3>1, <3>2, <4>1
    <3>8. requestId # 0 => \A t \in Sockets : Engaged(t, requestId)' /\ Past(t)' =>
              shown = batch /\ batch = task'[t].batch
      BY <3>5 DEF SqlInv, PageFits
    <3>9. QED
      BY <3>1, <3>3, <3>4, <3>6, <3>7, <3>8 DEF SqlInv, PageFits
  <2>13. QED
    BY <2>8, <2>9, <2>10, <2>11, <2>12 DEF SqlInv
<1>5. QED
  BY <1>3, <1>4 DEF Report

\* A page that was just opened.
LEMMA SqlStart == SqlInit => SqlInv
<1> SUFFICES ASSUME SqlInit PROVE SqlInv
  OBVIOUS
<1> USE DEF SqlInit
<1>1. \A s \in Sockets : up[s] = <<>> /\ down[s] = <<>> /\ ~ ActiveTask(s) /\ ~ Past(s)
  BY DEF ActiveTask, Past
<1>2. \A s \in Sockets : \A r : ~ Engaged(s, r)
  BY <1>1 DEF Engaged
<1>3. SqlTypeOK
  <2>1. up \in [Sockets -> Seq(UpFrames)] /\ down \in [Sockets -> Seq(DownFrames)]
            /\ replies \in [Ids -> Seq(Replies)]
    <3>1. \A S : <<>> \in Seq(S)
      OBVIOUS
    <3>2. QED
      BY <3>1
  <2>2. task \in [Sockets -> Tasks]
    BY DEF Tasks, Verdicts
  <2>3. active \in [Sockets -> Numbers] /\ expected \in [Sockets -> 0 .. MaxBatches]
        /\ handler \in [Sockets -> Handlers] /\ ack \in [Sockets -> {"none", "pending", "done"}]
    BY DEF Numbers, Handlers
  <2>4. PageTypeOK
    <3>1. MaxRequests \in Nat /\ 0 \in Numbers /\ 0 + 0 <= MaxRequests /\ 0 \in 0 .. 0
              /\ 0 \in 0 .. MaxBatches /\ {} \subseteq {"current", "forgotten"}
      BY DEF Numbers
    <3>2. QED
      BY <3>1 DEF PageTypeOK
  <2>5. QED
    BY <2>1, <2>2, <2>3, <2>4 DEF SqlTypeOK, PageTypeOK
<1>4. Fresh /\ SentOnce
  BY <1>1, <1>2, CarriedEmpty, OnceInEmpty DEF Fresh, SentOnce, Unsent, Sockets
<1>5. AnsweredSoFar
  BY <1>1 DEF AnsweredSoFar
<1>6. RowsSent /\ PageFits
  BY <1>1, <1>2, CarriedEmpty DEF RowsSent, PageFits
<1>7. QED
  BY <1>3, <1>4, <1>5, <1>6 DEF SqlInv

\* The whole invariant is kept.
LEMMA SqlStep == SqlInv /\ [SqlNext]_sqlVars => SqlInv'
<1> SUFFICES ASSUME SqlInv, [SqlNext]_sqlVars PROVE SqlInv'
  OBVIOUS
<1>1. CASE PageQuiet
  BY <1>1, PageQuietly, QuietKeeps
<1>2. CASE ServerQuiet
  BY <1>2, ServerQuietly, QuietKeeps
<1>3. CASE RunOnOpen
  BY <1>3, RunsOnOpen
<1>4. CASE Connect
  BY <1>4, Connects
<1>5. CASE \E s \in Sockets : Opened(s)
  BY <1>5, Opens
<1>6. CASE \E f : Arrives(f) /\ OnRows(f)
  BY <1>6, RowsArrive
<1>7. CASE \E s \in Sockets : \E f : Reads(s, f) /\ (OnAck(s, f) \/ OnExecute(s, f))
  BY <1>7, AcksArrive, Executed
<1>8. CASE \E s \in Sockets : Authorized(s) \/ Started(s) \/ TaskRows(s) \/ Report(s)
  BY <1>8, Authorizes, Starts, RowsAreSent, Reports
<1>9. CASE UNCHANGED sqlVars
  <2>1. UNCHANGED <<pageVars, up, down, serverVars, handler, active, expected, ack, task, closed, replies, issued>>
    BY <1>9 DEF sqlVars, serverVars, handlerVars, pageVars
  <2>2. NothingNew /\ closed' \in BOOLEAN
    BY <2>1, UpSame, DownSame, TaskSame, HandlerSame DEF NothingNew, SqlInv, SqlTypeOK
  <2>3. PageTypeOK' /\ PageBehind
    BY <2>1, PageStays
  <2>4. SqlTypeOK'
    BY <2>2, <2>3, TypesTogether DEF SqlInv
  <2>5. QED
    BY <2>2, <2>3, <2>4, QuietKeeps
<1>10. CASE SqlNext
  <2>1. CASE Page
    BY <1>1, <1>3, <1>4, <1>5, <1>6, <2>1 DEF Page, CheckAnswers, Receive, PageQuiet
  <2>2. CASE Shutdown
    BY <1>2, <2>2 DEF ServerQuiet
  <2>3. CASE \E s \in Sockets : Handle(s)
    BY <1>2, <1>7, <1>8, <2>3 DEF Handle, ServerQuiet
  <2>4. CASE \E s \in Sockets : Query(s)
    BY <1>2, <1>8, <2>4 DEF Query, ServerQuiet
  <2>5. QED
    BY <1>10, <2>1, <2>2, <2>3, <2>4 DEF SqlNext
<1>11. QED
  BY <1>9, <1>10

\* And so it holds.
LEMMA SqlInvariant == SqlSpec => []SqlInv
  BY SqlStart, SqlStep, PTL DEF SqlSpec

\* The page, the frames under way, the handlers and the queries keep their types
\* (useSqlConsole.ts, api/sql_console.py, sql_console/runtime.py).
THEOREM SqlTypeCorrect == SqlSpec => []SqlTypeOK
<1>1. SqlInv => SqlTypeOK
  BY DEF SqlInv
<1>2. QED
  BY <1>1, SqlInvariant, PTL

\* A page that says "completed" shows every batch the server sent, for any number of
\* queries and batches, whatever was cancelled, timed out, dropped, reconnected or sent
\* about earlier queries on the way (useSqlConsole.ts onmessage, runtime.py flush).
THEOREM ResultsWhole == SqlSpec => []CompletedShowsAll
<1>1. SqlInv => CompletedShowsAll
  BY DEF SqlInv, PageFits, CompletedShowsAll
<1>2. QED
  BY <1>1, SqlInvariant, PTL

\* A handler does not end before its query: what it accepted is cancelled and awaited on
\* every way out (console_socket, ConsoleRuntime.execute).
THEOREM NoQueryOrphaned == SqlSpec => []NoOrphan
<1>1. SqlInv => NoOrphan
  BY DEF SqlInv, AnsweredSoFar, NoOrphan
<1>2. QED
  BY <1>1, SqlInvariant, PTL

=============================================================================
