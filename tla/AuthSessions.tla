---------------------------- MODULE AuthSessions ----------------------------
(***************************************************************************)
(* Server-side administrator sessions of one account (auth/service.py),    *)
(* the operator's account management (auth/manage.py) and the retention    *)
(* job (auth/maintenance.py). A login verifies a password outside any      *)
(* transaction; a request reads the clock before it reaches the database.  *)
(*                                                                         *)
(* Inserting a session takes a key-share lock on its account, which the    *)
(* operator's SELECT FOR UPDATE excludes: management is one step between   *)
(* the steps of a login.                                                   *)
(***************************************************************************)
EXTENDS Naturals, FiniteSets

CONSTANTS
    Tokens,      \* session tokens, each drawn once
    Logins,      \* login requests under way
    Requests,    \* authenticated requests under way
    Passwords,
    Lifetime,    \* auth_session_seconds
    Idle,        \* auth_idle_seconds
    Heartbeat,   \* auth_session_heartbeat_seconds
    Retention,   \* auth_revoked_retention_seconds
    MaxTime,     \* bound: the clock
    MaxVersion,  \* bound: the account's credential_version
    NoToken

ASSUME Durations ==
    /\ Lifetime \in Nat /\ Idle \in Nat /\ Heartbeat \in Nat /\ Retention \in Nat
    /\ 0 < Heartbeat /\ Heartbeat < Idle /\ Idle <= Lifetime
ASSUME AuthBounds == MaxTime \in Nat \ {0} /\ MaxVersion \in Nat \ {0}
ASSUME NoTokenAssumption == NoToken \notin Tokens

VARIABLES
    clock,     \* datetime.now(UTC) in every process, 1 at the start
    account,   \* the auth_account row, version 0 before it is created
    session,   \* the auth_session row of each token
    login,     \* login() of each login request
    request,   \* session_identity() of each request
    epoch,     \* history: changes of the account so far
    opened,    \* history: the epoch in which a session's password was verified
    used       \* history: when the last finished request of a session began

vars == <<clock, account, session, login, request, epoch, opened, used>>

Times == 0..MaxTime
Account == [version: 0..MaxVersion, password: Passwords, active: BOOLEAN]
\* revoked is 0 for NULL.
Session == [state: {"unused", "live", "gone"}, version: 0..MaxVersion,
            created: Times, seen: Times, revoked: Times]
Login == [at: {"idle", "verifying", "verified", "rechecked"},
          version: 0..MaxVersion, good: BOOLEAN, now: Times, epoch: 0..MaxVersion]
Request == [at: {"idle", "started", "accepted"}, token: Tokens \cup {NoToken}, now: Times]

NoSession == [state |-> "unused", version |-> 0, created |-> 0, seen |-> 0, revoked |-> 0]
NoLogin == [at |-> "idle", version |-> 0, good |-> FALSE, now |-> 0, epoch |-> 0]
NoRequest == [at |-> "idle", token |-> NoToken, now |-> 0]

Live(t) == session[t].state = "live"

Init ==
    /\ clock = 1
    /\ account \in {[version |-> 0, password |-> p, active |-> FALSE] : p \in Passwords}
    /\ session = [t \in Tokens |-> NoSession]
    /\ login = [l \in Logins |-> NoLogin]
    /\ request = [r \in Requests |-> NoRequest]
    /\ epoch = 0
    /\ opened = [t \in Tokens |-> 0]
    /\ used = [t \in Tokens |-> 0]

Tick ==
    /\ clock < MaxTime
    /\ clock' = clock + 1
    /\ UNCHANGED <<account, session, login, request, epoch, opened, used>>
-----------------------------------------------------------------------------
(* The operator: manage_account().                                         *)

Create(p, active) ==
    /\ account.version = 0
    /\ account' = [version |-> 1, password |-> p, active |-> active]
    /\ UNCHANGED <<clock, session, login, request, epoch, opened, used>>

\* Every session there is becomes revoked, once more if it was.
RevokeAll == [t \in Tokens |-> IF Live(t) THEN [session[t] EXCEPT !.revoked = clock]
                               ELSE session[t]]

\* Mutant: only a new password makes what went before invalid.
ManageOfPassword(new) ==
    /\ account.version > 0 /\ epoch + 1 < MaxVersion
    /\ IF new.password = account.password
       THEN account' = new /\ UNCHANGED session
       ELSE account' = [new EXCEPT !.version = @ + 1] /\ session' = RevokeAll
    /\ epoch' = epoch + 1
    /\ UNCHANGED <<clock, login, request, opened, used>>

\* A new password, activate, disable, and a grant or its removal, which
\* changes no field that matters here: the version rises each time.
Manage(new) ==
    /\ account.version > 0 /\ epoch + 1 < MaxVersion
    /\ account' = [new EXCEPT !.version = @ + 1]
    /\ session' = RevokeAll
    /\ epoch' = epoch + 1
    /\ UNCHANGED <<clock, login, request, opened, used>>
NewAccounts ==
    {[account EXCEPT !.password = p] : p \in Passwords}
    \cup {[account EXCEPT !.active = a] : a \in BOOLEAN}
-----------------------------------------------------------------------------
(* A login.                                                                *)

\* The row is read, then the password is compared with it outside the
\* transaction, which takes long.
LoginRead(l, p) ==
    /\ login[l].at = "idle"
    /\ account.version > 0
    /\ login' = [login EXCEPT ![l] =
                    [at |-> "verifying", version |-> account.version,
                     good |-> (account.password = p /\ account.active), now |-> 0, epoch |-> epoch]]
    /\ UNCHANGED <<clock, account, session, request, epoch, opened, used>>

LoginVerify(l) ==
    /\ login[l].at = "verifying"
    /\ login' = [login EXCEPT ![l] =
                    IF @.good THEN [@ EXCEPT !.at = "verified", !.now = clock] ELSE NoLogin]
    /\ UNCHANGED <<clock, account, session, request, epoch, opened, used>>

\* The account is still active with the credential that was verified.
LoginRecheck(l) ==
    /\ login[l].at = "verified"
    /\ login' = [login EXCEPT ![l] =
                    IF account.active /\ account.version = @.version
                    THEN [@ EXCEPT !.at = "rechecked"] ELSE NoLogin]
    /\ UNCHANGED <<clock, account, session, request, epoch, opened, used>>

\* Mutant: the session gets the version the account has by now.
CurrentVersion(l) == account.version
VerifiedVersion(l) == login[l].version

LoginInsert(l, t) ==
    /\ login[l].at = "rechecked"
    /\ session[t].state = "unused"
    /\ session' = [session EXCEPT ![t] =
                      [state |-> "live", version |-> VerifiedVersion(l),
                       created |-> login[l].now, seen |-> login[l].now, revoked |-> 0]]
    /\ opened' = [opened EXCEPT ![t] = login[l].epoch]
    /\ login' = [login EXCEPT ![l] = NoLogin]
    /\ UNCHANGED <<clock, account, request, epoch, used>>

\* revoke(): logout, and the browser's previous session after a login.
Revoke(t) ==
    /\ Live(t)
    /\ session' = [session EXCEPT ![t].revoked = clock]
    /\ UNCHANGED <<clock, account, login, request, epoch, opened, used>>
-----------------------------------------------------------------------------
(* An authenticated request: session_identity().                           *)

Begin(r, t) ==
    /\ request[r].at = "idle"
    /\ session[t].state # "unused"
    /\ request' = [request EXCEPT ![r] = [at |-> "started", token |-> t, now |-> clock]]
    /\ UNCHANGED <<clock, account, session, login, epoch, opened, used>>

Valid(t, now) ==
    /\ Live(t) /\ session[t].revoked = 0
    /\ session[t].created + Lifetime > now
    /\ session[t].seen + Idle > now
    /\ session[t].version = account.version
    /\ account.active

Accepts(r) == request[r].at = "started" /\ Valid(request[r].token, request[r].now)

Identify(r) ==
    /\ request[r].at = "started"
    /\ request' = [request EXCEPT ![r] =
                      IF Accepts(r) THEN [@ EXCEPT !.at = "accepted"] ELSE NoRequest]
    /\ UNCHANGED <<clock, account, session, login, epoch, opened, used>>

\* Mutant: the heartbeat is due one unit late.
LateHeartbeat(t, now) == session[t].seen + Heartbeat < now
\* The heartbeat interval has passed, compared in the update itself.
DueHeartbeat(t, now) == session[t].seen + Heartbeat <= now

Beat(r) ==
    LET t == request[r].token
        now == request[r].now
    IN  /\ request[r].at = "accepted"
        /\ session' = IF /\ Live(t) /\ session[t].revoked = 0
                         /\ session[t].created + Lifetime > now
                         /\ session[t].seen + Idle > now
                         /\ DueHeartbeat(t, now)
                      THEN [session EXCEPT ![t].seen = now] ELSE session
        /\ used' = [used EXCEPT ![t] = IF @ < now THEN now ELSE @]
        /\ request' = [request EXCEPT ![r] = NoRequest]
        /\ UNCHANGED <<clock, account, login, epoch, opened>>
-----------------------------------------------------------------------------
(* Retention: cleanup_batch().                                             *)

Obsolete(t) ==
    \/ session[t].created + Lifetime <= clock
    \/ session[t].seen + Idle <= clock
    \/ session[t].revoked # 0 /\ session[t].revoked + Retention <= clock

\* A batch, here of one.
Cleanup(t) ==
    /\ Live(t)
    /\ Obsolete(t)
    /\ session' = [session EXCEPT ![t] = [NoSession EXCEPT !.state = "gone"]]
    /\ UNCHANGED <<clock, account, login, request, epoch, opened, used>>

Next ==
    \/ Tick
    \/ \E p \in Passwords, a \in BOOLEAN : Create(p, a)
    \/ \E new \in NewAccounts : Manage(new)
    \/ \E l \in Logins : \/ \E p \in Passwords : LoginRead(l, p)
                         \/ LoginVerify(l) \/ LoginRecheck(l)
                         \/ \E t \in Tokens : LoginInsert(l, t)
    \/ \E t \in Tokens : Revoke(t) \/ Cleanup(t)
    \/ \E r \in Requests : \/ \E t \in Tokens : Begin(r, t)
                           \/ Identify(r) \/ Beat(r)

Spec == Init /\ [][Next]_vars
-----------------------------------------------------------------------------
(* Properties.                                                             *)

\* Every variable has its type, no row is ahead of the clock, and the version
\* counts the changes of the account.
TypeOK ==
    /\ clock \in Times
    /\ account \in Account
    /\ session \in [Tokens -> Session]
    /\ login \in [Logins -> Login]
    /\ request \in [Requests -> Request]
    /\ epoch \in 0..MaxVersion
    /\ opened \in [Tokens -> 0..MaxVersion]
    /\ used \in [Tokens -> Times]
    /\ account.version > 0 => account.version = epoch + 1
    /\ \A t \in Tokens : session[t].seen <= clock /\ session[t].revoked <= clock

\* A request is accepted only for a session whose password was verified
\* against the account as it is now: no change of the password, of the grants
\* or of the activation came between, whichever login it overtook.
AcceptedIsCurrent ==
    [][\A r \in Requests :
        request[r].at = "started" /\ request'[r].at = "accepted" =>
            opened[request[r].token] = epoch /\ account.active]_vars

\* Revoked, expired, of an older credential, or of a disabled account.
Dead(t) ==
    \/ session[t].state = "gone"
    \/ /\ Live(t)
       /\ \/ session[t].revoked # 0
          \/ session[t].created + Lifetime <= clock
          \/ session[t].version # account.version
          \/ ~account.active

\* A session that cannot be used any more never can again: no late heartbeat
\* and no change of the account revives it.
DeadStays == [][\A t \in Tokens : Dead(t) => Dead(t)']_vars

\* Late heartbeats of slow requests never set a session's last use back.
SeenForward ==
    [][\A t \in Tokens : Live(t) /\ Live(t)' => session[t].seen <= session'[t].seen]_vars

\* A session in use is kept: it counts as idle only when no request came for
\* Idle less one heartbeat interval.
KeptAlive ==
    \A t \in Tokens : Live(t) /\ session[t].revoked = 0 => used[t] < session[t].seen + Heartbeat
=============================================================================
