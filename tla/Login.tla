------------------------------- MODULE Login -------------------------------
(***************************************************************************)
(* Who gets a session: the administrator's password (auth_svc), the login  *)
(* through an OIDC provider (sso_svc), the cookies of the browser that     *)
(* tie the two halves of such a login together, and the API keys.          *)
(*                                                                         *)
(* Requests overlap.  Two mutexes order them: `mu` those that compare a    *)
(* password, `writeMu` those that save the one row with the provider, the  *)
(* bound account and the switch for password logins.  An OIDC login holds  *)
(* neither while the provider is asked.  A password is its version; tokens *)
(* that the properties do not tell apart are one.                          *)
(***************************************************************************)
EXTENDS Naturals, FiniteSets

CONSTANTS Requests,     \* requests at a time
          Apps,         \* what the panel can be registered as: issuer and client ID
          Issuer,       \* [Apps -> issuers]
          Subs,         \* accounts, by the name ("sub") each issuer has for them
          Browsers,
          MaxFailures,  \* wrong passwords until the login is locked
          MaxPending,   \* authorizations under way that the panel remembers
          MaxStarts,    \* bound: authorizations started
          MaxPasswords, \* bound: passwords set
          MaxSessions,  \* bound: sessions at a time
          MaxRestarts,  \* bound: restarts of the process
          None

ASSUME LoginConstants ==
  /\ {MaxStarts, MaxSessions, MaxRestarts} \subseteq Nat
  /\ {MaxFailures, MaxPasswords} \subseteq Nat \ {0} /\ MaxPending \in Nat \ {0}
  /\ None \notin Requests

Accounts == [issuer : {Issuer[a] : a \in Apps}, sub : Subs]
Passwords == 0 .. MaxPasswords     \* 0: none is set, or a wrong guess
Starts == 1 .. MaxStarts

VARIABLES
  admin,     \* the row of the administrator: [password, failed, locked]
  sso,       \* the row of the provider: [app, bound, passwordLogin]
  sessions,  \* rows of sessions: [by, ref], by the password or the account they came from
  apiKey,    \* an API key: "none", "usable", "revoked"
  mu, writeMu,   \* the request that holds the mutex, or None
  req,       \* [Requests -> what it is doing, with what it has read]
  pending,   \* authorizations remembered: [id, purpose, app]
  started,   \* how many were started
  cookie,    \* [Browsers -> the start its cookie belongs to, or 0]
  forced,    \* the environment forces password logins
  restarts,
  \* history
  guesses,   \* wrong passwords answered since the last right one or the end of a lock
  confirmed, \* the last password whose change was confirmed
  everBound  \* accounts that have been bound

adminVars == <<admin, mu, guesses, confirmed>>
ssoVars == <<sso, writeMu, everBound>>
flowVars == <<pending, started, cookie>>
processVars == <<forced, restarts>>
vars == <<adminVars, ssoVars, sessions, apiKey, req, flowVars, processVars>>

Idle == [pc |-> "idle"]
NoSSO == [app |-> None, bound |-> None, passwordLogin |-> TRUE]

Init ==
  /\ admin = [password |-> 0, failed |-> 0, locked |-> FALSE]
  /\ sso = NoSSO /\ sessions = {} /\ apiKey = "none"
  /\ mu = None /\ writeMu = None /\ req = [r \in Requests |-> Idle]
  /\ pending = {} /\ started = 0 /\ cookie = [b \in Browsers |-> 0]
  /\ forced \in BOOLEAN /\ restarts = 0
  /\ guesses = 0 /\ confirmed = 0 /\ everBound = {}

At(r, pc) == req[r].pc = pc
Goto(r, state) == req' = [req EXCEPT ![r] = state]
Done(r) == Goto(r, Idle)
NewSession(s) == sessions' = sessions \cup {s} /\ Cardinality(sessions') <= MaxSessions

\* Mutant of MuFree: logins are compared side by side.
MuAlwaysFree == TRUE
MuFree == mu = None

\* The caller of the settings has a session or a key.
Authenticated == sessions # {} \/ apiKey = "usable"
PasswordLoginAllowed == forced \/ sso.passwordLogin

-----------------------------------------------------------------------------
(* The administrator and the password.                                     *)

Setup(r) ==
  /\ At(r, "idle") /\ MuFree /\ admin.password = 0
  /\ admin' = [admin EXCEPT !.password = 1]
  /\ UNCHANGED <<mu, guesses, confirmed, ssoVars, sessions, apiKey, req, flowVars, processVars>>

RecordFailure(a) == IF a.failed + 1 >= MaxFailures
                    THEN [a EXCEPT !.failed = 0, !.locked = TRUE]
                    ELSE [a EXCEPT !.failed = @ + 1]
ResetFailures(a) == [a EXCEPT !.failed = 0, !.locked = FALSE]

\* Ten minutes later.
LockEnds ==
  /\ admin.locked
  /\ admin' = [admin EXCEPT !.locked = FALSE] /\ guesses' = 0
  /\ UNCHANGED <<mu, confirmed, ssoVars, sessions, apiKey, req, flowVars, processVars>>

BeginLogin(r, typed) ==
  /\ At(r, "idle") /\ MuFree
  /\ admin.password # 0 /\ PasswordLoginAllowed /\ ~admin.locked
  /\ mu' = r /\ Goto(r, [pc |-> "login", saw |-> admin, typed |-> typed])
  /\ UNCHANGED <<admin, guesses, confirmed, ssoVars, sessions, apiKey, flowVars, processVars>>

BeginChange(r, typed, current) ==
  /\ At(r, "idle") /\ MuFree
  /\ current \in sessions \/ (current = None /\ apiKey = "usable")
  /\ admin.password # 0 /\ ~admin.locked
  /\ mu' = r
  /\ Goto(r, [pc |-> "change", saw |-> admin, typed |-> typed, current |-> current])
  /\ UNCHANGED <<admin, guesses, confirmed, ssoVars, sessions, apiKey, flowVars, processVars>>

\* The wrong password.  When the count cannot be saved, the answer is another error.
WrongPassword(r) ==
  /\ req[r].pc \in {"login", "change"} /\ req[r].typed # req[r].saw.password
  /\ \/ admin' = RecordFailure(req[r].saw) /\ guesses' = guesses + 1
     \/ UNCHANGED <<admin, guesses>>
  /\ mu' = None /\ Done(r)
  /\ UNCHANGED <<confirmed, ssoVars, sessions, apiKey, flowVars, processVars>>

RightPassword(r) ==
  /\ At(r, "login") /\ req[r].typed = req[r].saw.password
  /\ admin' = ResetFailures(req[r].saw) /\ guesses' = 0
  /\ \/ NewSession([by |-> "password", ref |-> req[r].typed])
     \/ UNCHANGED sessions
  /\ mu' = None /\ Done(r)
  /\ UNCHANGED <<confirmed, ssoVars, apiKey, flowVars, processVars>>

ChangePassword(r) ==
  LET new == req[r].saw.password + 1
  IN /\ At(r, "change") /\ req[r].typed = req[r].saw.password /\ new <= MaxPasswords
     /\ admin' = [ResetFailures(req[r].saw) EXCEPT !.password = new] /\ guesses' = 0
     /\ Goto(r, [pc |-> "drop", new |-> new, current |-> req[r].current])
     /\ UNCHANGED <<mu, confirmed, ssoVars, sessions, apiKey, flowVars, processVars>>

\* All sessions but the one that changed the password, which now rests on the new one.
\* When they cannot be deleted, the change is answered with an error.
DropOthers(r) ==
  LET kept == {s \in sessions : s = req[r].current}
  IN /\ At(r, "drop")
     /\ \/ /\ sessions' = {[s EXCEPT !.ref = IF s.by = "password" THEN req[r].new ELSE @] : s \in kept}
           /\ confirmed' = req[r].new
        \/ UNCHANGED <<sessions, confirmed>>
     /\ mu' = None /\ Done(r)
     /\ UNCHANGED <<admin, guesses, ssoVars, apiKey, flowVars, processVars>>

\* A database error, or a new password the rules refuse.
GiveUpChange(r) ==
  /\ At(r, "change") /\ req[r].typed = req[r].saw.password
  /\ mu' = None /\ Done(r)
  /\ UNCHANGED <<admin, guesses, confirmed, ssoVars, sessions, apiKey, flowVars, processVars>>

\* Logout, or the end of its seven days.
SessionEnds(s) ==
  /\ sessions' = sessions \ {s}
  /\ UNCHANGED <<adminVars, ssoVars, apiKey, req, flowVars, processVars>>

\* Creation, revocation or expiry of the API key.
KeyChanges ==
  /\ \/ apiKey = "none" /\ sessions # {} /\ apiKey' = "usable"
     \/ apiKey = "usable" /\ apiKey' = "revoked"
  /\ UNCHANGED <<adminVars, ssoVars, sessions, req, flowVars, processVars>>

-----------------------------------------------------------------------------
(* The settings of the OIDC login.                                         *)

WriteFree == writeMu = None

Configured(row) == row.app # None
Bound(row) == row.bound # None
ClearBinding(row) == [row EXCEPT !.bound = None, !.passwordLogin = TRUE]
Locked(row) == ~(forced \/ row.passwordLogin)
Bind(row, account) == [row EXCEPT !.bound = account]

BeginUpdate(r, app) ==
  /\ At(r, "idle") /\ Authenticated /\ WriteFree
  /\ app # sso.app => ~Locked(sso)
  /\ writeMu' = r /\ Goto(r, [pc |-> "update", saw |-> sso, app |-> app])
  /\ UNCHANGED <<adminVars, sso, everBound, sessions, apiKey, flowVars, processVars>>

\* The provider answered the check, within ten seconds.
Update(r) ==
  LET next == [req[r].saw EXCEPT !.app = req[r].app]
  IN /\ At(r, "update")
     /\ sso' = IF req[r].app # req[r].saw.app THEN ClearBinding(next) ELSE next
     /\ writeMu' = None /\ Done(r)
     /\ UNCHANGED <<adminVars, everBound, sessions, apiKey, flowVars, processVars>>

UpdateFails(r) ==
  /\ At(r, "update")
  /\ writeMu' = None /\ Done(r)
  /\ UNCHANGED <<adminVars, sso, everBound, sessions, apiKey, flowVars, processVars>>

\* Disable deletes the row, Unbind clears the account, SetPasswordLogin turns the switch.
Disable == ~Locked(sso) /\ sso' = NoSSO
Unbind == ~Locked(sso) /\ Bound(sso) /\ sso' = ClearBinding(sso)
SetPasswordLogin(enabled) ==
  /\ enabled \/ (Configured(sso) /\ Bound(sso))
  /\ sso' = [sso EXCEPT !.passwordLogin = enabled]

ChangeSSO(r) ==
  /\ At(r, "idle") /\ Authenticated /\ WriteFree
  /\ Disable \/ Unbind \/ \E enabled \in BOOLEAN : SetPasswordLogin(enabled)
  /\ UNCHANGED <<adminVars, writeMu, everBound, sessions, apiKey, req, flowVars, processVars>>

-----------------------------------------------------------------------------
(* Logins and bindings through the provider.                               *)

MayStart(purpose) ==
  /\ Configured(sso) /\ (purpose = "login" <=> Bound(sso))
  /\ purpose = "bind" => sessions # {}

\* The settings are read, then the provider's discovery document.
StartFlow(r, b, purpose) ==
  /\ At(r, "idle") /\ MayStart(purpose) /\ started < MaxStarts
  /\ Goto(r, [pc |-> "start", browser |-> b, purpose |-> purpose, app |-> sso.app])
  /\ UNCHANGED <<adminVars, ssoVars, sessions, apiKey, flowVars, processVars>>

Oldest == {p \in pending : \A q \in pending : p.id <= q.id}

\* A full table loses the oldest; the browser is sent to the provider, with a cookie.
SendToProvider(r) ==
  /\ At(r, "start") /\ started < MaxStarts
  /\ started' = started + 1
  /\ pending' = (IF Cardinality(pending) >= MaxPending THEN pending \ Oldest ELSE pending)
                  \cup {[id |-> started + 1, purpose |-> req[r].purpose, app |-> req[r].app]}
  /\ cookie' = [cookie EXCEPT ![req[r].browser] = started + 1]
  /\ Done(r)
  /\ UNCHANGED <<adminVars, ssoVars, sessions, apiKey, processVars>>

StartFails(r) ==
  /\ At(r, "start") /\ Done(r)
  /\ UNCHANGED <<adminVars, ssoVars, sessions, apiKey, flowVars, processVars>>

\* Ten minutes after its start.
Expire(p) ==
  /\ pending' = pending \ {p}
  /\ UNCHANGED <<adminVars, ssoVars, sessions, apiKey, req, started, cookie, processVars>>

\* A browser is back with the state of a start, for the first time or again.  The entry is
\* gone whatever follows; it counts if the browser is the one that started it.
Callback(r, b, id) ==
  LET taken == {p \in pending : p.id = id /\ cookie[b] = id}
      mayGoOn(p) == Configured(sso) /\ (p.purpose = "login" => Bound(sso))
  IN /\ At(r, "idle")
     /\ pending' = {p \in pending : p.id # id}
     /\ IF \E p \in taken : mayGoOn(p)
        THEN \E p \in taken : /\ Goto(r, [pc |-> "verify", browser |-> b, flow |-> p, app |-> sso.app])
                              /\ UNCHANGED cookie
        ELSE UNCHANGED req /\ cookie' = [cookie EXCEPT ![b] = 0]
     /\ UNCHANGED <<adminVars, ssoVars, sessions, apiKey, started, processVars>>

\* The end of the answer to a callback: the browser drops its cookie.
Answered(r) == Done(r) /\ cookie' = [cookie EXCEPT ![req[r].browser] = 0]

\* The code is good only at the provider, and for the client, that gave it out.
Verifies(r, account) ==
  /\ At(r, "verify") /\ req[r].app = req[r].flow.app
  /\ account.issuer = Issuer[req[r].app]

\* The user refused, the provider does not answer, or the ID token is not valid.
CallbackFails(r) ==
  /\ req[r].pc \in {"verify", "issue"} /\ Answered(r)
  /\ UNCHANGED <<adminVars, ssoVars, sessions, apiKey, pending, started, processVars>>

\* Mutant of SameProvider: the provider saved meanwhile is not looked at.
AnyProvider(r) == TRUE
SameProvider(r) == sso.app = req[r].app

BindAccount(r, account) ==
  /\ Verifies(r, account) /\ req[r].flow.purpose = "bind" /\ WriteFree
  /\ IF SameProvider(r) /\ ~Bound(sso)
     THEN sso' = Bind(sso, account) /\ everBound' = everBound \cup {account}
     ELSE UNCHANGED <<sso, everBound>>
  /\ Answered(r)
  /\ UNCHANGED <<adminVars, writeMu, sessions, apiKey, pending, started, processVars>>

\* Mutant of IsBound: any account of the provider logs in.
AnyAccount(account) == TRUE
IsBound(account) == sso.bound = account

\* The account is compared with the row as it is now ...
CheckAccount(r, account) ==
  /\ Verifies(r, account) /\ req[r].flow.purpose = "login"
  /\ Configured(sso) /\ Bound(sso) /\ IsBound(account)
  /\ Goto(r, [pc |-> "issue", browser |-> req[r].browser, account |-> account])
  /\ UNCHANGED <<adminVars, ssoVars, sessions, apiKey, flowVars, processVars>>

\* ... and the session is created, with neither mutex.
IssueSession(r) ==
  /\ At(r, "issue") /\ admin.password # 0
  /\ NewSession([by |-> "oidc", ref |-> req[r].account])
  /\ Answered(r)
  /\ UNCHANGED <<adminVars, ssoVars, apiKey, pending, started, processVars>>

-----------------------------------------------------------------------------

\* The process ends, in order or not, and starts again, with the environment it then has.
Restart ==
  /\ restarts < MaxRestarts /\ restarts' = restarts + 1
  /\ forced' \in BOOLEAN
  /\ mu' = None /\ writeMu' = None /\ pending' = {}
  /\ req' = [r \in Requests |-> Idle]
  /\ UNCHANGED <<admin, guesses, confirmed, sso, everBound, sessions, apiKey, started, cookie>>

Next ==
  \/ \E r \in Requests :
       \/ Setup(r)
       \/ \E typed \in Passwords : BeginLogin(r, typed)
       \/ \E typed \in Passwords, s \in sessions \cup {None} : BeginChange(r, typed, s)
       \/ WrongPassword(r) \/ RightPassword(r)
       \/ ChangePassword(r) \/ DropOthers(r) \/ GiveUpChange(r)
       \/ \E a \in Apps : BeginUpdate(r, a)
       \/ Update(r) \/ UpdateFails(r) \/ ChangeSSO(r)
       \/ \E b \in Browsers : \/ StartFlow(r, b, "login") \/ StartFlow(r, b, "bind")
                              \/ \E id \in 1 .. started : Callback(r, b, id)
       \/ SendToProvider(r) \/ StartFails(r) \/ CallbackFails(r)
       \/ \E a \in Accounts : BindAccount(r, a) \/ CheckAccount(r, a)
       \/ IssueSession(r)
  \/ LockEnds \/ KeyChanges \/ Restart
  \/ \E s \in sessions : SessionEnds(s)
  \/ \E p \in pending : Expire(p)

Spec == Init /\ [][Next]_vars

-----------------------------------------------------------------------------
(* Properties.                                                             *)

Rows == [app : Apps \cup {None}, bound : Accounts \cup {None}, passwordLogin : BOOLEAN]
Admins == [password : Passwords, failed : 0 .. MaxFailures - 1, locked : BOOLEAN]
Flows == [id : Starts, purpose : {"login", "bind"}, app : Apps]
Tokens == [by : {"password"}, ref : Passwords] \cup [by : {"oidc"}, ref : Accounts]

\* The panel remembers no more authorizations than it may, a mutex is held by a request that
\* is doing what it protects, and no session comes from a password that was never set.
TypeOK ==
  /\ admin \in Admins /\ sso \in Rows /\ sessions \subseteq Tokens
  /\ [by |-> "password", ref |-> 0] \notin sessions
  /\ mu # None => req[mu].pc \in {"login", "change", "drop"}
  /\ writeMu # None => req[writeMu].pc = "update"
  /\ \A r \in Requests : req[r].pc \in {"idle", "login", "change", "drop", "update", "start",
                                        "verify", "issue"}
  /\ pending \subseteq Flows /\ Cardinality(pending) <= MaxPending
  /\ started \in 0 .. MaxStarts /\ cookie \in [Browsers -> 0 .. started]
  /\ everBound \subseteq Accounts /\ confirmed \in Passwords

\* Password logins are off only while the account that is bound can log in at the provider
\* that is saved (sso_entity.go 56: "while it is off there is a binding"), whatever saves,
\* bindings and restarts overlap.
SomebodyCanLogIn ==
  ~sso.passwordLogin => Configured(sso) /\ Bound(sso) /\ sso.bound.issuer = Issuer[sso.app]

\* Once a change of the password is confirmed, no session rests on an older one.
OldPasswordOut == \A s \in sessions : s.by = "password" => s.ref >= confirmed

\* No more than MaxFailures wrong passwords are told apart between two right ones or the end
\* of a lock, however many logins are sent at once (recordLoginFailure, under the mutex).
GuessesBounded == guesses <= MaxFailures

\* Nobody gets in by trying: passwords cannot be guessed by many logins at once, and no
\* session belongs to an account that was never bound, whatever is saved while the provider
\* authenticates the user.
OnlyBoundAccounts ==
  /\ TypeOK /\ GuessesBounded
  /\ \A s \in sessions : s.by = "oidc" => s.ref \in everBound
=============================================================================
