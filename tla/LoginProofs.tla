---------------------------- MODULE LoginProofs ----------------------------
(***************************************************************************)
(* The two mutexes of the login, for any number of requests: `writeMu`     *)
(* keeps what a save has read equal to the row with the provider, `mu`     *)
(* keeps what a comparison has read equal to the administrator's row.      *)
(***************************************************************************)
EXTENDS Login, NaturalsInduction, FiniteSetTheorems, TLAPS

ReqFcn == req = [r \in Requests |-> req[r]]

\* What a request becomes, and that it is the only one that does.
LEMMA GotoFacts ==
  ASSUME ReqFcn, NEW r \in Requests
  PROVE  \A state : Goto(r, state) =>
           ReqFcn' /\ req'[r] = state /\ \A q \in Requests \ {r} : req'[q] = req[q]
  BY DEF ReqFcn, Goto

LEMMA DoneFacts ==
  ASSUME ReqFcn, NEW r \in Requests, Done(r)
  PROVE  ReqFcn' /\ req'[r].pc = "idle" /\ \A q \in Requests \ {r} : req'[q] = req[q]
<1>1. ReqFcn' /\ req'[r] = Idle /\ \A q \in Requests \ {r} : req'[q] = req[q]
  BY GotoFacts DEF Done
<1>2. req'[r].pc = "idle"
  BY <1>1 DEF Idle
<1> QED
  BY <1>1, <1>2

-----------------------------------------------------------------------------
(* The row with the provider.                                              *)

\* The account that is bound is one of the provider that is saved.
BoundFits(row) ==
  /\ ~row.passwordLogin => Bound(row)
  /\ Bound(row) => Configured(row) /\ row.bound.issuer = Issuer[row.app]

\* A save under way has the mutex, and the row is still as it read it.
SavesFresh ==
  \A r \in Requests : At(r, "update") => /\ writeMu = r /\ req[r].saw = sso
                                         /\ req[r].app \in Apps

\* Who is back from a provider was sent there when one was saved.
FlowsConfigured == \A r \in Requests : At(r, "verify") => req[r].app # None

SsoInv == ReqFcn /\ sso \in Rows /\ BoundFits(sso) /\ SavesFresh /\ FlowsConfigured

LEMMA InitSso == Init => SsoInv
  BY DEF Init, SsoInv, ReqFcn, Rows, NoSSO, BoundFits, Bound, Configured, SavesFresh,
         FlowsConfigured, At, Idle

\* A step that leaves the row alone and begins no save and no return from a provider.
LEMMA SsoKept ==
  ASSUME SsoInv, UNCHANGED <<sso, writeMu>>, ReqFcn',
         \A r \in Requests : req'[r] = req[r] \/ req'[r].pc \notin {"update", "verify"}
  PROVE  SsoInv'
  BY DEF SsoInv, BoundFits, Bound, Configured, SavesFresh, FlowsConfigured, At

\* The steps of the password's side.
LEMMA PasswordSteps ==
  ASSUME SsoInv, NEW r \in Requests,
         \/ Setup(r) \/ WrongPassword(r) \/ RightPassword(r)
         \/ ChangePassword(r) \/ DropOthers(r) \/ GiveUpChange(r)
         \/ \E typed \in Passwords : BeginLogin(r, typed)
         \/ \E typed \in Passwords, s \in sessions \cup {None} : BeginChange(r, typed, s)
  PROVE  SsoInv'
<1>0. ReqFcn
  BY DEF SsoInv
<1>1. CASE Setup(r)
  BY <1>0, <1>1, SsoKept DEF Setup, ssoVars, ReqFcn
<1>2. CASE WrongPassword(r) \/ RightPassword(r) \/ DropOthers(r) \/ GiveUpChange(r)
  <2>1. UNCHANGED <<sso, writeMu>> /\ Done(r)
    BY <1>2 DEF WrongPassword, RightPassword, DropOthers, GiveUpChange, ssoVars
  <2> QED
    BY <1>0, <2>1, DoneFacts, SsoKept
<1>3. CASE ChangePassword(r)
  <2>1. /\ UNCHANGED <<sso, writeMu>>
        /\ Goto(r, [pc |-> "drop", new |-> req[r].saw.password + 1, current |-> req[r].current])
    BY <1>3 DEF ChangePassword, ssoVars
  <2> QED
    BY <1>0, <2>1, GotoFacts, SsoKept
<1>4. ASSUME NEW typed \in Passwords, BeginLogin(r, typed)
      PROVE  SsoInv'
  <2>1. UNCHANGED <<sso, writeMu>> /\ Goto(r, [pc |-> "login", saw |-> admin, typed |-> typed])
    BY <1>4 DEF BeginLogin, ssoVars
  <2> QED
    BY <1>0, <2>1, GotoFacts, SsoKept
<1>5. ASSUME NEW typed \in Passwords, NEW s \in sessions \cup {None}, BeginChange(r, typed, s)
      PROVE  SsoInv'
  <2>1. /\ UNCHANGED <<sso, writeMu>>
        /\ Goto(r, [pc |-> "change", saw |-> admin, typed |-> typed, current |-> s])
    BY <1>5 DEF BeginChange, ssoVars
  <2> QED
    BY <1>0, <2>1, GotoFacts, SsoKept
<1> QED
  BY <1>1, <1>2, <1>3, <1>4, <1>5

\* Saves of the provider's row.
LEMMA SettingSteps ==
  ASSUME SsoInv, NEW r \in Requests,
         \/ \E a \in Apps : BeginUpdate(r, a)
         \/ Update(r) \/ UpdateFails(r) \/ ChangeSSO(r)
  PROVE  SsoInv'
<1>0. ReqFcn
  BY DEF SsoInv
<1>a. writeMu = None => \A q \in Requests : ~At(q, "update")
  BY LoginConstants DEF SsoInv, SavesFresh
<1>1. ASSUME NEW a \in Apps, BeginUpdate(r, a)
      PROVE  SsoInv'
  <2>1. /\ sso' = sso /\ writeMu' = r /\ writeMu = None
        /\ Goto(r, [pc |-> "update", saw |-> sso, app |-> a])
    BY <1>1 DEF BeginUpdate, WriteFree
  <2>2. /\ ReqFcn' /\ req'[r] = [pc |-> "update", saw |-> sso, app |-> a]
        /\ \A q \in Requests \ {r} : req'[q] = req[q]
    BY <1>0, <2>1, GotoFacts
  <2>3. SavesFresh'
    BY <1>a, <2>1, <2>2 DEF SavesFresh, At
  <2>4. FlowsConfigured'
    BY <2>2 DEF SsoInv, FlowsConfigured, At
  <2> QED
    BY <2>1, <2>2, <2>3, <2>4 DEF SsoInv, BoundFits, Bound, Configured
<1>2. CASE Update(r)
  <2>1. At(r, "update") /\ Done(r) /\ req[r].saw = sso /\ req[r].app \in Apps
    BY <1>2 DEF Update, SsoInv, SavesFresh
  <2>2. ReqFcn' /\ req'[r].pc = "idle" /\ \A q \in Requests \ {r} : req'[q] = req[q]
    BY <1>0, <2>1, DoneFacts
  <2>3. SavesFresh'
    BY <2>1, <2>2 DEF SsoInv, SavesFresh, At
  <2>4. FlowsConfigured'
    BY <2>2 DEF SsoInv, FlowsConfigured, At
  <2>5. sso \in Rows /\ BoundFits(sso)
    BY DEF SsoInv
  <2>6. CASE req[r].app # sso.app
    <3>1. sso' = [app |-> req[r].app, bound |-> None, passwordLogin |-> TRUE]
      BY <1>2, <2>1, <2>5, <2>6 DEF Update, ClearBinding, Rows
    <3> QED
      BY <2>1, <2>2, <2>3, <2>4, <3>1 DEF SsoInv, Rows, BoundFits, Bound, Configured
  <2>7. CASE req[r].app = sso.app
    <3>1. sso' = sso
      BY <1>2, <2>1, <2>5, <2>7 DEF Update, Rows
    <3> QED
      BY <2>2, <2>3, <2>4, <2>5, <3>1 DEF SsoInv, BoundFits, Bound, Configured
  <2> QED
    BY <2>6, <2>7
<1>3. CASE UpdateFails(r)
  <2>1. At(r, "update") /\ Done(r) /\ sso' = sso /\ writeMu = r
    BY <1>3 DEF UpdateFails, SsoInv, SavesFresh
  <2>2. ReqFcn' /\ req'[r].pc = "idle" /\ \A q \in Requests \ {r} : req'[q] = req[q]
    BY <1>0, <2>1, DoneFacts
  <2>3. SavesFresh' /\ FlowsConfigured'
    BY <2>1, <2>2 DEF SsoInv, SavesFresh, FlowsConfigured, At
  <2> QED
    BY <2>1, <2>2, <2>3 DEF SsoInv, BoundFits, Bound, Configured
<1>4. CASE ChangeSSO(r)
  <2>1. writeMu = None /\ UNCHANGED <<writeMu, req>>
    BY <1>4 DEF ChangeSSO, WriteFree
  <2>2. ReqFcn' /\ SavesFresh' /\ FlowsConfigured'
    BY <1>a, <2>1 DEF SsoInv, ReqFcn, SavesFresh, FlowsConfigured, At
  <2>3. sso \in Rows /\ BoundFits(sso)
    BY DEF SsoInv
  <2>4. CASE Disable
    BY <2>2, <2>4 DEF Disable, NoSSO, SsoInv, Rows, BoundFits, Bound, Configured
  <2>5. CASE Unbind
    <3>1. sso' = [app |-> sso.app, bound |-> None, passwordLogin |-> TRUE]
      BY <2>3, <2>5 DEF Unbind, ClearBinding, Rows
    <3> QED
      BY <2>2, <2>3, <3>1 DEF SsoInv, Rows, BoundFits, Bound, Configured
  <2>6. ASSUME NEW enabled \in BOOLEAN, SetPasswordLogin(enabled)
        PROVE  SsoInv'
    <3>1. sso' = [sso EXCEPT !.passwordLogin = enabled] /\ (enabled \/ Bound(sso))
      BY <2>6 DEF SetPasswordLogin
    <3>2. sso' \in Rows
      BY <2>3, <3>1 DEF Rows
    <3>3. sso'.app = sso.app /\ sso'.bound = sso.bound /\ sso'.passwordLogin = enabled
      BY <2>3, <3>1 DEF Rows
    <3> QED
      BY <2>2, <2>3, <3>1, <3>2, <3>3 DEF SsoInv, BoundFits, Bound, Configured
  <2> QED
    BY <1>4, <2>4, <2>5, <2>6 DEF ChangeSSO
<1> QED
  BY <1>1, <1>2, <1>3, <1>4

\* Logins and bindings through the provider.
LEMMA FlowSteps ==
  ASSUME SsoInv, NEW r \in Requests,
         \/ \E b \in Browsers : \/ StartFlow(r, b, "login") \/ StartFlow(r, b, "bind")
                               \/ \E id \in 1 .. started : Callback(r, b, id)
         \/ SendToProvider(r) \/ StartFails(r) \/ CallbackFails(r)
         \/ \E a \in Accounts : BindAccount(r, a) \/ CheckAccount(r, a)
         \/ IssueSession(r)
  PROVE  SsoInv'
<1>0. ReqFcn
  BY DEF SsoInv
<1>1. ASSUME NEW b \in Browsers, NEW purpose \in {"login", "bind"}, StartFlow(r, b, purpose)
      PROVE  SsoInv'
  <2>1. /\ UNCHANGED <<sso, writeMu>>
        /\ Goto(r, [pc |-> "start", browser |-> b, purpose |-> purpose, app |-> sso.app])
    BY <1>1 DEF StartFlow, ssoVars
  <2> QED
    BY <1>0, <2>1, GotoFacts, SsoKept
<1>2. ASSUME NEW b \in Browsers, NEW id \in 1 .. started, Callback(r, b, id)
      PROVE  SsoInv'
  <2>1. UNCHANGED <<sso, writeMu>>
    BY <1>2 DEF Callback, ssoVars
  <2>2. CASE req' = req
    BY <1>0, <2>1, <2>2, SsoKept DEF ReqFcn
  <2>3. CASE Configured(sso) /\ \E p : Goto(r, [pc |-> "verify", browser |-> b, flow |-> p,
                                                app |-> sso.app])
    <3>1. PICK p : Goto(r, [pc |-> "verify", browser |-> b, flow |-> p, app |-> sso.app])
      BY <2>3
    <3>2. /\ ReqFcn' /\ req'[r] = [pc |-> "verify", browser |-> b, flow |-> p, app |-> sso.app]
          /\ \A q \in Requests \ {r} : req'[q] = req[q]
      BY <1>0, <3>1, GotoFacts
    <3>3. SavesFresh' /\ FlowsConfigured'
      BY <2>1, <2>3, <3>2 DEF SsoInv, SavesFresh, FlowsConfigured, At, Configured
    <3> QED
      BY <2>1, <3>2, <3>3 DEF SsoInv, BoundFits, Bound, Configured
  <2> QED
    BY <1>2, <2>2, <2>3 DEF Callback
<1>3. CASE SendToProvider(r) \/ StartFails(r) \/ CallbackFails(r) \/ IssueSession(r)
  <2>1. UNCHANGED <<sso, writeMu>> /\ Done(r)
    BY <1>3 DEF SendToProvider, StartFails, CallbackFails, IssueSession, Answered, ssoVars
  <2> QED
    BY <1>0, <2>1, DoneFacts, SsoKept
<1>4. ASSUME NEW a \in Accounts, BindAccount(r, a)
      PROVE  SsoInv'
  <2>1. Done(r) /\ writeMu = None /\ writeMu' = writeMu /\ At(r, "verify")
    BY <1>4 DEF BindAccount, Answered, WriteFree, Verifies
  <2>2. ReqFcn' /\ req'[r].pc = "idle" /\ \A q \in Requests \ {r} : req'[q] = req[q]
    BY <1>0, <2>1, DoneFacts
  <2>3. CASE sso' = sso
    BY <2>1, <2>2, <2>3, SsoKept
  <2>4. CASE SameProvider(r) /\ ~Bound(sso) /\ sso' = Bind(sso, a)
    <3>1. sso.app = req[r].app /\ sso.app # None /\ a.issuer = Issuer[sso.app] /\ sso.passwordLogin
      BY <1>4, <2>1, <2>4 DEF BindAccount, Verifies, SameProvider, SsoInv, FlowsConfigured,
                              BoundFits, Rows
    <3>2. sso' = [app |-> sso.app, bound |-> a, passwordLogin |-> sso.passwordLogin]
      BY <2>4 DEF Bind, SsoInv, Rows
    <3>3. sso' \in Rows
      BY <3>2 DEF SsoInv, Rows
    <3>4. SavesFresh' /\ FlowsConfigured'
      BY <2>1, <2>2, LoginConstants DEF SsoInv, SavesFresh, FlowsConfigured, At
    <3> QED
      BY <2>2, <3>1, <3>2, <3>3, <3>4 DEF SsoInv, BoundFits, Bound, Configured
  <2> QED
    BY <1>4, <2>3, <2>4 DEF BindAccount
<1>5. ASSUME NEW a \in Accounts, CheckAccount(r, a)
      PROVE  SsoInv'
  <2>1. /\ UNCHANGED <<sso, writeMu>>
        /\ Goto(r, [pc |-> "issue", browser |-> req[r].browser, account |-> a])
    BY <1>5 DEF CheckAccount, ssoVars
  <2> QED
    BY <1>0, <2>1, GotoFacts, SsoKept
<1> QED
  BY <1>1, <1>2, <1>3, <1>4, <1>5

LEMMA SsoInductive == SsoInv /\ [Next]_vars => SsoInv'
<1> SUFFICES ASSUME SsoInv, [Next]_vars
             PROVE  SsoInv'
  OBVIOUS
<1>1. CASE \/ LockEnds \/ KeyChanges \/ (\E s \in sessions : SessionEnds(s))
           \/ (\E p \in pending : Expire(p)) \/ UNCHANGED vars
  <2>1. UNCHANGED <<sso, writeMu, req>>
    BY <1>1 DEF LockEnds, KeyChanges, SessionEnds, Expire, vars, ssoVars
  <2> QED
    BY <2>1, SsoKept DEF SsoInv, ReqFcn
<1>2. CASE Restart
  <2>1. sso' = sso /\ req' = [r \in Requests |-> Idle]
    BY <1>2 DEF Restart
  <2> QED
    BY <2>1 DEF SsoInv, ReqFcn, BoundFits, Bound, Configured, SavesFresh, FlowsConfigured, At, Idle
<1> QED
  BY <1>1, <1>2, PasswordSteps, SettingSteps, FlowSteps DEF Next

\* Whoever is bound, unbound or saved at the same time, in whatever order, and whenever the process
\* restarts: password logins are off only while the account that is bound can log in at the
\* provider that is saved.
THEOREM LoginPossible == Spec => []SomebodyCanLogIn
<1>1. SsoInv => SomebodyCanLogIn
  BY DEF SsoInv, BoundFits, SomebodyCanLogIn
<1> QED
  BY <1>1, InitSso, SsoInductive, PTL DEF Spec

-----------------------------------------------------------------------------
(* The administrator's row.                                                *)

\* Who compares a password has the mutex, and the row is still as it read it.
ComparesFresh ==
  \A r \in Requests :
    /\ req[r].pc \in {"login", "change"} =>
         mu = r /\ req[r].saw = admin /\ ~admin.locked /\ admin.password # 0
    /\ At(r, "drop") => mu = r /\ req[r].new = admin.password /\ admin.password # 0

MuHeld == mu # None => mu \in Requests /\ req[mu].pc \in {"login", "change", "drop"}

\* The saved count knows of every wrong password that was told.
GuessCount ==
  /\ guesses \in Nat
  /\ IF admin.locked THEN admin.failed = 0 /\ guesses <= MaxFailures ELSE guesses <= admin.failed

Issued == sessions \subseteq Tokens /\ [by |-> "password", ref |-> 0] \notin sessions

PwRow == admin \in Admins /\ confirmed \in Passwords /\ confirmed <= admin.password

PwInv == ReqFcn /\ PwRow /\ GuessCount /\ ComparesFresh /\ MuHeld /\ Issued /\ OldPasswordOut

\* The accounts of sessions that are about to be issued.
IssueKnown == \A r \in Requests : At(r, "issue") => req[r].account \in Accounts

LEMMA InitPw == Init => PwInv
  BY LoginConstants
  DEF Init, PwInv, ReqFcn, PwRow, Admins, Passwords, GuessCount, ComparesFresh, MuHeld, Issued,
      OldPasswordOut, At, Idle

\* A step that leaves the row alone, issues no session and begins no comparison.
LEMMA PwKept ==
  ASSUME PwInv, UNCHANGED <<admin, mu, guesses, confirmed>>, sessions' \subseteq sessions, ReqFcn',
         \A r \in Requests :
           \/ req'[r] = req[r]
           \/ {req[r].pc, req'[r].pc} \cap {"login", "change", "drop"} = {}
  PROVE  PwInv'
<1>1. ComparesFresh'
  BY DEF PwInv, ComparesFresh, At
<1>2. MuHeld'
  BY DEF PwInv, MuHeld
<1> QED
  BY <1>1, <1>2 DEF PwInv, PwRow, GuessCount, Issued, OldPasswordOut

LEMMA SettingStepsPw ==
  ASSUME PwInv, NEW r \in Requests,
         \/ \E a \in Apps : BeginUpdate(r, a)
         \/ Update(r) \/ UpdateFails(r) \/ ChangeSSO(r)
  PROVE  PwInv'
<1>0. ReqFcn
  BY DEF PwInv
<1>1. ASSUME NEW a \in Apps, BeginUpdate(r, a)
      PROVE  PwInv'
  <2>1. /\ UNCHANGED <<admin, mu, guesses, confirmed, sessions>> /\ At(r, "idle")
        /\ Goto(r, [pc |-> "update", saw |-> sso, app |-> a])
    BY <1>1 DEF BeginUpdate, adminVars
  <2> QED
    BY <1>0, <2>1, GotoFacts, PwKept DEF At
<1>2. CASE Update(r) \/ UpdateFails(r)
  <2>1. UNCHANGED <<admin, mu, guesses, confirmed, sessions>> /\ At(r, "update") /\ Done(r)
    BY <1>2 DEF Update, UpdateFails, adminVars
  <2> QED
    BY <1>0, <2>1, DoneFacts, PwKept DEF At
<1>3. CASE ChangeSSO(r)
  BY <1>0, <1>3, PwKept DEF ChangeSSO, adminVars, ReqFcn
<1> QED
  BY <1>1, <1>2, <1>3

LEMMA FlowStepsPw ==
  ASSUME PwInv, IssueKnown, NEW r \in Requests,
         \/ \E b \in Browsers : \/ StartFlow(r, b, "login") \/ StartFlow(r, b, "bind")
                               \/ \E id \in 1 .. started : Callback(r, b, id)
         \/ SendToProvider(r) \/ StartFails(r) \/ CallbackFails(r)
         \/ \E a \in Accounts : BindAccount(r, a) \/ CheckAccount(r, a)
         \/ IssueSession(r)
  PROVE  PwInv'
<1>0. ReqFcn
  BY DEF PwInv
<1>1. ASSUME NEW b \in Browsers, NEW purpose \in {"login", "bind"}, StartFlow(r, b, purpose)
      PROVE  PwInv'
  <2>1. /\ UNCHANGED <<admin, mu, guesses, confirmed, sessions>> /\ At(r, "idle")
        /\ Goto(r, [pc |-> "start", browser |-> b, purpose |-> purpose, app |-> sso.app])
    BY <1>1 DEF StartFlow, adminVars
  <2> QED
    BY <1>0, <2>1, GotoFacts, PwKept DEF At
<1>2. ASSUME NEW b \in Browsers, NEW id \in 1 .. started, Callback(r, b, id)
      PROVE  PwInv'
  <2>1. UNCHANGED <<admin, mu, guesses, confirmed, sessions>> /\ At(r, "idle")
    BY <1>2 DEF Callback, adminVars
  <2>2. CASE req' = req
    BY <1>0, <2>1, <2>2, PwKept DEF ReqFcn
  <2>3. CASE \E p : Goto(r, [pc |-> "verify", browser |-> b, flow |-> p, app |-> sso.app])
    <3>1. PICK p : Goto(r, [pc |-> "verify", browser |-> b, flow |-> p, app |-> sso.app])
      BY <2>3
    <3> QED
      BY <1>0, <2>1, <3>1, GotoFacts, PwKept DEF At
  <2> QED
    BY <1>2, <2>2, <2>3 DEF Callback
<1>3. CASE SendToProvider(r) \/ StartFails(r) \/ CallbackFails(r) \/ \E a \in Accounts : BindAccount(r, a)
  <2>1. UNCHANGED <<admin, mu, guesses, confirmed, sessions>> /\ Done(r)
    BY <1>3 DEF SendToProvider, StartFails, CallbackFails, BindAccount, Answered, adminVars
  <2>2. req[r].pc \in {"start", "verify", "issue"}
    BY <1>3 DEF SendToProvider, StartFails, CallbackFails, BindAccount, Verifies, At
  <2> QED
    BY <1>0, <2>1, <2>2, DoneFacts, PwKept
<1>4. ASSUME NEW a \in Accounts, CheckAccount(r, a)
      PROVE  PwInv'
  <2>1. /\ UNCHANGED <<admin, mu, guesses, confirmed, sessions>> /\ At(r, "verify")
        /\ Goto(r, [pc |-> "issue", browser |-> req[r].browser, account |-> a])
    BY <1>4 DEF CheckAccount, Verifies, adminVars
  <2> QED
    BY <1>0, <2>1, GotoFacts, PwKept DEF At
<1>5. CASE IssueSession(r)
  <2>1. /\ UNCHANGED <<admin, mu, guesses, confirmed>> /\ At(r, "issue") /\ Done(r)
        /\ sessions' = sessions \cup {[by |-> "oidc", ref |-> req[r].account]}
    BY <1>5 DEF IssueSession, NewSession, Answered, adminVars
  <2>2. ReqFcn' /\ req'[r].pc = "idle" /\ \A q \in Requests \ {r} : req'[q] = req[q]
    BY <1>0, <2>1, DoneFacts
  <2>3. ComparesFresh' /\ MuHeld'
    BY <2>1, <2>2 DEF PwInv, ComparesFresh, MuHeld, At
  <2>4. Issued' /\ OldPasswordOut'
    BY <2>1 DEF PwInv, Issued, OldPasswordOut, IssueKnown, Tokens
  <2> QED
    BY <2>1, <2>2, <2>3, <2>4 DEF PwInv, PwRow, GuessCount
<1> QED
  BY <1>1, <1>2, <1>3, <1>4, <1>5

\* While nobody has the mutex nobody compares, and who has it is alone.
LEMMA MuAlone ==
  ASSUME PwInv
  PROVE  \A q \in Requests : req[q].pc \in {"login", "change", "drop"} => mu = q
  BY DEF PwInv, ComparesFresh, At

\* A step that gives the mutex back.
LEMMA MuGiven ==
  ASSUME PwInv, NEW r \in Requests, mu = r, mu' = None, Done(r)
  PROVE  ReqFcn' /\ ComparesFresh' /\ MuHeld'
<1>1. ReqFcn' /\ req'[r].pc = "idle" /\ \A q \in Requests \ {r} : req'[q] = req[q]
  BY DoneFacts DEF PwInv
<1>2. \A q \in Requests : req'[q].pc \notin {"login", "change", "drop"}
  BY <1>1, MuAlone
<1> QED
  BY <1>1, <1>2 DEF ComparesFresh, MuHeld, At

\* A step that takes it, to compare with the row as it is.
LEMMA MuTaken ==
  ASSUME PwInv, NEW r \in Requests, mu = None, mu' = r, admin' = admin, ~admin.locked,
         admin.password # 0, ReqFcn', req'[r].pc \in {"login", "change"}, req'[r].saw = admin,
         \A q \in Requests \ {r} : req'[q] = req[q]
  PROVE  ComparesFresh' /\ MuHeld'
<1>1. \A q \in Requests \ {r} : req'[q].pc \notin {"login", "change", "drop"}
  BY MuAlone, LoginConstants
<1> QED
  BY <1>1 DEF ComparesFresh, MuHeld, At

\* What is left of the sessions after a change of the password.
LEMMA KeptSessions ==
  ASSUME PwInv, NEW r \in Requests, req[r].new = admin.password,
         sessions' = {[s EXCEPT !.ref = IF s.by = "password" THEN req[r].new ELSE @] :
                        s \in {t \in sessions : t = req[r].current}}
  PROVE  \A t \in sessions' : \/ t = [by |-> "password", ref |-> admin.password]
                              \/ t \in sessions /\ t.by # "password"
<1> SUFFICES ASSUME NEW t \in sessions'
             PROVE  \/ t = [by |-> "password", ref |-> admin.password]
                    \/ t \in sessions /\ t.by # "password"
  OBVIOUS
<1>1. PICK s \in sessions : t = [s EXCEPT !.ref = IF s.by = "password" THEN admin.password ELSE @]
  OBVIOUS
<1>2. s \in Tokens
  BY DEF PwInv, Issued
<1>3. CASE s.by = "password"
  BY <1>1, <1>2, <1>3 DEF Tokens
<1>4. CASE s.by # "password"
  <2>1. t = s
    BY <1>1, <1>2, <1>4 DEF Tokens
  <2> QED
    BY <1>4, <2>1
<1> QED
  BY <1>3, <1>4

LEMMA PasswordStepsPw ==
  ASSUME PwInv, NEW r \in Requests,
         \/ Setup(r) \/ WrongPassword(r) \/ RightPassword(r)
         \/ ChangePassword(r) \/ DropOthers(r) \/ GiveUpChange(r)
         \/ \E typed \in Passwords : BeginLogin(r, typed)
         \/ \E typed \in Passwords, s \in sessions \cup {None} : BeginChange(r, typed, s)
  PROVE  PwInv'
<1>0. ReqFcn /\ admin \in Admins /\ MaxPasswords \in Nat \ {0} /\ MaxFailures \in Nat \ {0}
  BY LoginConstants DEF PwInv, PwRow
<1>1. CASE Setup(r)
  <2>1. admin.password = 0 /\ mu = None /\ UNCHANGED <<mu, guesses, confirmed, sessions, req>>
    BY <1>1 DEF Setup, MuFree
  <2>2. admin' = [password |-> 1, failed |-> admin.failed, locked |-> admin.locked]
    BY <1>0, <1>1 DEF Setup, Admins
  <2>3. PwRow' /\ GuessCount'
    BY <1>0, <2>1, <2>2 DEF PwInv, PwRow, Admins, Passwords, GuessCount
  <2>4. ComparesFresh' /\ MuHeld'
    BY <2>1, MuAlone, LoginConstants DEF ComparesFresh, MuHeld, At
  <2> QED
    BY <2>1, <2>3, <2>4 DEF PwInv, ReqFcn, Issued, OldPasswordOut
<1>2. ASSUME NEW typed \in Passwords, BeginLogin(r, typed)
      PROVE  PwInv'
  <2>1. /\ UNCHANGED <<admin, guesses, confirmed, sessions>> /\ mu = None /\ mu' = r
        /\ admin.password # 0 /\ ~admin.locked
        /\ Goto(r, [pc |-> "login", saw |-> admin, typed |-> typed])
    BY <1>2 DEF BeginLogin, MuFree
  <2>2. /\ ReqFcn' /\ req'[r] = [pc |-> "login", saw |-> admin, typed |-> typed]
        /\ \A q \in Requests \ {r} : req'[q] = req[q]
    BY <1>0, <2>1, GotoFacts
  <2>3. ComparesFresh' /\ MuHeld'
    BY <2>1, <2>2, MuTaken
  <2> QED
    BY <2>1, <2>2, <2>3 DEF PwInv, PwRow, GuessCount, Issued, OldPasswordOut
<1>3. ASSUME NEW typed \in Passwords, NEW s \in sessions \cup {None}, BeginChange(r, typed, s)
      PROVE  PwInv'
  <2>1. /\ UNCHANGED <<admin, guesses, confirmed, sessions>> /\ mu = None /\ mu' = r
        /\ admin.password # 0 /\ ~admin.locked
        /\ Goto(r, [pc |-> "change", saw |-> admin, typed |-> typed, current |-> s])
    BY <1>3 DEF BeginChange, MuFree
  <2>2. /\ ReqFcn' /\ req'[r] = [pc |-> "change", saw |-> admin, typed |-> typed, current |-> s]
        /\ \A q \in Requests \ {r} : req'[q] = req[q]
    BY <1>0, <2>1, GotoFacts
  <2>3. ComparesFresh' /\ MuHeld'
    BY <2>1, <2>2, MuTaken
  <2> QED
    BY <2>1, <2>2, <2>3 DEF PwInv, PwRow, GuessCount, Issued, OldPasswordOut
<1>4. CASE WrongPassword(r)
  <2>1. /\ mu = r /\ mu' = None /\ Done(r) /\ UNCHANGED <<confirmed, sessions>>
        /\ req[r].saw = admin /\ ~admin.locked
    BY <1>4 DEF WrongPassword, PwInv, ComparesFresh
  <2>2. ReqFcn' /\ ComparesFresh' /\ MuHeld'
    BY <2>1, MuGiven
  <2>3. Issued' /\ OldPasswordOut'
    BY <2>1 DEF PwInv, Issued, OldPasswordOut
  <2>4. PwRow' /\ GuessCount'
    <3>1. CASE UNCHANGED <<admin, guesses>>
      BY <2>1, <3>1 DEF PwInv, PwRow, GuessCount
    <3>2. CASE admin.failed + 1 >= MaxFailures /\ admin' = RecordFailure(admin) /\ guesses' = guesses + 1
      <4>1. admin' = [password |-> admin.password, failed |-> 0, locked |-> TRUE]
        BY <1>0, <3>2 DEF RecordFailure, Admins
      <4> QED
        BY <1>0, <2>1, <3>2, <4>1 DEF PwInv, PwRow, GuessCount, Admins
    <3>3. CASE ~(admin.failed + 1 >= MaxFailures) /\ admin' = RecordFailure(admin) /\ guesses' = guesses + 1
      <4>1. admin' = [password |-> admin.password, failed |-> admin.failed + 1, locked |-> admin.locked]
        BY <1>0, <3>3 DEF RecordFailure, Admins
      <4> QED
        BY <1>0, <2>1, <3>3, <4>1 DEF PwInv, PwRow, GuessCount, Admins
    <3> QED
      BY <1>4, <2>1, <3>1, <3>2, <3>3 DEF WrongPassword
  <2> QED
    BY <2>2, <2>3, <2>4 DEF PwInv
<1>5. CASE RightPassword(r)
  <2>1. /\ mu = r /\ mu' = None /\ Done(r) /\ UNCHANGED confirmed /\ guesses' = 0
        /\ req[r].saw = admin /\ req[r].typed = admin.password /\ admin.password # 0
        /\ admin' = ResetFailures(admin)
        /\ sessions' \in {sessions, sessions \cup {[by |-> "password", ref |-> admin.password]}}
    BY <1>5 DEF RightPassword, NewSession, PwInv, ComparesFresh, At
  <2>2. ReqFcn' /\ ComparesFresh' /\ MuHeld'
    BY <2>1, MuGiven
  <2>3. admin' = [password |-> admin.password, failed |-> 0, locked |-> FALSE]
    BY <1>0, <2>1 DEF ResetFailures, Admins
  <2>4. PwRow' /\ GuessCount'
    BY <1>0, <2>1, <2>3 DEF PwInv, PwRow, GuessCount, Admins
  <2>5. Issued'
    BY <1>0, <2>1 DEF PwInv, Issued, Tokens, Admins
  <2>6. OldPasswordOut'
    BY <1>0, <2>1 DEF PwInv, PwRow, OldPasswordOut, Admins, Passwords
  <2> QED
    BY <2>2, <2>4, <2>5, <2>6 DEF PwInv
<1>6. CASE ChangePassword(r)
  <2>1. /\ mu = r /\ req[r].saw = admin /\ admin.password + 1 <= MaxPasswords
        /\ admin' = [ResetFailures(admin) EXCEPT !.password = admin.password + 1]
        /\ UNCHANGED <<mu, confirmed, sessions>> /\ guesses' = 0
        /\ Goto(r, [pc |-> "drop", new |-> admin.password + 1, current |-> req[r].current])
    BY <1>6 DEF ChangePassword, PwInv, ComparesFresh, At
  <2>2. /\ ReqFcn'
        /\ req'[r] = [pc |-> "drop", new |-> admin.password + 1, current |-> req[r].current]
        /\ \A q \in Requests \ {r} : req'[q] = req[q]
    BY <1>0, <2>1, GotoFacts
  <2>3. admin' = [password |-> admin.password + 1, failed |-> 0, locked |-> FALSE]
    BY <1>0, <2>1 DEF ResetFailures, Admins
  <2>4. PwRow' /\ GuessCount'
    <3>1. admin.password + 1 <= MaxPasswords /\ confirmed' = confirmed /\ guesses' = 0
      BY <2>1
    <3>2. admin.password \in Nat /\ confirmed \in Passwords /\ confirmed <= admin.password
      BY DEF PwInv, PwRow, Admins, Passwords
    <3>3. admin' \in Admins
      BY <1>0, <2>3, <3>1, <3>2 DEF Admins, Passwords
    <3> QED
      BY <2>3, <3>1, <3>2, <3>3 DEF PwRow, GuessCount, Passwords
  <2>5. \A q \in Requests \ {r} : req'[q].pc \notin {"login", "change", "drop"}
    BY <2>1, <2>2, MuAlone
  <2>6. req'[r].pc = "drop" /\ req'[r].new = admin'.password /\ admin'.password # 0
    BY <1>0, <2>2, <2>3 DEF Admins, Passwords
  <2>7. ComparesFresh' /\ MuHeld'
    BY <2>1, <2>5, <2>6 DEF ComparesFresh, MuHeld, At
  <2> QED
    BY <2>1, <2>2, <2>4, <2>7 DEF PwInv, Issued, OldPasswordOut
<1>7. CASE DropOthers(r)
  <2>1. mu = r /\ mu' = None /\ Done(r) /\ UNCHANGED <<admin, guesses>> /\ req[r].new = admin.password
    BY <1>7 DEF DropOthers, PwInv, ComparesFresh, At
  <2>2. ReqFcn' /\ ComparesFresh' /\ MuHeld'
    BY <2>1, MuGiven
  <2>3. CASE UNCHANGED <<sessions, confirmed>>
    BY <2>1, <2>2, <2>3 DEF PwInv, PwRow, GuessCount, Issued, OldPasswordOut
  <2>4. CASE /\ sessions' = {[s EXCEPT !.ref = IF s.by = "password" THEN req[r].new ELSE @] :
                               s \in {t \in sessions : t = req[r].current}}
             /\ confirmed' = req[r].new
    <3>1. PwRow' /\ GuessCount'
      BY <1>0, <2>1, <2>4 DEF PwInv, PwRow, GuessCount, Admins, Passwords
    <3>2. \A t \in sessions' : \/ t = [by |-> "password", ref |-> admin.password]
                               \/ t \in sessions /\ t.by # "password"
      BY <2>1, <2>4, KeptSessions
    <3>3. admin.password # 0
      BY <1>7 DEF DropOthers, PwInv, ComparesFresh, At
    <3>4. Issued'
      BY <1>0, <3>2, <3>3 DEF PwInv, Issued, Tokens, Admins
    <3>5. OldPasswordOut'
      BY <1>0, <2>1, <2>4, <3>2 DEF OldPasswordOut, Admins, Passwords
    <3> QED
      BY <2>2, <3>1, <3>4, <3>5 DEF PwInv
  <2> QED
    BY <1>7, <2>3, <2>4 DEF DropOthers
<1>8. CASE GiveUpChange(r)
  <2>1. mu = r /\ mu' = None /\ Done(r) /\ UNCHANGED <<admin, guesses, confirmed, sessions>>
    BY <1>8 DEF GiveUpChange, PwInv, ComparesFresh, At
  <2>2. ReqFcn' /\ ComparesFresh' /\ MuHeld'
    BY <2>1, MuGiven
  <2> QED
    BY <2>1, <2>2 DEF PwInv, PwRow, GuessCount, Issued, OldPasswordOut
<1> QED
  BY <1>1, <1>2, <1>3, <1>4, <1>5, <1>6, <1>7, <1>8

LEMMA OtherStepsPw ==
  ASSUME PwInv,
         \/ LockEnds \/ KeyChanges \/ Restart \/ UNCHANGED vars
         \/ (\E s \in sessions : SessionEnds(s)) \/ (\E p \in pending : Expire(p))
  PROVE  PwInv'
<1>1. CASE LockEnds
  <2>1. admin.locked /\ guesses' = 0 /\ UNCHANGED <<confirmed, mu, sessions, req>>
    BY <1>1 DEF LockEnds
  <2>2. admin' = [password |-> admin.password, failed |-> admin.failed, locked |-> FALSE]
    BY <1>1 DEF LockEnds, PwInv, PwRow, Admins
  <2>3. PwRow' /\ GuessCount'
    BY <2>1, <2>2, LoginConstants DEF PwInv, PwRow, GuessCount, Admins
  <2>4. \A r \in Requests : req'[r].pc \notin {"login", "change"}
    BY <2>1 DEF PwInv, ComparesFresh
  <2>5. ComparesFresh'
    BY <2>1, <2>2, <2>4 DEF PwInv, ComparesFresh, At
  <2> QED
    BY <2>1, <2>3, <2>5 DEF PwInv, ReqFcn, MuHeld, Issued, OldPasswordOut
<1>2. CASE \/ KeyChanges \/ (\E s \in sessions : SessionEnds(s))
           \/ (\E p \in pending : Expire(p)) \/ UNCHANGED vars
  <2>1. UNCHANGED <<admin, mu, guesses, confirmed, req>> /\ sessions' \subseteq sessions
    BY <1>2 DEF KeyChanges, SessionEnds, Expire, vars, adminVars
  <2> QED
    BY <2>1, PwKept DEF PwInv, ReqFcn
<1>3. CASE Restart
  <2>1. /\ UNCHANGED <<admin, guesses, confirmed, sessions>> /\ mu' = None
        /\ req' = [r \in Requests |-> Idle]
    BY <1>3 DEF Restart
  <2>2. ReqFcn' /\ ComparesFresh' /\ MuHeld'
    BY <2>1 DEF ReqFcn, ComparesFresh, MuHeld, At, Idle
  <2> QED
    BY <2>1, <2>2 DEF PwInv, PwRow, GuessCount, Issued, OldPasswordOut
<1> QED
  BY <1>1, <1>2, <1>3

LEMMA PwInductive == PwInv /\ IssueKnown /\ [Next]_vars => PwInv'
<1> SUFFICES ASSUME PwInv, IssueKnown, [Next]_vars
             PROVE  PwInv'
  OBVIOUS
<1> QED
  BY PasswordStepsPw, SettingStepsPw, FlowStepsPw, OtherStepsPw DEF Next

-----------------------------------------------------------------------------
(* Authorizations under way, and the accounts that were ever bound.        *)

WriteHeld == writeMu # None => writeMu \in Requests /\ req[writeMu].pc = "update"

\* What is bound, or is about to get or has a session, was bound once.
BoundOnce ==
  /\ everBound \subseteq Accounts
  /\ Bound(sso) => sso.bound \in everBound
  /\ \A s \in sessions : s.by = "oidc" => s.ref \in everBound
  /\ \A r \in Requests : At(r, "issue") => req[r].account \in everBound

Remembered ==
  /\ started \in 0 .. MaxStarts /\ cookie \in [Browsers -> 0 .. started]
  /\ pending \subseteq Flows /\ IsFiniteSet(pending) /\ Cardinality(pending) <= MaxPending

Places == {"idle", "login", "change", "drop", "update", "start", "verify", "issue"}

FlowRequests ==
  \A r \in Requests :
    /\ req[r].pc \in Places
    /\ At(r, "start") => req[r].purpose \in {"login", "bind"} /\ req[r].app \in Apps
    /\ req[r].pc \in {"start", "verify", "issue"} => req[r].browser \in Browsers

FlowInv == ReqFcn /\ WriteHeld /\ BoundOnce /\ Remembered /\ FlowRequests

LEMMA InitFlow == Init => FlowInv
<1> SUFFICES ASSUME Init
             PROVE  FlowInv
  OBVIOUS
<1>1. Remembered
  BY FS_EmptySet, LoginConstants DEF Init, Remembered
<1> QED
  BY <1>1 DEF Init, FlowInv, ReqFcn, WriteHeld, BoundOnce, Bound, NoSSO, FlowRequests, Places, At, Idle

\* Among identifiers there is a smallest one.
LEMMA SmallestId ==
  ASSUME NEW S, S \subseteq Nat, S # {}
  PROVE  \E x \in S : \A y \in S : x <= y
<1> DEFINE less == {p \in Nat \X Nat : p[1] < p[2]}
<1>1. IsWellFoundedOn(less, Nat)
  BY NatLessThanWellFounded DEF OpToRel
<1>2. \A a, b \in Nat : <<b, a>> \notin less => a <= b
  OBVIOUS
<1> HIDE DEF less
<1>3. PICK x \in S : \A y \in S : <<y, x>> \notin less
  BY <1>1, WFMin
<1> QED
  BY <1>2, <1>3

\* A full table has an oldest entry to lose.
LEMMA SomeOldest ==
  ASSUME pending \subseteq Flows, pending # {}
  PROVE  \E p \in pending : p \in Oldest
<1> DEFINE ids == {p.id : p \in pending}
<1>1. ids \subseteq Nat /\ ids # {}
  BY LoginConstants DEF Flows, Starts
<1>2. PICK x \in ids : \A y \in ids : x <= y
  <2> HIDE DEF ids
  <2> QED
    BY <1>1, SmallestId
<1> QED
  BY <1>2 DEF Oldest

LEMMA TableBounded ==
  ASSUME Remembered, NEW f \in Flows,
         pending' = (IF Cardinality(pending) >= MaxPending THEN pending \ Oldest ELSE pending) \cup {f}
  PROVE  pending' \subseteq Flows /\ IsFiniteSet(pending') /\ Cardinality(pending') <= MaxPending
<1> DEFINE rest == IF Cardinality(pending) >= MaxPending THEN pending \ Oldest ELSE pending
<1>1. IsFiniteSet(pending) /\ pending \subseteq Flows /\ Cardinality(pending) \in Nat
      /\ Cardinality(pending) <= MaxPending /\ MaxPending \in Nat \ {0}
  BY FS_CardinalityType, LoginConstants DEF Remembered
<1>2. rest \subseteq pending /\ IsFiniteSet(rest) /\ Cardinality(rest) \in Nat
  BY <1>1, FS_Subset, FS_CardinalityType
<1>3. Cardinality(rest) < MaxPending
  <2>1. CASE Cardinality(pending) >= MaxPending
    <3>1. pending # {}
      BY <1>1, <2>1, FS_EmptySet
    <3>2. rest # pending
      BY <1>1, <2>1, <3>1, SomeOldest
    <3>3. Cardinality(rest) <= Cardinality(pending) /\ Cardinality(rest) # Cardinality(pending)
      BY <1>1, <1>2, <3>2, FS_Subset
    <3> QED
      BY <1>1, <1>2, <3>3
  <2>2. CASE ~(Cardinality(pending) >= MaxPending)
    BY <1>1, <2>2
  <2> QED
    BY <2>1, <2>2
<1> HIDE DEF rest
<1>4. /\ IsFiniteSet(rest \cup {f})
      /\ Cardinality(rest \cup {f}) = IF f \in rest THEN Cardinality(rest) ELSE Cardinality(rest) + 1
  BY <1>2, FS_AddElement
<1>5. pending' = rest \cup {f}
  BY DEF rest
<1>6. Cardinality(pending') <= MaxPending
  <2>1. CASE f \in rest
    BY <1>1, <1>2, <1>3, <1>4, <1>5, <2>1
  <2>2. CASE f \notin rest
    BY <1>1, <1>2, <1>3, <1>4, <1>5, <2>2
  <2> QED
    BY <2>1, <2>2
<1> QED
  BY <1>1, <1>2, <1>4, <1>5, <1>6

\* A step that leaves the authorizations alone.
LEMMA FlowKept ==
  ASSUME FlowInv, UNCHANGED <<writeMu, everBound, pending, started, cookie>>,
         Bound(sso') => sso'.bound \in everBound,
         \A s \in sessions' : s.by = "oidc" => s \in sessions,
         ReqFcn',
         \A r \in Requests :
           \/ req'[r] = req[r]
           \/ req[r].pc # "update" /\ req'[r].pc \in {"idle", "login", "change", "drop"}
  PROVE  FlowInv'
<1>1. WriteHeld'
  BY DEF FlowInv, WriteHeld
<1>2. BoundOnce'
  BY DEF FlowInv, BoundOnce, At, Bound
<1>3. Remembered'
  BY DEF FlowInv, Remembered
<1>4. FlowRequests'
  BY DEF FlowInv, FlowRequests, Places, At
<1> QED
  BY <1>1, <1>2, <1>3, <1>4 DEF FlowInv

\* The steps of the password's side.
LEMMA PasswordStepsFlow ==
  ASSUME FlowInv, PwInv, NEW r \in Requests,
         \/ Setup(r) \/ WrongPassword(r) \/ RightPassword(r)
         \/ ChangePassword(r) \/ DropOthers(r) \/ GiveUpChange(r)
         \/ \E typed \in Passwords : BeginLogin(r, typed)
         \/ \E typed \in Passwords, s \in sessions \cup {None} : BeginChange(r, typed, s)
  PROVE  FlowInv'
<1>0. ReqFcn /\ (Bound(sso) => sso.bound \in everBound)
  BY DEF FlowInv, BoundOnce
<1>1. UNCHANGED <<sso, writeMu, everBound, pending, started, cookie>> /\ req[r].pc # "update"
  BY DEF Setup, BeginLogin, BeginChange, WrongPassword, RightPassword, ChangePassword, DropOthers,
         GiveUpChange, At, ssoVars, flowVars
<1>2. Bound(sso') => sso'.bound \in everBound
  BY <1>0, <1>1 DEF Bound
<1>3. CASE Setup(r)
  BY <1>0, <1>1, <1>2, <1>3, FlowKept DEF Setup, ReqFcn
<1>4. CASE WrongPassword(r) \/ GiveUpChange(r)
  <2>1. sessions' = sessions /\ Done(r)
    BY <1>4 DEF WrongPassword, GiveUpChange
  <2> QED
    BY <1>0, <1>1, <1>2, <2>1, DoneFacts, FlowKept
<1>5. CASE RightPassword(r)
  <2>1. /\ sessions' \in {sessions, sessions \cup {[by |-> "password", ref |-> req[r].typed]}}
        /\ Done(r)
    BY <1>5 DEF RightPassword, NewSession
  <2>2. \A s \in sessions' : s.by = "oidc" => s \in sessions
    BY <2>1
  <2> QED
    BY <1>0, <1>1, <1>2, <2>1, <2>2, DoneFacts, FlowKept
<1>6. CASE ChangePassword(r)
  <2>1. /\ sessions' = sessions
        /\ Goto(r, [pc |-> "drop", new |-> req[r].saw.password + 1, current |-> req[r].current])
    BY <1>6 DEF ChangePassword
  <2> QED
    BY <1>0, <1>1, <1>2, <2>1, GotoFacts, FlowKept
<1>7. CASE DropOthers(r)
  <2>1. Done(r) /\ req[r].new = admin.password
    BY <1>7 DEF DropOthers, PwInv, ComparesFresh, At
  <2>2. \A s \in sessions' : s.by = "oidc" => s \in sessions
    <3>1. CASE sessions' = sessions
      BY <3>1
    <3>2. CASE sessions' = {[s EXCEPT !.ref = IF s.by = "password" THEN req[r].new ELSE @] :
                              s \in {t \in sessions : t = req[r].current}}
      BY <2>1, <3>2, KeptSessions
    <3> QED
      BY <1>7, <3>1, <3>2 DEF DropOthers
  <2> QED
    BY <1>0, <1>1, <1>2, <2>1, <2>2, DoneFacts, FlowKept
<1>8. ASSUME NEW typed \in Passwords, BeginLogin(r, typed)
      PROVE  FlowInv'
  <2>1. sessions' = sessions /\ Goto(r, [pc |-> "login", saw |-> admin, typed |-> typed])
    BY <1>8 DEF BeginLogin
  <2> QED
    BY <1>0, <1>1, <1>2, <2>1, GotoFacts, FlowKept
<1>9. ASSUME NEW typed \in Passwords, NEW s \in sessions \cup {None}, BeginChange(r, typed, s)
      PROVE  FlowInv'
  <2>1. /\ sessions' = sessions
        /\ Goto(r, [pc |-> "change", saw |-> admin, typed |-> typed, current |-> s])
    BY <1>9 DEF BeginChange
  <2> QED
    BY <1>0, <1>1, <1>2, <2>1, GotoFacts, FlowKept
<1> QED
  BY <1>3, <1>4, <1>5, <1>6, <1>7, <1>8, <1>9

\* Saves of the provider's row.
LEMMA SettingStepsFlow ==
  ASSUME FlowInv, SsoInv, NEW r \in Requests,
         \/ \E a \in Apps : BeginUpdate(r, a)
         \/ Update(r) \/ UpdateFails(r) \/ ChangeSSO(r)
  PROVE  FlowInv'
<1>0. ReqFcn /\ (Bound(sso) => sso.bound \in everBound) /\ sso \in Rows
  BY DEF FlowInv, BoundOnce, SsoInv
<1>1. UNCHANGED <<everBound, sessions, pending, started, cookie>>
  BY DEF BeginUpdate, Update, UpdateFails, ChangeSSO, flowVars
<1>2. Remembered'
  BY <1>1 DEF FlowInv, Remembered
<1>3. ASSUME NEW a \in Apps, BeginUpdate(r, a)
      PROVE  FlowInv'
  <2>1. /\ sso' = sso /\ writeMu' = r /\ Goto(r, [pc |-> "update", saw |-> sso, app |-> a])
    BY <1>3 DEF BeginUpdate
  <2>2. /\ ReqFcn' /\ req'[r].pc = "update" /\ \A q \in Requests \ {r} : req'[q] = req[q]
    BY <1>0, <2>1, GotoFacts
  <2>3. WriteHeld' /\ FlowRequests'
    BY <2>1, <2>2 DEF FlowInv, WriteHeld, FlowRequests, Places, At
  <2>4. BoundOnce'
    BY <1>1, <2>1, <2>2 DEF FlowInv, BoundOnce, Bound, At
  <2> QED
    BY <1>2, <2>2, <2>3, <2>4 DEF FlowInv
<1>4. CASE Update(r) \/ UpdateFails(r)
  <2>1. Done(r) /\ writeMu' = None
    BY <1>4 DEF Update, UpdateFails
  <2>2. ReqFcn' /\ req'[r].pc = "idle" /\ \A q \in Requests \ {r} : req'[q] = req[q]
    BY <1>0, <2>1, DoneFacts
  <2>3. WriteHeld' /\ FlowRequests'
    BY <2>1, <2>2 DEF FlowInv, WriteHeld, FlowRequests, Places, At
  <2>4. Bound(sso') => sso'.bound \in everBound
    <3>1. CASE UpdateFails(r)
      BY <1>0, <3>1 DEF UpdateFails, Bound
    <3>2. CASE Update(r)
      <4>1. req[r].saw = sso
        BY <3>2 DEF Update, SsoInv, SavesFresh
      <4>2. sso' \in {ClearBinding([sso EXCEPT !.app = req[r].app]), [sso EXCEPT !.app = req[r].app]}
        BY <3>2, <4>1 DEF Update
      <4>3. sso'.bound \in {None, sso.bound}
        BY <1>0, <4>2 DEF ClearBinding, Rows
      <4> QED
        BY <1>0, <4>3 DEF Bound
    <3> QED
      BY <1>4, <3>1, <3>2
  <2>5. BoundOnce'
    BY <1>1, <2>2, <2>4 DEF FlowInv, BoundOnce, Bound, At
  <2> QED
    BY <1>2, <2>2, <2>3, <2>5 DEF FlowInv
<1>5. CASE ChangeSSO(r)
  <2>1. UNCHANGED <<writeMu, req>>
    BY <1>5 DEF ChangeSSO
  <2>2. sso'.bound \in {None, sso.bound}
    <3>1. CASE Disable
      BY <3>1 DEF Disable, NoSSO
    <3>2. CASE Unbind
      BY <1>0, <3>2 DEF Unbind, ClearBinding, Rows
    <3>3. CASE \E enabled \in BOOLEAN : SetPasswordLogin(enabled)
      BY <1>0, <3>3 DEF SetPasswordLogin, Rows
    <3> QED
      BY <1>5, <3>1, <3>2, <3>3 DEF ChangeSSO
  <2>3. Bound(sso') => sso'.bound \in everBound
    BY <1>0, <2>2 DEF Bound
  <2> QED
    BY <1>0, <1>1, <2>1, <2>3, FlowKept DEF ReqFcn
<1> QED
  BY <1>3, <1>4, <1>5

LEMMA FewerPending ==
  ASSUME Remembered, pending' \subseteq pending
  PROVE  pending' \subseteq Flows /\ IsFiniteSet(pending') /\ Cardinality(pending') <= MaxPending
<1>1. IsFiniteSet(pending') /\ Cardinality(pending') <= Cardinality(pending)
  BY FS_Subset DEF Remembered
<1> QED
  BY <1>1, FS_CardinalityType, LoginConstants DEF Remembered

\* The answer to a callback.
LEMMA CookieGone ==
  ASSUME FlowInv, NEW r \in Requests, req[r].pc \in {"verify", "issue"}, Answered(r),
         UNCHANGED <<pending, started, writeMu>>
  PROVE  /\ ReqFcn' /\ WriteHeld' /\ Remembered' /\ FlowRequests'
         /\ \A q \in Requests : At(q, "issue")' => req'[q] = req[q]
<1>1. ReqFcn' /\ req'[r].pc = "idle" /\ \A q \in Requests \ {r} : req'[q] = req[q]
  BY DoneFacts DEF FlowInv, Answered
<1>2. WriteHeld' /\ FlowRequests'
  BY <1>1 DEF FlowInv, WriteHeld, FlowRequests, Places, At
<1>3. cookie \in [Browsers -> 0 .. started] /\ 0 \in 0 .. started
  BY LoginConstants DEF FlowInv, Remembered
<1>4. cookie' \in [Browsers -> 0 .. started]
  BY <1>3 DEF Answered
<1>5. Remembered'
  BY <1>4 DEF FlowInv, Remembered
<1> QED
  BY <1>1, <1>2, <1>5 DEF At

\* Logins and bindings through the provider.
LEMMA FlowStepsFlow ==
  ASSUME FlowInv, SsoInv, NEW r \in Requests,
         \/ \E b \in Browsers : \/ StartFlow(r, b, "login") \/ StartFlow(r, b, "bind")
                               \/ \E id \in 1 .. started : Callback(r, b, id)
         \/ SendToProvider(r) \/ StartFails(r) \/ CallbackFails(r)
         \/ \E a \in Accounts : BindAccount(r, a) \/ CheckAccount(r, a)
         \/ IssueSession(r)
  PROVE  FlowInv'
<1>0. ReqFcn /\ Remembered /\ (Bound(sso) => sso.bound \in everBound)
  BY DEF FlowInv, BoundOnce
<1>1. ASSUME NEW b \in Browsers, NEW purpose \in {"login", "bind"}, StartFlow(r, b, purpose)
      PROVE  FlowInv'
  <2>1. /\ UNCHANGED <<sso, writeMu, everBound, sessions, pending, started, cookie>> /\ At(r, "idle")
        /\ Goto(r, [pc |-> "start", browser |-> b, purpose |-> purpose, app |-> sso.app])
    BY <1>1 DEF StartFlow, ssoVars, flowVars
  <2>2. sso.app \in Apps
    BY <1>1 DEF StartFlow, MayStart, Configured, SsoInv, Rows
  <2>3. /\ ReqFcn' /\ \A q \in Requests \ {r} : req'[q] = req[q]
        /\ req'[r] = [pc |-> "start", browser |-> b, purpose |-> purpose, app |-> sso.app]
    BY <1>0, <2>1, GotoFacts
  <2>4. FlowRequests'
    BY <2>2, <2>3 DEF FlowInv, FlowRequests, Places, At
  <2>5. WriteHeld' /\ BoundOnce' /\ Remembered'
    BY <2>1, <2>3 DEF FlowInv, WriteHeld, BoundOnce, Bound, Remembered, At
  <2> QED
    BY <2>3, <2>4, <2>5 DEF FlowInv
<1>2. CASE SendToProvider(r)
  <2>1. /\ UNCHANGED <<sso, writeMu, everBound, sessions>> /\ At(r, "start") /\ Done(r)
        /\ started < MaxStarts /\ started' = started + 1
        /\ cookie' = [cookie EXCEPT ![req[r].browser] = started + 1]
    BY <1>2 DEF SendToProvider, ssoVars
  <2>2. ReqFcn' /\ req'[r].pc = "idle" /\ \A q \in Requests \ {r} : req'[q] = req[q]
    BY <1>0, <2>1, DoneFacts
  <2>3. started \in Nat /\ started + 1 \in 1 .. MaxStarts /\ req[r].browser \in Browsers
    BY <2>1, LoginConstants DEF FlowInv, Remembered, FlowRequests, At
  <2>4. [id |-> started + 1, purpose |-> req[r].purpose, app |-> req[r].app] \in Flows
    BY <2>1, <2>3 DEF FlowInv, FlowRequests, Flows, Starts
  <2>5. pending' \subseteq Flows /\ IsFiniteSet(pending') /\ Cardinality(pending') <= MaxPending
    BY <1>0, <1>2, <2>4, TableBounded DEF SendToProvider
  <2>6. cookie' \in [Browsers -> 0 .. started']
    BY <2>1, <2>3 DEF FlowInv, Remembered
  <2>7. Remembered'
    BY <2>1, <2>3, <2>5, <2>6, LoginConstants DEF Remembered
  <2>8. WriteHeld' /\ BoundOnce' /\ FlowRequests'
    BY <2>1, <2>2 DEF FlowInv, WriteHeld, BoundOnce, Bound, FlowRequests, Places, At
  <2> QED
    BY <2>2, <2>7, <2>8 DEF FlowInv
<1>3. CASE StartFails(r)
  <2>1. /\ UNCHANGED <<sso, writeMu, everBound, sessions, pending, started, cookie>> /\ Done(r)
        /\ req[r].pc # "update"
    BY <1>3 DEF StartFails, ssoVars, flowVars, At
  <2> QED
    BY <1>0, <2>1, DoneFacts, FlowKept DEF Bound
<1>4. ASSUME NEW b \in Browsers, NEW id \in 1 .. started, Callback(r, b, id)
      PROVE  FlowInv'
  <2>1. UNCHANGED <<sso, writeMu, everBound, sessions, started>> /\ At(r, "idle")
    BY <1>4 DEF Callback, ssoVars
  <2>2. pending' \subseteq Flows /\ IsFiniteSet(pending') /\ Cardinality(pending') <= MaxPending
    BY <1>0, <1>4, FewerPending DEF Callback
  <2>3. CASE req' = req /\ cookie' = [cookie EXCEPT ![b] = 0]
    <3>1. Remembered'
      BY <2>1, <2>2, <2>3, LoginConstants DEF FlowInv, Remembered
    <3> QED
      BY <2>1, <2>3, <3>1 DEF FlowInv, ReqFcn, WriteHeld, BoundOnce, Bound, FlowRequests, At
  <2>4. CASE /\ UNCHANGED cookie
             /\ \E p : Goto(r, [pc |-> "verify", browser |-> b, flow |-> p, app |-> sso.app])
    <3>1. PICK p : Goto(r, [pc |-> "verify", browser |-> b, flow |-> p, app |-> sso.app])
      BY <2>4
    <3>2. /\ ReqFcn' /\ \A q \in Requests \ {r} : req'[q] = req[q]
          /\ req'[r] = [pc |-> "verify", browser |-> b, flow |-> p, app |-> sso.app]
      BY <1>0, <3>1, GotoFacts
    <3>3. Remembered'
      BY <2>1, <2>2, <2>4 DEF FlowInv, Remembered
    <3>4. WriteHeld' /\ BoundOnce' /\ FlowRequests'
      BY <2>1, <3>2 DEF FlowInv, WriteHeld, BoundOnce, Bound, FlowRequests, Places, At
    <3> QED
      BY <3>2, <3>3, <3>4 DEF FlowInv
  <2> QED
    BY <1>4, <2>3, <2>4 DEF Callback
<1>5. CASE CallbackFails(r)
  <2>1. /\ UNCHANGED <<sso, writeMu, everBound, sessions, pending, started>> /\ Answered(r)
        /\ req[r].pc \in {"verify", "issue"}
    BY <1>5 DEF CallbackFails, ssoVars
  <2>2. BoundOnce'
    BY <2>1, CookieGone DEF FlowInv, BoundOnce, Bound, At
  <2> QED
    BY <2>1, <2>2, CookieGone DEF FlowInv
<1>6. ASSUME NEW a \in Accounts, BindAccount(r, a)
      PROVE  FlowInv'
  <2>1. /\ UNCHANGED <<writeMu, sessions, pending, started>> /\ Answered(r)
        /\ req[r].pc \in {"verify", "issue"}
    BY <1>6 DEF BindAccount, Verifies, At
  <2>2. CASE UNCHANGED <<sso, everBound>>
    <3>1. BoundOnce'
      BY <2>1, <2>2, CookieGone DEF FlowInv, BoundOnce, Bound, At
    <3> QED
      BY <2>1, <3>1, CookieGone DEF FlowInv
  <2>3. CASE sso' = Bind(sso, a) /\ everBound' = everBound \cup {a}
    <3>1. sso'.bound = a
      BY <2>3 DEF Bind, SsoInv, Rows
    <3>2. BoundOnce'
      BY <2>1, <2>3, <3>1, CookieGone DEF FlowInv, BoundOnce, Bound, At
    <3> QED
      BY <2>1, <3>2, CookieGone DEF FlowInv
  <2> QED
    BY <1>6, <2>2, <2>3 DEF BindAccount
<1>7. ASSUME NEW a \in Accounts, CheckAccount(r, a)
      PROVE  FlowInv'
  <2>1. /\ UNCHANGED <<sso, writeMu, everBound, sessions, pending, started, cookie>>
        /\ At(r, "verify") /\ Bound(sso) /\ sso.bound = a
        /\ Goto(r, [pc |-> "issue", browser |-> req[r].browser, account |-> a])
    BY <1>7 DEF CheckAccount, Verifies, IsBound, ssoVars, flowVars
  <2>2. /\ ReqFcn' /\ \A q \in Requests \ {r} : req'[q] = req[q]
        /\ req'[r] = [pc |-> "issue", browser |-> req[r].browser, account |-> a]
    BY <1>0, <2>1, GotoFacts
  <2>3. BoundOnce'
    BY <1>0, <2>1, <2>2 DEF FlowInv, BoundOnce, Bound, At
  <2>4. FlowRequests'
    BY <2>1, <2>2 DEF FlowInv, FlowRequests, Places, At
  <2>5. WriteHeld' /\ Remembered'
    BY <2>1, <2>2 DEF FlowInv, WriteHeld, Remembered, At
  <2> QED
    BY <2>2, <2>3, <2>4, <2>5 DEF FlowInv
<1>8. CASE IssueSession(r)
  <2>1. /\ UNCHANGED <<sso, writeMu, everBound, pending, started>> /\ Answered(r) /\ At(r, "issue")
        /\ sessions' = sessions \cup {[by |-> "oidc", ref |-> req[r].account]}
    BY <1>8 DEF IssueSession, NewSession, ssoVars
  <2>2. \A s \in sessions' : s.by = "oidc" => s.ref \in everBound
    BY <2>1 DEF FlowInv, BoundOnce
  <2>3. BoundOnce'
    BY <2>1, <2>2, CookieGone DEF FlowInv, BoundOnce, Bound, At
  <2> QED
    BY <2>1, <2>3, CookieGone DEF FlowInv, At
<1> QED
  BY <1>1, <1>2, <1>3, <1>4, <1>5, <1>6, <1>7, <1>8

LEMMA OtherStepsFlow ==
  ASSUME FlowInv,
         \/ LockEnds \/ KeyChanges \/ Restart \/ UNCHANGED vars
         \/ (\E s \in sessions : SessionEnds(s)) \/ (\E p \in pending : Expire(p))
  PROVE  FlowInv'
<1>0. ReqFcn /\ Remembered /\ (Bound(sso) => sso.bound \in everBound)
  BY DEF FlowInv, BoundOnce
<1>1. CASE LockEnds \/ KeyChanges \/ UNCHANGED vars \/ \E s \in sessions : SessionEnds(s)
  <2>1. /\ UNCHANGED <<sso, writeMu, everBound, pending, started, cookie, req>>
        /\ sessions' \subseteq sessions
    BY <1>1 DEF LockEnds, KeyChanges, SessionEnds, vars, ssoVars, flowVars
  <2> QED
    BY <1>0, <2>1, FlowKept DEF ReqFcn, Bound
<1>2. ASSUME NEW p \in pending, Expire(p)
      PROVE  FlowInv'
  <2>1. UNCHANGED <<sso, writeMu, everBound, sessions, started, cookie, req>> /\ pending' \subseteq pending
    BY <1>2 DEF Expire, ssoVars
  <2>2. Remembered'
    BY <1>0, <2>1, FewerPending DEF Remembered
  <2> QED
    BY <2>1, <2>2 DEF FlowInv, ReqFcn, WriteHeld, BoundOnce, Bound, FlowRequests, At
<1>3. CASE Restart
  <2>1. /\ UNCHANGED <<sso, everBound, sessions, started, cookie>> /\ pending' = {} /\ writeMu' = None
        /\ req' = [r \in Requests |-> Idle]
    BY <1>3 DEF Restart
  <2>2. Remembered'
    BY <1>0, <2>1, FewerPending DEF Remembered
  <2> QED
    BY <2>1, <2>2
    DEF FlowInv, ReqFcn, WriteHeld, BoundOnce, Bound, FlowRequests, Places, At, Idle
<1> QED
  BY <1>1, <1>2, <1>3

-----------------------------------------------------------------------------
LInv == SsoInv /\ PwInv /\ FlowInv

LEMMA LInvHolds == Spec => []LInv
<1>1. Init => LInv
  BY InitSso, InitPw, InitFlow DEF LInv
<1>2. LInv /\ [Next]_vars => LInv'
  <2> SUFFICES ASSUME LInv, [Next]_vars
               PROVE  LInv'
    OBVIOUS
  <2>1. SsoInv'
    BY SsoInductive DEF LInv
  <2>2. IssueKnown
    BY DEF LInv, FlowInv, BoundOnce, IssueKnown
  <2>3. PwInv'
    BY <2>2, PwInductive DEF LInv
  <2>4. FlowInv'
    BY PasswordStepsFlow, SettingStepsFlow, FlowStepsFlow, OtherStepsFlow DEF LInv, Next
  <2> QED
    BY <2>1, <2>3, <2>4 DEF LInv
<1> QED
  BY <1>1, <1>2, PTL DEF Spec

\* However many requests log in, change the password and end sessions at once, and whenever the
\* process dies between the new password and the deletion of the sessions: once a change is
\* confirmed, no session rests on an older password.
THEOREM OldPasswordsEnd == Spec => []OldPasswordOut
<1>1. LInv => OldPasswordOut
  BY DEF LInv, PwInv
<1> QED
  BY <1>1, LInvHolds, PTL

\* For any number of requests, browsers, providers and accounts: the wrong passwords told apart
\* stay within the limit, every OIDC session is of an account that was bound once, and the
\* panel remembers no more authorizations than it may.
THEOREM NobodyElseLogsIn == Spec => []OnlyBoundAccounts
<1>1. LInv => TypeOK
  <2> SUFFICES ASSUME LInv
               PROVE  TypeOK
    OBVIOUS
  <2>1. admin \in Admins /\ confirmed \in Passwords /\ Issued /\ MuHeld
    BY DEF LInv, PwInv, PwRow
  <2>2. sso \in Rows /\ WriteHeld /\ everBound \subseteq Accounts /\ Remembered /\ FlowRequests
    BY DEF LInv, SsoInv, FlowInv, BoundOnce
  <2> QED
    BY <2>1, <2>2 DEF TypeOK, Issued, MuHeld, WriteHeld, Remembered, FlowRequests, Places
<1>2. LInv => GuessesBounded
  BY LoginConstants DEF LInv, PwInv, PwRow, Admins, GuessCount, GuessesBounded
<1>3. LInv => OnlyBoundAccounts
  BY <1>1, <1>2 DEF LInv, FlowInv, BoundOnce, OnlyBoundAccounts
<1> QED
  BY <1>3, LInvHolds, PTL
=============================================================================
