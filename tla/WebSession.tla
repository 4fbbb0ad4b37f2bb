----------------------------- MODULE WebSession -----------------------------
(***************************************************************************)
(* The browser's side of set-up, login and session: the set-up guard       *)
(* around the routes, the login and set-up forms, the layout of the admin  *)
(* pages and the two interceptors of the API client.  A tab is one loaded  *)
(* application; the tabs of a browser share its local storage.             *)
(***************************************************************************)
EXTENDS Accounts, Integers, Functions

CONSTANTS
  PublicPath, \* bound: the addresses of status pages that are visited
  AdminPath,  \* bound: the pages of the dashboard layout that are visited
  BackPath,   \* bound: where the history buttons lead to
  MaxChecks   \* bound: status checks a tab waits for before somebody clicks on

VARIABLES
  tab,        \* [Tab -> TabState]
  stored      \* [Browser -> Token]: the item `token'

vars == <<users, call, tab, stored>>

\* The routes of App: the public page, the two forms and the dashboard layout.
Path == PublicPath \cup {"/login", "/setup"} \cup AdminPath

ASSUME SessionAssumption ==
  /\ "/" \in PublicPath /\ "/dashboard" \in AdminPath
  /\ {"/login", "/setup"} \cap (PublicPath \cup AdminPath) = {}
  /\ PublicPath \cap AdminPath = {} /\ BackPath \subseteq Path
  /\ MaxChecks \in Nat

\* A status check of the guard: of the path its closure holds, whether it is that
\* of the set-up form, and the answer.
GuardCheck == [form : BOOLEAN, answer : {"asked", "setup", "ready"}]

Asked(p) == [form |-> p = "/setup", answer |-> "asked"]

\* A form being submitted: "register" and "enter" are the two calls of set-up.
\* The name NoName stands for credentials that match no row.  The calls of a
\* form go on when it is gone from the screen.
Job == [kind : {"none", "login", "register", "enter"}, name : Name \cup {NoName},
        gone : BOOLEAN]

NoJob == [kind |-> "none", name |-> NoName, gone |-> FALSE]

\* `guard' counts the checks under way, `api' holds the tokens of the list
\* requests in flight, `blind' (a ghost) says that a check of this load failed.
\* The alert of a form is left out.
TabState == [path : Path, checking : BOOLEAN, guard : [GuardCheck -> Nat],
             api : SUBSET Token, jobs : [Slot -> Job], blind : BOOLEAN]

\* The checks of a tab.
Checks(s) == {g \in GuardCheck : s.guard[g] > 0}

-----------------------------------------------------------------------------
(* Where a tab goes *)

\* A full page load: nothing of the former application survives.
Loaded(p) ==
  [path |-> p, checking |-> TRUE, api |-> {}, jobs |-> [i \in Slot |-> NoJob],
   guard |-> [g \in GuardCheck |-> IF g = Asked(p) THEN 1 ELSE 0], blind |-> FALSE]

\* The effect of the guard on a new path.
Ask(s, p) == [s EXCEPT !.path = p, !.guard[Asked(p)] = @ + 1]

\* The page at s.path mounts: an admin page asks for its list, the login form
\* hands over to the dashboard when a token is stored.
Mounted(s, k) ==
  IF s.path = "/login" /\ k # "none"
  THEN [Ask(s, "/dashboard") EXCEPT !.api = @ \cup {k}]
  ELSE IF s.path \in AdminPath THEN [s EXCEPT !.api = @ \cup {k}] ELSE s

\* The form on the screen is unmounted.
Gone(jobs) == [i \in Slot |-> IF jobs[i] = NoJob THEN NoJob ELSE [jobs[i] EXCEPT !.gone = TRUE]]

\* navigate(p): a new path unmounts the page and makes the guard ask again.  While
\* the first check runs the routes are not rendered.
Moved(s, p, k) ==
  LET n == [Ask(s, p) EXCEPT !.jobs = Gone(@)]
  IN  IF p = s.path THEN s ELSE IF s.checking THEN n ELSE Mounted(n, k)

TokenOf(t) == stored[BrowserOf[t]]

Store(t, k) == stored' = [stored EXCEPT ![BrowserOf[t]] = k]

Become(t, s) == tab' = [tab EXCEPT ![t] = s]

Go(t, s, p) == Become(t, Moved(s, p, TokenOf(t)))

\* Variant: the rejected request is only reported to its caller.
RejectedQuietly(t) ==
  /\ Become(t, [tab[t] EXCEPT !.api = @ \ {TokenOf(t)}, !.jobs = [i \in Slot |-> NoJob]])
  /\ UNCHANGED stored

\* The response interceptor on status 401.
Rejected(t) == Store(t, "none") /\ Become(t, Loaded("/login"))

-----------------------------------------------------------------------------
(* The guard *)

\* The address bar, a reload, a new tab.  Bound: a page that is still loading is
\* waited for; reloading it gives nothing but another Loaded(p).
Open(t, p) ==
  /\ ~tab[t].checking
  /\ Become(t, Loaded(p))
  /\ UNCHANGED <<users, call, stored>>

AnswerCheck(t, g) ==
  /\ g.answer = "asked"
  /\ LET a == IF SetupRequired THEN "setup" ELSE "ready"
     IN  Become(t, [tab[t] EXCEPT !.guard[g] = @ - 1, !.guard[[g EXCEPT !.answer = a]] = @ + 1])
  /\ UNCHANGED <<users, call, stored>>

\* Variant: only the admin pages send to the form.
RedirectAdminOnly(s, g) ==
  IF g.answer = "setup" /\ ~g.form /\ s.path \in AdminPath THEN "/setup"
  ELSE IF g.answer = "ready" /\ g.form THEN "/login" ELSE s.path

\* Variant: nobody is sent away from the form.
RedirectToSetup(s, g) == IF g.answer = "setup" THEN "/setup" ELSE s.path

\* Where the check sends the tab, judged by the path the check began with.
Redirect(s, g) ==
  IF g.answer = "setup" /\ ~g.form THEN "/setup"
  ELSE IF g.answer = "ready" /\ g.form THEN "/login" ELSE s.path

\* Variant: an error leaves the loader on the screen.
SettledUnlessFailed(s, k) ==
  IF s.checking /\ ~s.blind THEN Mounted([s EXCEPT !.checking = FALSE], k) ELSE s

\* `finally': the routes are shown.
Settled(s, k) == IF s.checking THEN Mounted([s EXCEPT !.checking = FALSE], k) ELSE s

ApplyCheck(t, g) ==
  /\ g.answer # "asked"
  /\ LET s == [tab[t] EXCEPT !.guard[g] = @ - 1]
     IN  Become(t, Settled(Moved(s, Redirect(s, g), TokenOf(t)), TokenOf(t)))
  /\ UNCHANGED <<users, call, stored>>

\* The request fails: the error is only logged.
FailCheck(t, g) ==
  /\ g.answer = "asked" /\ "check" \in Faults
  /\ Become(t, Settled([tab[t] EXCEPT !.guard[g] = @ - 1, !.blind = TRUE], TokenOf(t)))
  /\ UNCHANGED <<users, call, stored>>

GuardStep(t, g) == AnswerCheck(t, g) \/ ApplyCheck(t, g) \/ FailCheck(t, g)

-----------------------------------------------------------------------------
(* The admin pages *)

OnAdminPage(t) == tab[t].path \in AdminPath /\ ~tab[t].checking

Settling(t) == FoldFunction(LAMBDA n, sum : n + sum, 0, tab[t].guard) > MaxChecks

\* The page asks for its list again: by timer, on focus, after a change.
Refetch(t) ==
  /\ OnAdminPage(t)
  /\ Become(t, [tab[t] EXCEPT !.api = @ \cup {TokenOf(t)}])
  /\ UNCHANGED <<users, call, stored>>

\* The answer to a request that carried k.
AnswerApi(t, k) ==
  /\ \/ ~Accepted(k) /\ Rejected(t)
     \/ /\ Accepted(k) \/ "list" \in Faults
        /\ Become(t, [tab[t] EXCEPT !.api = @ \ {k}])
        /\ UNCHANGED stored
  /\ UNCHANGED <<users, call>>

\* An entry of the menu.
OpenMenu(t, p) ==
  /\ OnAdminPage(t) /\ ~Settling(t)
  /\ Go(t, tab[t], p)
  /\ UNCHANGED <<users, call, stored>>

Logout(t) ==
  /\ OnAdminPage(t) /\ ~Settling(t)
  /\ Store(t, "none")
  /\ Become(t, Moved(tab[t], "/login", "none"))
  /\ UNCHANGED <<users, call>>

\* The link at the foot of the public page.
AdminLogin(t) ==
  /\ tab[t].path \in PublicPath /\ ~tab[t].checking /\ ~Settling(t)
  /\ Go(t, tab[t], "/login")
  /\ UNCHANGED <<users, call, stored>>

\* The back and forward buttons.  Which paths the history of the tab has is not
\* kept: any of BackPath may be among them.
Back(t, p) ==
  /\ ~tab[t].checking /\ ~Settling(t)
  /\ Go(t, tab[t], p)
  /\ UNCHANGED <<users, call, stored>>

-----------------------------------------------------------------------------
(* The forms *)

\* The form is there, and its button is enabled.
Idle(t, p) ==
  /\ tab[t].path = p /\ ~tab[t].checking
  /\ \A i \in Slot : tab[t].jobs[i] = NoJob \/ tab[t].jobs[i].gone

Submitting(t, i, k) == tab[t].jobs[i].kind = k

\* A login that succeeds: the token is stored and the dashboard opens.
Enter(t, i) ==
  /\ Store(t, "valid")
  /\ Become(t, Moved([tab[t] EXCEPT !.jobs[i] = NoJob], "/dashboard", "valid"))

\* An error without an answer of the server ends in the alert of the form.
Fail(t, i) ==
  /\ "net" \in Faults
  /\ Become(t, [tab[t] EXCEPT !.jobs[i] = NoJob])
  /\ UNCHANGED stored

Submit(t, i, p, kind, n) ==
  /\ Idle(t, p) /\ tab[t].jobs[i] = NoJob
  /\ Become(t, [tab[t] EXCEPT !.jobs[i] = [kind |-> kind, name |-> n, gone |-> FALSE]])

SubmitLogin(t, i, n) ==
  /\ Submit(t, i, "/login", "login", n)
  /\ UNCHANGED <<users, call, stored>>

\* Any error of the service is a 401.
AnswerLogin(t, i) ==
  /\ Submitting(t, i, "login")
  /\ LET known == Authenticates(tab[t].jobs[i].name)
     IN  \/ known /\ Enter(t, i)
         \/ (~known \/ "db" \in Faults) /\ Rejected(t)
         \/ Fail(t, i)
  /\ UNCHANGED <<users, call>>

SubmitSetup(t, i, n) ==
  /\ Submit(t, i, "/setup", "register", n)
  /\ PostRegister(<<t, i>>, n)
  /\ UNCHANGED <<users, stored>>

\* Variant: goes on to the login whatever the answer.
AnswerRegisterAny(t, i) ==
  /\ Submitting(t, i, "register")
  /\ call[<<t, i>>].pc \in {"ok", "refused"}
  /\ Become(t, [tab[t] EXCEPT !.jobs[i].kind = "enter"])
  /\ call' = [call EXCEPT ![<<t, i>>] = NoCall]
  /\ UNCHANGED <<users, stored>>

\* Variant: a refusal does not enable the button again.
AnswerRegisterOk(t, i) ==
  /\ Submitting(t, i, "register")
  /\ \/ call[<<t, i>>].pc = "ok" /\ Become(t, [tab[t] EXCEPT !.jobs[i].kind = "enter"])
     \/ call[<<t, i>>].pc = "refused" /\ UNCHANGED tab
  /\ call' = [call EXCEPT ![<<t, i>>] = NoCall]
  /\ UNCHANGED <<users, stored>>

\* The registration is answered; a success goes on to the login.
AnswerRegister(t, i) ==
  /\ Submitting(t, i, "register")
  /\ \/ /\ \/ /\ call[<<t, i>>].pc = "ok"
              /\ Become(t, [tab[t] EXCEPT !.jobs[i].kind = "enter"])
           \/ /\ call[<<t, i>>].pc = "refused"
              /\ Become(t, [tab[t] EXCEPT !.jobs[i] = NoJob])
        /\ call' = [call EXCEPT ![<<t, i>>] = NoCall]
        /\ UNCHANGED stored
     \/ Fail(t, i) /\ UNCHANGED call
  /\ UNCHANGED users

AnswerEnter(t, i) ==
  /\ Submitting(t, i, "enter")
  /\ \/ Authenticates(tab[t].jobs[i].name) /\ Enter(t, i)
     \/ "db" \in Faults /\ Rejected(t)
     \/ Fail(t, i)
  /\ UNCHANGED <<users, call>>

JobStep(t, i) == AnswerLogin(t, i) \/ AnswerRegister(t, i) \/ AnswerEnter(t, i)

-----------------------------------------------------------------------------
(* The specification *)

Late(s) == IF "valid" \in s.api THEN [s EXCEPT !.api = (@ \ {"valid"}) \cup {"over"}] ELSE s

\* The 24 hours of the stored token are over, and of the older ones on the wire.
Expire(b) ==
  /\ stored[b] = "valid"
  /\ stored' = [stored EXCEPT ![b] = "over"]
  /\ tab' = [t \in Tab |-> IF BrowserOf[t] = b THEN Late(tab[t]) ELSE tab[t]]
  /\ UNCHANGED <<users, call>>

\* ... those of an older one only, which a request still carries.
ExpireRequest(t) ==
  /\ "valid" \in tab[t].api
  /\ Become(t, Late(tab[t]))
  /\ UNCHANGED <<users, call, stored>>

ServerStep(c) ==
  /\ \/ RegisterStep(c)
     \/ ForgetCall(c) /\ (c \in Tab \X Slot => ~Submitting(c[1], c[2], "register"))
  /\ UNCHANGED <<tab, stored>>

\* Anybody may send a registration: the route asks for no token.
RegisterElsewhere(c) ==
  /\ \E n \in Name : PostRegister(c, n)
  /\ UNCHANGED <<users, tab, stored>>

PersonStep(t) ==
  \/ \E p \in Path : Open(t, p)
  \/ \E p \in BackPath : Back(t, p)
  \/ \E p \in AdminPath : OpenMenu(t, p)
  \/ Logout(t) \/ AdminLogin(t)
  \/ \E i \in Slot, n \in Name \cup {NoName} : SubmitLogin(t, i, n)
  \/ \E i \in Slot, n \in Name : SubmitSetup(t, i, n)

TabStep(t) ==
  \/ \E g \in Checks(tab[t]) : GuardStep(t, g)
  \/ Refetch(t)
  \/ \E k \in tab[t].api : AnswerApi(t, k)
  \/ \E i \in Slot : JobStep(t, i)

Init ==
  /\ users = [n \in Name |-> "none"]
  /\ call = [c \in Client |-> NoCall]
  /\ tab \in [Tab -> {Loaded(p) : p \in Path}]
  /\ stored = [b \in Browser |-> "none"]

Next ==
  \/ \E t \in Tab : PersonStep(t) \/ TabStep(t)
  \/ \E c \in Elsewhere : RegisterElsewhere(c)
  \/ \E c \in Client : ServerStep(c)
  \/ \E b \in Browser : Expire(b)
  \/ \E t \in Tab : ExpireRequest(t)

Spec == Init /\ [][Next]_vars

\* Requests are answered, the dashboard's timer fires, the server works.
\* Nobody has to type anything, and a token need not expire.
Fairness ==
  /\ \A c \in Client : WF_vars(ServerStep(c))
  /\ \A t \in Tab :
    /\ WF_vars(\E g \in Checks(tab[t]) : GuardStep(t, g))
    /\ WF_vars(\E k \in tab[t].api : AnswerApi(t, k))
    /\ WF_vars(Refetch(t))
    /\ \A i \in Slot : WF_vars(JobStep(t, i))

FairSpec == Spec /\ Fairness

-----------------------------------------------------------------------------
TypeOK ==
  /\ users \in [Name -> Role]
  /\ call \in [Client -> CallState]
  /\ tab \in [Tab -> TabState]
  /\ stored \in [Browser -> Token]

(* Safety *)

\* However registrations overlap, fail or are abandoned, an installation that
\* has users has an administrator: nobody can lock the others out by being
\* second (auth_service.go:46-55).
AdminExists == (\E n \in Name : users[n] # "none") => \E n \in Name : users[n] = "admin"

\* While there is no user, a tab whose checks are all answered shows the set-up
\* form, whatever path it was opened on and wherever its checks found it.  A
\* check that failed shows the page instead (SystemGuard.tsx:12-34).
SetupComesFirst ==
  \A t \in Tab :
    SetupRequired /\ ~tab[t].checking /\ Checks(tab[t]) = {} /\ ~tab[t].blind
      => tab[t].path = "/setup"

\* The form of the second call of set-up belongs to a user the first one has
\* created: the automatic login cannot meet an unknown user (Setup.tsx:32-43).
SetupEntersOwnAccount ==
  \A t \in Tab, i \in Slot :
    Submitting(t, i, "enter") => users[tab[t].jobs[i].name] # "none"

\* Nobody waits for nothing: while the loader is shown a check is under way that
\* will take it away, whatever other checks, reloads and failures came between,
\* and while a set-up form is registering its registration is being served
\* (SystemGuard.tsx:12-30, Setup.tsx:29-52).
WaitsForAnswers ==
  \A t \in Tab :
    /\ tab[t].checking => Checks(tab[t]) # {}
    /\ \A i \in Slot : Submitting(t, i, "register") =>
         call[<<t, i>>].pc # "idle" /\ call[<<t, i>>].name = tab[t].jobs[i].name

(* Liveness *)

\* The loader always gives way to a page, even when the check fails
\* (SystemGuard.tsx:28-30).
LoaderEnds == \A t \in Tab : tab[t].checking ~> ~tab[t].checking

\* A tab that is back on the set-up form, sent by an answer older than the
\* first user, leaves it again (SystemGuard.tsx:21-25).
SetupIsLeft ==
  \A t \in Tab :
    ~SetupRequired /\ tab[t].path = "/setup" /\ Asked("/setup") \in Checks(tab[t])
      ~> tab[t].path # "/setup" \/ tab[t].blind

\* A dashboard without a session, because the token expired or was never there,
\* does not stay: its next request is refused and the tab is loaded anew, also
\* when it is the late refusal of an older token, unless somebody logs in first
\* (api.ts:18-27, Dashboard.tsx:51).
SignedOutLeaves ==
  \A t \in Tab :
    tab[t].path = "/dashboard" /\ ~Accepted(TokenOf(t))
      ~> tab[t].path # "/dashboard" \/ Accepted(TokenOf(t)) \/ tab[t].checking

\* Every submitted form comes to an end: the button is enabled again or the
\* form is gone (Login.tsx:31-39, Setup.tsx:29-52).
FormsEnd ==
  \A t \in Tab, i \in Slot : tab[t].jobs[i] # NoJob ~> tab[t].jobs[i] = NoJob
=============================================================================
