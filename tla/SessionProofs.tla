--------------------------- MODULE SessionProofs ---------------------------
(***************************************************************************)
(* Theorems about WebSession, for any number of tabs, browsers, names and  *)
(* registrations from elsewhere: the type invariant, and the safety        *)
(* properties with the strengthening that makes them inductive.            *)
(***************************************************************************)
EXTENDS WebSession, TLAPS

(* The inductive invariant *)

\* What is true of a tab while no user exists: no check has been answered
\* otherwise, and if the tab is not on the set-up form a check is under way
\* that will send it there, unless one failed.
Guarded(s) ==
  /\ \A g \in Checks(s) : g.answer # "ready"
  /\ s.path # "/setup" /\ ~s.blind => \E g \in Checks(s) : ~g.form

\* A registration has a name; whoever is about to become a guest has seen a user.
CallFine(c) ==
  /\ call[c].pc # "idle" => call[c].name \in Name
  /\ call[c].pc = "create" => call[c].role \in {"guest", "admin"}
  /\ call[c].pc = "create" /\ call[c].role = "guest" => ~SetupRequired
  /\ call[c].pc = "ok" => users[call[c].name] # "none"

\* The form of set-up and the registration it has sent go together.
FormFine(t, i) ==
  /\ Submitting(t, i, "register") =>
       call[<<t, i>>].pc # "idle" /\ call[<<t, i>>].name = tab[t].jobs[i].name
  /\ Submitting(t, i, "enter") =>
       tab[t].jobs[i].name \in Name /\ users[tab[t].jobs[i].name] # "none"

SInv ==
  /\ TypeOK
  /\ AdminExists
  /\ \A c \in Client : CallFine(c)
  /\ \A t \in Tab, i \in Slot : FormFine(t, i)
  /\ SetupRequired => \A t \in Tab : Guarded(tab[t])

\* What may be left of the job k of a form when nothing is answered: it is over, or
\* goes on, on the screen or not; a login may begin.
Kept(j, k) == j.kind \in {"none", "login"} \/ (j.kind = k.kind /\ j.name = k.name)

JobsKept(r, s) == \A i \in Slot : Kept(r.jobs[i], s.jobs[i])

-----------------------------------------------------------------------------
(* Where a tab goes *)

LEMMA PathHas == {"/", "/login", "/setup", "/dashboard"} \subseteq Path
BY SessionAssumption DEF Path

LEMMA AskedTyped ==
  ASSUME NEW p
  PROVE  /\ Asked(p) \in GuardCheck /\ Asked(p).form = (p = "/setup")
         /\ Asked(p).answer = "asked"
BY DEF Asked, GuardCheck

LEMMA NoJobTyped == NoJob \in Job /\ NoJob.kind = "none"
BY DEF NoJob, Job

LEMMA KeptSelf == \A s : JobsKept(s, s)
BY DEF JobsKept, Kept

\* One more check.
LEMMA AskFine ==
  ASSUME NEW s \in TabState, NEW p \in Path
  PROVE  /\ Ask(s, p) \in TabState /\ Ask(s, p).path = p
         /\ Ask(s, p).jobs = s.jobs /\ Ask(s, p).blind = s.blind
         /\ Ask(s, p).checking = s.checking /\ Ask(s, p).api = s.api
         /\ Checks(Ask(s, p)) = Checks(s) \cup {Asked(p)}
<1> DEFINE a == Asked(p)
           w == [s.guard EXCEPT ![a] = @ + 1]
<1>1. a \in GuardCheck /\ s.guard \in [GuardCheck -> Nat]
  BY AskedTyped DEF TabState
<1>2. w \in [GuardCheck -> Nat] /\ {g \in GuardCheck : w[g] > 0} = {g \in GuardCheck : s.guard[g] > 0} \cup {a}
  BY <1>1
<1>3. Ask(s, p) = [s EXCEPT !.path = p, !.guard = w]
  BY DEF Ask
<1> HIDE DEF w, a
<1>4. /\ Ask(s, p) \in TabState /\ Ask(s, p).path = p /\ Ask(s, p).guard = w
      /\ Ask(s, p).jobs = s.jobs /\ Ask(s, p).blind = s.blind
      /\ Ask(s, p).checking = s.checking /\ Ask(s, p).api = s.api
  BY <1>2, <1>3 DEF TabState
<1>5. QED
  BY <1>2, <1>4 DEF Checks, a

\* One check less, and maybe a failure.
LEMMA TakeFine ==
  ASSUME NEW s \in TabState, NEW g \in Checks(s), NEW b \in BOOLEAN
  PROVE  LET r == [s EXCEPT !.guard[g] = @ - 1, !.blind = b]
         IN  /\ r \in TabState /\ r.path = s.path /\ r.jobs = s.jobs
             /\ r.blind = b /\ r.checking = s.checking
             /\ Checks(r) \subseteq Checks(s) /\ Checks(s) \ {g} \subseteq Checks(r)
<1> DEFINE w == [s.guard EXCEPT ![g] = @ - 1]
           r == [s EXCEPT !.guard = w, !.blind = b]
<1>1. g \in GuardCheck /\ s.guard \in [GuardCheck -> Nat] /\ s.guard[g] > 0
  BY DEF TabState, Checks
<1>2. w \in [GuardCheck -> Nat] /\ \A h \in GuardCheck : h # g => w[h] = s.guard[h]
  BY <1>1
<1> HIDE DEF w
<1>3. /\ r \in TabState /\ r.path = s.path /\ r.jobs = s.jobs /\ r.guard = w
      /\ r.blind = b /\ r.checking = s.checking
  BY <1>2 DEF TabState
<1>4. Checks(r) \subseteq Checks(s) /\ Checks(s) \ {g} \subseteq Checks(r)
  BY <1>1, <1>2, <1>3 DEF Checks
<1>5. [s EXCEPT !.guard[g] = @ - 1, !.blind = b] = r
  BY DEF w
<1>6. QED
  BY <1>3, <1>4, <1>5

LEMMA TakeOnly ==
  ASSUME NEW s \in TabState, NEW g \in Checks(s)
  PROVE  LET r == [s EXCEPT !.guard[g] = @ - 1]
         IN  /\ r \in TabState /\ r.path = s.path /\ r.jobs = s.jobs
             /\ r.blind = s.blind /\ r.checking = s.checking
             /\ Checks(r) \subseteq Checks(s) /\ Checks(s) \ {g} \subseteq Checks(r)
<1> DEFINE w == [s.guard EXCEPT ![g] = @ - 1]
           r == [s EXCEPT !.guard = w]
<1>1. g \in GuardCheck /\ s.guard \in [GuardCheck -> Nat] /\ s.guard[g] > 0
  BY DEF TabState, Checks
<1>2. w \in [GuardCheck -> Nat] /\ \A h \in GuardCheck : h # g => w[h] = s.guard[h]
  BY <1>1
<1> HIDE DEF w
<1>3. /\ r \in TabState /\ r.path = s.path /\ r.jobs = s.jobs /\ r.guard = w
      /\ r.blind = s.blind /\ r.checking = s.checking
  BY <1>2 DEF TabState
<1>4. Checks(r) \subseteq Checks(s) /\ Checks(s) \ {g} \subseteq Checks(r)
  BY <1>1, <1>2, <1>3 DEF Checks
<1>5. [s EXCEPT !.guard[g] = @ - 1] = r
  BY DEF w
<1>6. QED
  BY <1>3, <1>4, <1>5

LEMMA LoadedFine ==
  ASSUME NEW p \in Path
  PROVE  /\ Loaded(p) \in TabState /\ \A i \in Slot : Loaded(p).jobs[i] = NoJob
         /\ Guarded(Loaded(p)) /\ \A s : JobsKept(Loaded(p), s)
         /\ Asked(p) \in Checks(Loaded(p))
<1> DEFINE js == [i \in Slot |-> NoJob]
           w == [g \in GuardCheck |-> IF g = Asked(p) THEN 1 ELSE 0]
<1>1. js \in [Slot -> Job] /\ \A i \in Slot : js[i] = NoJob
  BY NoJobTyped
<1>2. w \in [GuardCheck -> Nat] /\ {g \in GuardCheck : w[g] > 0} = {Asked(p)}
  BY AskedTyped
<1>3. Loaded(p) = [path |-> p, checking |-> TRUE, api |-> {}, jobs |-> js, guard |-> w,
                   blind |-> FALSE]
  BY DEF Loaded
<1> HIDE DEF js, w
<1>4. /\ Loaded(p) \in TabState /\ Loaded(p).jobs = js /\ Loaded(p).guard = w
      /\ Loaded(p).path = p
  BY <1>1, <1>2, <1>3 DEF TabState
<1>5. Checks(Loaded(p)) = {Asked(p)}
  BY <1>2, <1>4 DEF Checks
<1>6. Guarded(Loaded(p))
  BY <1>4, <1>5, AskedTyped DEF Guarded
<1>7. \A s : JobsKept(Loaded(p), s)
  BY <1>1, <1>4, NoJobTyped DEF JobsKept, Kept
<1>8. QED
  BY <1>1, <1>4, <1>5, <1>6, <1>7

\* Asking again keeps a tab guarded.
LEMMA AskGuarded ==
  ASSUME NEW s \in TabState, NEW p \in Path, Guarded(s)
  PROVE  Guarded(Ask(s, p))
<1> DEFINE n == Ask(s, p)
<1>1. n.path = p /\ n.blind = s.blind /\ Checks(n) = Checks(s) \cup {Asked(p)}
  BY AskFine
<1>2. Asked(p).answer = "asked" /\ (p # "/setup" => ~Asked(p).form)
  BY AskedTyped
<1> HIDE DEF n
<1>3. QED
  BY <1>1, <1>2 DEF Guarded, n

\* Mounting a page keeps the forms and loses no check.
LEMMA MountedFine ==
  ASSUME NEW s \in TabState, NEW k \in Token
  PROVE  /\ Mounted(s, k) \in TabState /\ Mounted(s, k).jobs = s.jobs
         /\ Guarded(s) => Guarded(Mounted(s, k))
         /\ Mounted(s, k).checking = s.checking /\ Checks(s) \subseteq Checks(Mounted(s, k))
<1>1. CASE s.path = "/login" /\ k # "none"
  <2> DEFINE d == Ask(s, "/dashboard")
             n == [d EXCEPT !.api = @ \cup {k}]
  <2>1. Mounted(s, k) = n
    BY <1>1 DEF Mounted
  <2>2. /\ d \in TabState /\ d.jobs = s.jobs /\ d.checking = s.checking
        /\ Checks(s) \subseteq Checks(d) /\ (Guarded(s) => Guarded(d))
    BY PathHas, AskFine, AskGuarded
  <2> HIDE DEF d
  <2>3. /\ n \in TabState /\ n.jobs = d.jobs /\ n.checking = d.checking
        /\ n.guard = d.guard /\ n.path = d.path /\ n.blind = d.blind
    BY <2>2 DEF TabState
  <2>4. QED
    BY <2>1, <2>2, <2>3 DEF Guarded, Checks
<1>2. CASE ~(s.path = "/login" /\ k # "none") /\ s.path \in AdminPath
  <2> DEFINE n == [s EXCEPT !.api = @ \cup {k}]
  <2>1. Mounted(s, k) = n
    BY <1>2 DEF Mounted
  <2>2. n \in TabState /\ n.jobs = s.jobs /\ n.guard = s.guard /\ n.path = s.path
        /\ n.blind = s.blind /\ n.checking = s.checking
    BY DEF TabState
  <2>3. QED
    BY <2>1, <2>2 DEF Guarded, Checks
<1>3. CASE ~(s.path = "/login" /\ k # "none") /\ s.path \notin AdminPath
  BY <1>3 DEF Mounted
<1>4. QED
  BY <1>1, <1>2, <1>3

\* Forms that are unmounted go on.
LEMMA GoneFine ==
  ASSUME NEW s \in TabState
  PROVE  LET n == [s EXCEPT !.jobs = Gone(@)]
         IN  /\ n \in TabState /\ n.path = s.path /\ n.guard = s.guard
             /\ n.blind = s.blind /\ n.checking = s.checking /\ JobsKept(n, s)
<1>1. s.jobs \in [Slot -> Job]
  BY DEF TabState
<1>2. Gone(s.jobs) \in [Slot -> Job]
      /\ \A i \in Slot : Kept(Gone(s.jobs)[i], s.jobs[i])
  <2>1. ASSUME NEW i \in Slot
        PROVE  Gone(s.jobs)[i] \in Job /\ Kept(Gone(s.jobs)[i], s.jobs[i])
    <3>1. CASE s.jobs[i] = NoJob
      BY <3>1, NoJobTyped DEF Gone, Kept
    <3>2. CASE s.jobs[i] # NoJob
      <4> DEFINE k == s.jobs[i]
                 j == [k EXCEPT !.gone = TRUE]
      <4>1. Gone(s.jobs)[i] = j
        BY <3>2 DEF Gone
      <4>2. j \in Job /\ j.kind = k.kind /\ j.name = k.name
        BY <1>1 DEF Job
      <4>3. QED
        BY <4>1, <4>2 DEF Kept
    <3>3. QED
      BY <3>1, <3>2
  <2>2. QED
    BY <2>1 DEF Gone
<1> DEFINE js == Gone(s.jobs)
           n == [s EXCEPT !.jobs = js]
<1> HIDE DEF js
<1>3. /\ n \in TabState /\ n.jobs = js /\ n.path = s.path /\ n.guard = s.guard
      /\ n.blind = s.blind /\ n.checking = s.checking
  BY <1>2 DEF TabState, js
<1>4. QED
  BY <1>2, <1>3 DEF JobsKept, js

\* Navigating asks again, so the new path is guarded too.
LEMMA MovedFine ==
  ASSUME NEW s \in TabState, NEW p \in Path, NEW k \in Token
  PROVE  /\ Moved(s, p, k) \in TabState /\ JobsKept(Moved(s, p, k), s)
         /\ Guarded(s) => Guarded(Moved(s, p, k))
         /\ Moved(s, p, k).checking = s.checking /\ Checks(s) \subseteq Checks(Moved(s, p, k))
<1> DEFINE a == Ask(s, p)
           n == [a EXCEPT !.jobs = Gone(@)]
<1>1. a \in TabState /\ a.jobs = s.jobs /\ a.checking = s.checking
      /\ Checks(s) \subseteq Checks(a) /\ (Guarded(s) => Guarded(a))
  BY AskFine, AskGuarded
<1>2. /\ n \in TabState /\ n.path = a.path /\ n.guard = a.guard
      /\ n.blind = a.blind /\ n.checking = a.checking /\ JobsKept(n, a)
  BY <1>1, GoneFine
<1>3. Moved(s, p, k) \in {s, n, Mounted(n, k)}
  BY DEF Moved
<1> HIDE DEF n
<1>4. JobsKept(n, s) /\ (Guarded(s) => Guarded(n)) /\ Checks(n) = Checks(a)
      /\ n.checking = s.checking
  BY <1>1, <1>2 DEF JobsKept, Guarded, Checks
<1>5. /\ Mounted(n, k) \in TabState /\ JobsKept(Mounted(n, k), s)
      /\ Guarded(n) => Guarded(Mounted(n, k))
      /\ Mounted(n, k).checking = n.checking /\ Checks(n) \subseteq Checks(Mounted(n, k))
  BY <1>2, <1>4, MountedFine DEF JobsKept
<1>6. QED
  BY <1>1, <1>2, <1>3, <1>4, <1>5, KeptSelf

LEMMA SettledFine ==
  ASSUME NEW s \in TabState, NEW k \in Token
  PROVE  /\ Settled(s, k) \in TabState /\ Settled(s, k).jobs = s.jobs
         /\ Guarded(s) => Guarded(Settled(s, k))
         /\ ~Settled(s, k).checking
<1> DEFINE n == [s EXCEPT !.checking = FALSE]
<1>1. n \in TabState /\ n.jobs = s.jobs /\ ~n.checking /\ n.guard = s.guard
      /\ n.path = s.path /\ n.blind = s.blind
  BY DEF TabState
<1>2. Guarded(s) => Guarded(n)
  BY <1>1 DEF Guarded, Checks
<1>3. Settled(s, k) = IF s.checking THEN Mounted(n, k) ELSE s
  BY DEF Settled
<1> HIDE DEF n
<1>4. QED
  BY <1>1, <1>2, <1>3, MountedFine

\* A check that is applied while no user exists takes the tab to the form, or
\* was asked from there.
LEMMA AppliedFine ==
  ASSUME NEW s \in TabState, NEW g \in Checks(s), NEW k \in Token
  PROVE  LET r == [s EXCEPT !.guard[g] = @ - 1]
             n == Settled(Moved(r, Redirect(r, g), k), k)
         IN  /\ n \in TabState /\ JobsKept(n, s) /\ ~n.checking
             /\ Guarded(s) /\ g.answer = "setup" => Guarded(n)
<1> DEFINE r == [s EXCEPT !.guard[g] = @ - 1]
           q == Redirect(r, g)
           w == Moved(r, q, k)
<1>1. r \in TabState /\ r.jobs = s.jobs /\ r.path = s.path /\ r.blind = s.blind
      /\ Checks(r) \subseteq Checks(s) /\ Checks(s) \ {g} \subseteq Checks(r)
  BY TakeOnly
<1> HIDE DEF r
<1>2. q \in Path
  BY <1>1, PathHas DEF Redirect, TabState
<1>3. w \in TabState /\ JobsKept(w, r) /\ (Guarded(r) => Guarded(w))
  BY <1>1, <1>2, MovedFine
<1>4. ASSUME Guarded(s), g.answer = "setup" PROVE Guarded(w)
  <2>1. CASE g.form
    BY <1>1, <1>3, <1>4, <2>1 DEF Guarded
  <2>2. CASE ~g.form
    <3> DEFINE a == Ask(r, "/setup")
               n == [a EXCEPT !.jobs = Gone(@)]
    <3>1. q = "/setup"
      BY <1>4, <2>2 DEF Redirect
    <3>2. \A h \in Checks(r) : h.answer # "ready"
      BY <1>1, <1>4 DEF Guarded
    <3>3. CASE r.path = "/setup"
      BY <3>1, <3>2, <3>3 DEF Moved, Guarded
    <3>4. CASE r.path # "/setup"
      <4>1. /\ a \in TabState /\ a.path = "/setup"
            /\ Checks(a) = Checks(r) \cup {Asked("/setup")}
        BY <1>1, PathHas, AskFine
      <4>2. n \in TabState /\ n.path = "/setup" /\ n.guard = a.guard
        BY <4>1, GoneFine
      <4>3. Guarded(n)
        BY <3>2, <4>1, <4>2, AskedTyped DEF Guarded, Checks
      <4>4. w \in {n, Mounted(n, k)}
        BY <3>1, <3>4 DEF Moved
      <4>5. QED
        BY <4>2, <4>3, <4>4, MountedFine
    <3>5. QED
      BY <3>3, <3>4
  <2>3. QED
    BY <2>1, <2>2
<1> HIDE DEF w
<1>5. /\ Settled(w, k) \in TabState /\ Settled(w, k).jobs = w.jobs /\ ~Settled(w, k).checking
      /\ Guarded(w) => Guarded(Settled(w, k))
  BY <1>3, SettledFine
<1>6. JobsKept(Settled(w, k), s)
  BY <1>1, <1>3, <1>5 DEF JobsKept
<1>7. QED
  BY <1>4, <1>5, <1>6 DEF r, w

-----------------------------------------------------------------------------
(* Steps *)

LEMMA TokenTyped ==
  ASSUME TypeOK, NEW t \in Tab
  PROVE  TokenOf(t) \in Token /\ tab[t] \in TabState
BY AccountsAssumption DEF TypeOK, TokenOf

LEMMA StoreTyped ==
  ASSUME TypeOK, NEW t \in Tab, NEW k \in Token, Store(t, k)
  PROVE  stored' \in [Browser -> Token]
BY DEF TypeOK, Store

\* The server is idle and one tab goes on, without sending a registration.
LEMMA OneTab ==
  ASSUME SInv, UNCHANGED <<users, call>>, NEW t \in Tab, NEW s \in TabState,
         Become(t, s), stored' \in [Browser -> Token],
         SetupRequired => Guarded(s), JobsKept(s, tab[t])
  PROVE  SInv'
<1>1. tab' = [tab EXCEPT ![t] = s] /\ tab \in [Tab -> TabState]
  BY DEF Become, SInv, TypeOK
<1>2. tab'[t] = s /\ \A u \in Tab \ {t} : tab'[u] = tab[u]
  BY <1>1
<1>3. TypeOK'
  BY <1>1 DEF SInv, TypeOK
<1>4. AdminExists'
  BY DEF SInv, AdminExists
<1>5. \A c \in Client : CallFine(c)'
  BY DEF SInv, CallFine, SetupRequired
<1>6. ASSUME NEW u \in Tab, NEW i \in Slot PROVE FormFine(u, i)'
  <2>1. FormFine(u, i)
    BY DEF SInv
  <2>2. CASE u # t
    BY <1>2, <2>1, <2>2 DEF FormFine, Submitting
  <2>3. CASE u = t
    BY <1>2, <2>1, <2>3 DEF FormFine, Submitting, JobsKept, Kept
  <2>4. QED
    BY <2>2, <2>3
<1>7. SetupRequired' => \A u \in Tab : Guarded(tab[u])'
  <2> SUFFICES ASSUME SetupRequired', NEW u \in Tab PROVE Guarded(tab[u])'
    OBVIOUS
  <2>1. SetupRequired
    BY DEF SetupRequired
  <2>2. CASE u # t
    BY <1>2, <2>1, <2>2 DEF SInv, Guarded
  <2>3. CASE u = t
    BY <1>2, <2>1, <2>3 DEF Guarded
  <2>4. QED
    BY <2>2, <2>3
<1>8. QED
  BY <1>3, <1>4, <1>5, <1>6, <1>7 DEF SInv

LEMMA GuardedNow ==
  ASSUME SInv, NEW t \in Tab, SetupRequired PROVE Guarded(tab[t])
BY DEF SInv

\* The guard, a page load and the admin pages.
LEMMA OpenStep ==
  ASSUME SInv, NEW t \in Tab, NEW p \in Path, Open(t, p) PROVE SInv'
BY LoadedFine, OneTab DEF Open, SInv, TypeOK

LEMMA AnswerCheckStep ==
  ASSUME SInv, NEW t \in Tab, NEW g \in Checks(tab[t]), AnswerCheck(t, g) PROVE SInv'
<1> DEFINE a == IF SetupRequired THEN "setup" ELSE "ready"
           h == [g EXCEPT !.answer = a]
           w == [tab[t].guard EXCEPT ![g] = @ - 1, ![h] = @ + 1]
           s == [tab[t] EXCEPT !.guard = w]
<1>1. tab[t] \in TabState /\ g \in GuardCheck /\ tab[t].guard \in [GuardCheck -> Nat]
      /\ tab[t].guard[g] > 0 /\ g.answer = "asked"
  BY TokenTyped DEF SInv, TabState, Checks, AnswerCheck
<1>2. h \in GuardCheck /\ h.form = g.form /\ h.answer = a /\ h # g
  BY <1>1 DEF GuardCheck
<1> HIDE DEF h
<1>3. /\ w \in [GuardCheck -> Nat] /\ w[h] > 0
      /\ \A e \in GuardCheck \ {g, h} : w[e] = tab[t].guard[e]
  BY <1>1, <1>2
<1>4. Become(t, s) /\ UNCHANGED <<users, call, stored>>
  BY DEF AnswerCheck, h
<1> HIDE DEF w
<1>5. s \in TabState /\ s.jobs = tab[t].jobs /\ s.guard = w
      /\ s.path = tab[t].path /\ s.blind = tab[t].blind
  BY <1>1, <1>3 DEF TabState
<1>6. /\ Checks(s) \subseteq Checks(tab[t]) \cup {h} /\ h \in Checks(s)
      /\ Checks(tab[t]) \ {g} \subseteq Checks(s)
  BY <1>1, <1>2, <1>3, <1>5 DEF Checks
<1>7. ASSUME SetupRequired PROVE Guarded(s)
  <2>1. Guarded(tab[t]) /\ a = "setup"
    BY <1>7, GuardedNow
  <2>2. \A e \in Checks(s) : e.answer # "ready"
    BY <1>2, <1>6, <2>1 DEF Guarded
  <2>3. ASSUME s.path # "/setup", ~s.blind PROVE \E e \in Checks(s) : ~e.form
    <3>1. PICK e \in Checks(tab[t]) : ~e.form
      BY <1>5, <2>1, <2>3 DEF Guarded
    <3>2. QED
      BY <1>2, <1>6, <3>1
  <2>4. QED
    BY <2>2, <2>3 DEF Guarded
<1>8. JobsKept(s, tab[t])
  BY <1>5 DEF JobsKept, Kept
<1>9. QED
  BY <1>4, <1>5, <1>7, <1>8, OneTab DEF SInv, TypeOK

LEMMA ApplyCheckStep ==
  ASSUME SInv, NEW t \in Tab, NEW g \in Checks(tab[t]), ApplyCheck(t, g) PROVE SInv'
<1> DEFINE k == TokenOf(t)
           r == [tab[t] EXCEPT !.guard[g] = @ - 1]
           s == Settled(Moved(r, Redirect(r, g), k), k)
<1>1. tab[t] \in TabState /\ k \in Token
  BY TokenTyped DEF SInv
<1>2. s \in TabState /\ JobsKept(s, tab[t])
      /\ (Guarded(tab[t]) /\ g.answer = "setup" => Guarded(s))
  BY <1>1, AppliedFine
<1>3. g.answer \in {"asked", "setup", "ready"}
  BY DEF Checks, GuardCheck
<1>4. SetupRequired => g.answer = "setup"
  BY <1>3, GuardedNow DEF Guarded, ApplyCheck
<1>5. Become(t, s) /\ UNCHANGED <<users, call, stored>>
  BY DEF ApplyCheck
<1>6. QED
  BY <1>2, <1>4, <1>5, OneTab, GuardedNow DEF SInv, TypeOK

LEMMA FailCheckStep ==
  ASSUME SInv, NEW t \in Tab, NEW g \in Checks(tab[t]), FailCheck(t, g) PROVE SInv'
<1> DEFINE k == TokenOf(t)
           r == [tab[t] EXCEPT !.guard[g] = @ - 1, !.blind = TRUE]
<1>1. tab[t] \in TabState /\ k \in Token
  BY TokenTyped DEF SInv
<1>2. r \in TabState /\ r.jobs = tab[t].jobs /\ Checks(r) \subseteq Checks(tab[t]) /\ r.blind = TRUE
  <2>1. TRUE \in BOOLEAN
    OBVIOUS
  <2> HIDE DEF r
  <2>2. QED
    BY <1>1, <2>1, TakeFine DEF r
<1>3. Become(t, Settled(r, k)) /\ UNCHANGED <<users, call, stored>>
  BY DEF FailCheck
<1> HIDE DEF r
<1>4. SetupRequired => Guarded(r)
  BY <1>2, GuardedNow DEF Guarded
<1>5. Settled(r, k) \in TabState /\ JobsKept(Settled(r, k), tab[t])
      /\ (SetupRequired => Guarded(Settled(r, k)))
  BY <1>1, <1>2, <1>4, SettledFine DEF JobsKept, Kept
<1>6. QED
  BY <1>3, <1>5, OneTab DEF SInv, TypeOK

\* What requests and forms do to a tab besides navigating.
LEMMA SameView ==
  ASSUME SInv, NEW t \in Tab, NEW s \in TabState, s.guard = tab[t].guard,
         s.path = tab[t].path, s.blind = tab[t].blind
  PROVE  SetupRequired => Guarded(s)
BY GuardedNow DEF Guarded, Checks

LEMMA ApiTyped ==
  ASSUME SInv, NEW t \in Tab, NEW ks \in SUBSET Token
  PROVE  LET s == [tab[t] EXCEPT !.api = ks]
         IN  /\ s \in TabState /\ JobsKept(s, tab[t])
             /\ SetupRequired => Guarded(s)
<1> DEFINE s == [tab[t] EXCEPT !.api = ks]
<1>1. tab[t] \in TabState
  BY TokenTyped DEF SInv
<1>2. s \in TabState /\ s.jobs = tab[t].jobs /\ s.guard = tab[t].guard
      /\ s.path = tab[t].path /\ s.blind = tab[t].blind
  BY <1>1 DEF TabState
<1>3. QED
  BY <1>2, SameView DEF JobsKept, Kept

LEMMA JobTyped ==
  ASSUME SInv, NEW t \in Tab, NEW i \in Slot, NEW j \in Job
  PROVE  LET s == [tab[t] EXCEPT !.jobs[i] = j]
         IN  /\ s \in TabState /\ s.jobs[i] = j
             /\ \A l \in Slot \ {i} : s.jobs[l] = tab[t].jobs[l]
             /\ j.kind \in {"none", "login"} => JobsKept(s, tab[t])
             /\ SetupRequired => Guarded(s)
<1> DEFINE js == [tab[t].jobs EXCEPT ![i] = j]
           s == [tab[t] EXCEPT !.jobs = js]
<1>1. tab[t] \in TabState /\ tab[t].jobs \in [Slot -> Job]
  BY TokenTyped DEF SInv, TabState
<1>2. js \in [Slot -> Job] /\ js[i] = j /\ \A l \in Slot \ {i} : js[l] = tab[t].jobs[l]
  BY <1>1
<1>3. [tab[t] EXCEPT !.jobs[i] = j] = s
  OBVIOUS
<1> HIDE DEF js
<1>4. s \in TabState /\ s.jobs = js /\ s.guard = tab[t].guard
      /\ s.path = tab[t].path /\ s.blind = tab[t].blind
  BY <1>1, <1>2 DEF TabState
<1>5. j.kind \in {"none", "login"} => JobsKept(s, tab[t])
  BY <1>2, <1>4 DEF JobsKept, Kept
<1>6. QED
  BY <1>2, <1>3, <1>4, <1>5, SameView

LEMMA RefetchStep ==
  ASSUME SInv, NEW t \in Tab, Refetch(t) PROVE SInv'
<1>1. tab[t].api \cup {TokenOf(t)} \in SUBSET Token
  BY TokenTyped DEF SInv, TabState
<1>2. QED
  BY <1>1, ApiTyped, OneTab DEF Refetch, SInv, TypeOK

LEMMA RejectedStep ==
  ASSUME SInv, NEW t \in Tab, Rejected(t), UNCHANGED <<users, call>> PROVE SInv'
<1>1. stored' \in [Browser -> Token]
  BY StoreTyped DEF Rejected, SInv, Token
<1>2. Become(t, Loaded("/login"))
  BY DEF Rejected
<1>3. QED
  BY <1>1, <1>2, PathHas, LoadedFine, OneTab

LEMMA AnswerApiStep ==
  ASSUME SInv, NEW t \in Tab, NEW k \in tab[t].api, AnswerApi(t, k) PROVE SInv'
<1>1. tab[t].api \ {k} \in SUBSET Token
  BY TokenTyped DEF SInv, TabState
<1>2. CASE Rejected(t)
  BY <1>2, RejectedStep DEF AnswerApi
<1>3. CASE Become(t, [tab[t] EXCEPT !.api = @ \ {k}]) /\ UNCHANGED stored
  BY <1>1, <1>3, ApiTyped, OneTab DEF AnswerApi, SInv, TypeOK
<1>4. QED
  BY <1>2, <1>3 DEF AnswerApi

\* A navigation from s, the tab with its forms or without one of them.
LEMMA GoStep ==
  ASSUME SInv, UNCHANGED <<users, call>>, NEW t \in Tab, NEW s \in TabState, NEW p \in Path,
         NEW k \in Token, Become(t, Moved(s, p, k)), stored' \in [Browser -> Token],
         SetupRequired => Guarded(s), JobsKept(s, tab[t])
  PROVE  SInv'
<1>1. /\ Moved(s, p, k) \in TabState /\ JobsKept(Moved(s, p, k), s)
      /\ SetupRequired => Guarded(Moved(s, p, k))
  BY MovedFine
<1>2. JobsKept(Moved(s, p, k), tab[t])
  BY <1>1 DEF JobsKept, Kept
<1>3. QED
  BY <1>1, <1>2, OneTab

LEMMA NavigateStep ==
  ASSUME SInv, NEW t \in Tab,
         \/ \E p \in AdminPath : OpenMenu(t, p)
         \/ \E p \in BackPath : Back(t, p)
         \/ AdminLogin(t) \/ Logout(t)
  PROVE  SInv'
<1>1. tab[t] \in TabState /\ TokenOf(t) \in Token
  BY TokenTyped DEF SInv
<1>2. ASSUME NEW p \in Path, Go(t, tab[t], p), UNCHANGED <<users, call, stored>> PROVE SInv'
  BY <1>1, <1>2, GoStep, GuardedNow, KeptSelf DEF Go, SInv, TypeOK
<1>3. CASE (\E p \in AdminPath : OpenMenu(t, p)) \/ AdminLogin(t)
  BY <1>2, <1>3, PathHas DEF OpenMenu, AdminLogin, Path
<1>4. CASE \E p \in BackPath : Back(t, p)
  BY <1>2, <1>4, SessionAssumption DEF Back
<1>5. CASE Logout(t)
  <2>1. "none" \in Token /\ "/login" \in Path
    BY PathHas DEF Token
  <2>2. stored' \in [Browser -> Token]
    BY <1>5, <2>1, StoreTyped DEF Logout, SInv
  <2>3. QED
    BY <1>1, <1>5, <2>1, <2>2, GoStep, GuardedNow, KeptSelf DEF Logout
<1>6. QED
  BY <1>3, <1>4, <1>5

-----------------------------------------------------------------------------
(* The forms *)

LEMMA EnterStep ==
  ASSUME SInv, NEW t \in Tab, NEW i \in Slot, Enter(t, i), UNCHANGED <<users, call>>
  PROVE  SInv'
<1> DEFINE s == [tab[t] EXCEPT !.jobs[i] = NoJob]
<1>1. s \in TabState /\ JobsKept(s, tab[t]) /\ (SetupRequired => Guarded(s))
  BY NoJobTyped, JobTyped
<1>2. "valid" \in Token /\ "/dashboard" \in Path
  BY PathHas DEF Token
<1>3. stored' \in [Browser -> Token]
  BY <1>2, StoreTyped DEF Enter, SInv
<1>4. Become(t, Moved(s, "/dashboard", "valid"))
  BY DEF Enter
<1>5. QED
  BY <1>1, <1>2, <1>3, <1>4, GoStep

LEMMA FailStep ==
  ASSUME SInv, NEW t \in Tab, NEW i \in Slot, Fail(t, i), UNCHANGED <<users, call>>
  PROVE  SInv'
BY NoJobTyped, JobTyped, OneTab DEF Fail, SInv, TypeOK

LEMMA SubmitLoginStep ==
  ASSUME SInv, NEW t \in Tab, NEW i \in Slot, NEW n \in Name \cup {NoName},
         SubmitLogin(t, i, n)
  PROVE  SInv'
<1> DEFINE j == [kind |-> "login", name |-> n, gone |-> FALSE]
<1>1. j \in Job /\ j.kind = "login"
  BY DEF Job
<1>2. QED
  BY <1>1, JobTyped, OneTab DEF SubmitLogin, Submit, SInv, TypeOK

LEMMA LoginSteps ==
  ASSUME SInv, NEW t \in Tab, NEW i \in Slot, AnswerLogin(t, i) \/ AnswerEnter(t, i)
  PROVE  SInv'
BY EnterStep, FailStep, RejectedStep DEF AnswerLogin, AnswerEnter

\* One form and its call go on together.
LEMMA FormStep ==
  ASSUME SInv, NEW t \in Tab, NEW i \in Slot, NEW j \in Job, NEW d \in CallState,
         tab' = [tab EXCEPT ![t] = [tab[t] EXCEPT !.jobs[i] = j]],
         call' = [call EXCEPT ![<<t, i>>] = d], UNCHANGED <<users, stored>>,
         d.pc \in {"idle", "look"}, d.pc = "look" => d.name \in Name,
         j.kind = "register" => d.pc = "look" /\ d.name = j.name,
         j.kind = "enter" => j.name \in Name /\ users[j.name] # "none"
  PROVE  SInv'
<1> DEFINE s == [tab[t] EXCEPT !.jobs[i] = j]
           c == <<t, i>>
<1>1. call \in [Client -> CallState] /\ tab \in [Tab -> TabState] /\ c \in Client
  BY DEF SInv, TypeOK, Client
<1>2. /\ s \in TabState /\ s.jobs[i] = j /\ (SetupRequired => Guarded(s))
      /\ \A l \in Slot \ {i} : s.jobs[l] = tab[t].jobs[l]
  BY JobTyped
<1> HIDE DEF s
<1>3. /\ call'[c] = d /\ \A e \in Client \ {c} : call'[e] = call[e]
      /\ tab'[t] = s /\ \A u \in Tab \ {t} : tab'[u] = tab[u]
  BY <1>1 DEF s
<1>4. TypeOK'
  BY <1>1, <1>2 DEF SInv, TypeOK, s
<1>5. AdminExists'
  BY DEF SInv, AdminExists
<1>6. \A e \in Client : CallFine(e)'
  BY <1>1, <1>3 DEF SInv, CallFine, SetupRequired
<1>7. ASSUME NEW u \in Tab, NEW l \in Slot PROVE FormFine(u, l)'
  <2>1. CASE u = t /\ l = i
    <3>1. call'[<<u, l>>] = d /\ tab'[u].jobs[l] = j
      BY <1>2, <1>3, <2>1
    <3>2. QED
      BY <3>1 DEF FormFine, Submitting
  <2>2. CASE ~(u = t /\ l = i)
    <3>1. <<u, l>> # c /\ <<u, l>> \in Client
      BY <2>2 DEF Client
    <3>2. call'[<<u, l>>] = call[<<u, l>>] /\ tab'[u].jobs[l] = tab[u].jobs[l]
      BY <1>2, <1>3, <2>2, <3>1
    <3>3. FormFine(u, l)
      BY DEF SInv
    <3>4. QED
      BY <3>2, <3>3 DEF FormFine, Submitting
  <2>3. QED
    BY <2>1, <2>2
<1>8. SetupRequired' => \A u \in Tab : Guarded(tab[u])'
  <2> SUFFICES ASSUME SetupRequired', NEW u \in Tab PROVE Guarded(tab'[u])
    BY DEF Guarded, Checks
  <2>1. SetupRequired
    BY DEF SetupRequired
  <2>2. QED
    BY <1>2, <1>3, <2>1 DEF SInv
<1>9. QED
  BY <1>4, <1>5, <1>6, <1>7, <1>8 DEF SInv

\* Set-up sends its registration: the form and the call begin together.
LEMMA SubmitSetupStep ==
  ASSUME SInv, NEW t \in Tab, NEW i \in Slot, NEW n \in Name, SubmitSetup(t, i, n)
  PROVE  SInv'
<1> DEFINE j == [kind |-> "register", name |-> n, gone |-> FALSE]
           d == [pc |-> "look", name |-> n, role |-> "none"]
<1>1. j \in Job /\ j.kind = "register" /\ j.name = n
  BY DEF Job
<1>2. d \in CallState /\ d.pc = "look" /\ d.name = n
  BY DEF CallState, Role
<1>3. /\ tab' = [tab EXCEPT ![t] = [tab[t] EXCEPT !.jobs[i] = j]]
      /\ call' = [call EXCEPT ![<<t, i>>] = d] /\ UNCHANGED <<users, stored>>
  BY DEF SubmitSetup, Submit, PostRegister, Become
<1> HIDE DEF j, d
<1>4. QED
  BY <1>1, <1>2, <1>3, FormStep

LEMMA NoCallTyped == NoCall \in CallState /\ NoCall.pc = "idle"
BY DEF NoCall, CallState, Role

\* Its answer ends the call, and the form goes on only when the user is there.
LEMMA AnswerRegisterStep ==
  ASSUME SInv, NEW t \in Tab, NEW i \in Slot, AnswerRegister(t, i) PROVE SInv'
<1> DEFINE c == <<t, i>>
<1>1. tab[t] \in TabState /\ tab[t].jobs[i] \in Job /\ c \in Client /\ UNCHANGED users
  BY DEF SInv, TypeOK, TabState, AnswerRegister, Client
<1>2. CASE Fail(t, i) /\ UNCHANGED call
  BY <1>1, <1>2, FailStep
<1>3. CASE call[c].pc = "ok" /\ Become(t, [tab[t] EXCEPT !.jobs[i].kind = "enter"])
           /\ call' = [call EXCEPT ![c] = NoCall] /\ UNCHANGED stored
  <2> DEFINE k == tab[t].jobs[i]
             j == [k EXCEPT !.kind = "enter"]
  <2>1. j \in Job /\ j.kind = "enter" /\ j.name = k.name
    BY <1>1 DEF Job
  <2>2. tab' = [tab EXCEPT ![t] = [tab[t] EXCEPT !.jobs[i] = j]]
    BY <1>3 DEF Become
  <2>3. FormFine(t, i) /\ CallFine(c) /\ Submitting(t, i, "register")
    BY <1>1 DEF SInv, AnswerRegister
  <2>4. j.name \in Name /\ users[j.name] # "none"
    BY <1>3, <2>1, <2>3 DEF FormFine, CallFine
  <2> HIDE DEF j
  <2>5. QED
    BY <1>1, <1>3, <2>1, <2>2, <2>4, NoCallTyped, FormStep
<1>4. CASE Become(t, [tab[t] EXCEPT !.jobs[i] = NoJob])
           /\ call' = [call EXCEPT ![c] = NoCall] /\ UNCHANGED stored
  BY <1>1, <1>4, NoJobTyped, NoCallTyped, FormStep DEF Become
<1>5. QED
  BY <1>2, <1>3, <1>4 DEF AnswerRegister

-----------------------------------------------------------------------------
(* The server and the clock *)

\* A call changes, no tab does, and users are only added.
LEMMA CallStep ==
  ASSUME SInv, NEW c \in Client, NEW d \in CallState, call' = [call EXCEPT ![c] = d],
         users' \in [Name -> Role], AdminExists', UNCHANGED <<tab, stored>>,
         \A n \in Name : users[n] # "none" => users'[n] # "none",
         CallFine(c)',
         \/ d.pc # "idle" /\ d.name = call[c].name
         \/ c \in Tab \X Slot => ~Submitting(c[1], c[2], "register")
  PROVE  SInv'
<1>1. call \in [Client -> CallState]
  BY DEF SInv, TypeOK
<1>2. call'[c] = d /\ \A e \in Client \ {c} : call'[e] = call[e]
  BY <1>1
<1>3. TypeOK'
  BY <1>1 DEF SInv, TypeOK
<1>4. SetupRequired' => SetupRequired
  BY DEF SetupRequired
<1>5. ASSUME NEW e \in Client PROVE CallFine(e)'
  <2>1. CASE e = c
    BY <2>1
  <2>2. CASE e # c
    BY <1>2, <1>4, <2>2 DEF SInv, CallFine
  <2>3. QED
    BY <2>1, <2>2
<1>6. ASSUME NEW t \in Tab, NEW i \in Slot PROVE FormFine(t, i)'
  <2>1. FormFine(t, i) /\ <<t, i>> \in Client
    BY DEF SInv, Client
  <2>2. Submitting(t, i, "register")' =>
           call'[<<t, i>>].pc # "idle" /\ call'[<<t, i>>].name = tab'[t].jobs[i].name
    <3>1. CASE c = <<t, i>>
      BY <1>2, <2>1, <3>1 DEF FormFine, Submitting
    <3>2. CASE c # <<t, i>>
      BY <1>2, <2>1, <3>2 DEF FormFine, Submitting
    <3>3. QED
      BY <3>1, <3>2
  <2>3. Submitting(t, i, "enter")' =>
           tab'[t].jobs[i].name \in Name /\ users'[tab'[t].jobs[i].name] # "none"
    BY <2>1 DEF FormFine, Submitting
  <2>4. QED
    BY <2>2, <2>3 DEF FormFine
<1>7. SetupRequired' => \A t \in Tab : Guarded(tab[t])'
  BY <1>4 DEF SInv, Guarded, Checks
<1>8. QED
  BY <1>3, <1>5, <1>6, <1>7 DEF SInv

LEMMA LookUserStep ==
  ASSUME SInv, NEW c \in Client, LookUser(c), UNCHANGED <<tab, stored>> PROVE SInv'
<1>1. PICK p \in {"count", "refused"} : call' = [call EXCEPT ![c].pc = p]
  BY DEF LookUser, Refuse
<1> DEFINE d == [call[c] EXCEPT !.pc = p]
<1>2. call[c] \in CallState /\ CallFine(c) /\ call[c].pc = "look" /\ UNCHANGED users
  BY DEF SInv, TypeOK, LookUser
<1>3. d \in CallState /\ d.pc = p /\ d.name = call[c].name
  BY <1>2 DEF CallState
<1>4. call' = [call EXCEPT ![c] = d] /\ call'[c] = d
  BY <1>1 DEF SInv, TypeOK
<1>5. CallFine(c)'
  BY <1>2, <1>3, <1>4 DEF CallFine
<1>6. users' \in [Name -> Role] /\ AdminExists'
  BY <1>2 DEF SInv, TypeOK, AdminExists
<1>7. QED
  BY <1>2, <1>3, <1>4, <1>5, <1>6, CallStep

\* The role is decided by the count.
LEMMA CountUsersStep ==
  ASSUME SInv, NEW c \in Client, CountUsers(c), UNCHANGED <<tab, stored>> PROVE SInv'
<1>1. call[c] \in CallState /\ CallFine(c) /\ call[c].pc = "count" /\ UNCHANGED users
  BY DEF SInv, TypeOK, CountUsers
<1>2. users' \in [Name -> Role] /\ AdminExists'
  BY <1>1 DEF SInv, TypeOK, AdminExists
<1>3. ASSUME NEW d \in CallState, call' = [call EXCEPT ![c] = d], d.name = call[c].name,
             d.pc = "refused" \/ /\ d.pc = "create" /\ d.role \in {"guest", "admin"}
                                 /\ d.role = "guest" => ~SetupRequired
      PROVE  SInv'
  <2>1. call'[c] = d
    BY <1>3 DEF SInv, TypeOK
  <2>2. CallFine(c)'
    BY <1>1, <1>3, <2>1 DEF CallFine, SetupRequired
  <2>3. QED
    BY <1>1, <1>2, <1>3, <2>2, CallStep
<1>4. CASE call' = [call EXCEPT ![c].pc = "create",
                                ![c].role = IF SetupRequired THEN "admin" ELSE "guest"]
  <2> DEFINE d == [call[c] EXCEPT !.pc = "create",
                                  !.role = IF SetupRequired THEN "admin" ELSE "guest"]
  <2>1. d \in CallState /\ d.name = call[c].name /\ d.pc = "create"
        /\ d.role = IF SetupRequired THEN "admin" ELSE "guest"
    BY <1>1 DEF CallState, Role
  <2>2. call' = [call EXCEPT ![c] = d]
    BY <1>4 DEF SInv, TypeOK
  <2>3. d.role \in {"guest", "admin"} /\ (d.role = "guest" => ~SetupRequired)
    BY <2>1
  <2> HIDE DEF d
  <2>4. QED
    BY <1>3, <2>1, <2>2, <2>3
<1>5. CASE Refuse(c)
  <2> DEFINE d == [call[c] EXCEPT !.pc = "refused"]
  <2>1. d \in CallState /\ d.name = call[c].name /\ d.pc = "refused"
    BY <1>1 DEF CallState
  <2>2. call' = [call EXCEPT ![c] = d]
    BY <1>5 DEF Refuse, SInv, TypeOK
  <2>3. QED
    BY <1>3, <2>1, <2>2
<1>6. QED
  BY <1>4, <1>5 DEF CountUsers

\* The insert adds a user: an administrator, or a guest beside others.
LEMMA CreateUserStep ==
  ASSUME SInv, NEW c \in Client, CreateUser(c), UNCHANGED <<tab, stored>> PROVE SInv'
<1> DEFINE n == call[c].name
<1>1. call[c] \in CallState /\ CallFine(c) /\ call[c].pc = "create" /\ n \in Name
  BY DEF SInv, TypeOK, CreateUser, CallFine
<1>2. CASE users[n] = "none" /\ users' = [users EXCEPT ![n] = call[c].role]
           /\ call' = [call EXCEPT ![c].pc = "ok"]
  <2> DEFINE d == [call[c] EXCEPT !.pc = "ok"]
  <2>1. d \in CallState /\ d.name = n /\ d.pc = "ok"
    BY <1>1 DEF CallState
  <2>2. call' = [call EXCEPT ![c] = d] /\ call'[c] = d
    BY <1>2 DEF SInv, TypeOK
  <2>3. users \in [Name -> Role] /\ call[c].role \in {"guest", "admin"}
    BY <1>1 DEF SInv, TypeOK, CallFine
  <2>4. /\ users' \in [Name -> Role] /\ users'[n] = call[c].role
        /\ \A o \in Name \ {n} : users'[o] = users[o]
    BY <1>1, <1>2, <2>3 DEF Role
  <2>5. AdminExists'
    <3>1. CASE call[c].role = "admin"
      BY <1>1, <2>4, <3>1 DEF AdminExists
    <3>2. CASE call[c].role = "guest"
      <4>1. PICK a \in Name : users[a] = "admin"
        BY <1>1, <3>2 DEF CallFine, SetupRequired, SInv, AdminExists
      <4>2. users'[a] = "admin"
        BY <1>2, <2>4, <4>1
      <4>3. QED
        BY <4>2 DEF AdminExists
    <3>3. QED
      BY <2>3, <3>1, <3>2
  <2>6. \A o \in Name : users[o] # "none" => users'[o] # "none"
    BY <1>2, <2>4
  <2>7. CallFine(c)'
    BY <1>1, <2>1, <2>2, <2>3, <2>4 DEF CallFine
  <2>8. QED
    BY <2>1, <2>2, <2>4, <2>5, <2>6, <2>7, CallStep
<1>3. CASE Refuse(c) /\ UNCHANGED users
  <2> DEFINE d == [call[c] EXCEPT !.pc = "refused"]
  <2>1. d \in CallState /\ d.name = n /\ d.pc = "refused"
    BY <1>1 DEF CallState
  <2>2. call' = [call EXCEPT ![c] = d] /\ call'[c] = d
    BY <1>3 DEF Refuse, SInv, TypeOK
  <2>3. users' \in [Name -> Role] /\ AdminExists'
    BY <1>3 DEF SInv, TypeOK, AdminExists
  <2>4. CallFine(c)'
    BY <1>1, <2>1, <2>2 DEF CallFine
  <2>5. QED
    BY <1>3, <2>1, <2>2, <2>3, <2>4, CallStep
<1>4. QED
  BY <1>1, <1>2, <1>3 DEF CreateUser

LEMMA ServerStepHolds ==
  ASSUME SInv, NEW c \in Client, ServerStep(c) PROVE SInv'
<1>1. CASE RegisterStep(c)
  BY <1>1, LookUserStep, CountUsersStep, CreateUserStep DEF ServerStep, RegisterStep
<1>2. CASE ForgetCall(c) /\ (c \in Tab \X Slot => ~Submitting(c[1], c[2], "register"))
  <2>1. users' \in [Name -> Role] /\ AdminExists' /\ UNCHANGED users
    BY <1>2 DEF SInv, TypeOK, AdminExists, ForgetCall
  <2>2. call'[c] = NoCall /\ call' = [call EXCEPT ![c] = NoCall]
    BY <1>2 DEF SInv, TypeOK, ForgetCall
  <2>3. CallFine(c)'
    BY <2>2, NoCallTyped DEF CallFine
  <2>4. UNCHANGED <<tab, stored>>
    BY DEF ServerStep
  <2>5. QED
    BY <1>2, <2>1, <2>2, <2>3, <2>4, NoCallTyped, CallStep
<1>3. QED
  BY <1>1, <1>2 DEF ServerStep

LEMMA RegisterElsewhereStep ==
  ASSUME SInv, NEW c \in Elsewhere, RegisterElsewhere(c) PROVE SInv'
<1>1. PICK n \in Name : PostRegister(c, n)
  BY DEF RegisterElsewhere
<1> DEFINE d == [pc |-> "look", name |-> n, role |-> "none"]
<1>2. d \in CallState /\ d.pc = "look" /\ d.name = n /\ c \in Client
  BY DEF CallState, Role, Client
<1>3. call' = [call EXCEPT ![c] = d] /\ call'[c] = d /\ UNCHANGED <<users, tab, stored>>
  BY <1>1, <1>2 DEF PostRegister, SInv, TypeOK, RegisterElsewhere
<1>4. users' \in [Name -> Role] /\ AdminExists' /\ CallFine(c)'
  BY <1>2, <1>3 DEF SInv, TypeOK, AdminExists, CallFine
<1>5. c \notin Tab \X Slot
  BY AccountsAssumption
<1>6. QED
  BY <1>2, <1>3, <1>4, <1>5, CallStep

\* A token that runs out changes what requests carry and nothing else.
LEMMA LateFine ==
  ASSUME NEW s \in TabState
  PROVE  /\ Late(s) \in TabState /\ Late(s).jobs = s.jobs /\ JobsKept(Late(s), s)
         /\ Guarded(s) => Guarded(Late(s))
         /\ Late(s).checking = s.checking /\ Checks(Late(s)) = Checks(s)
<1> DEFINE n == [s EXCEPT !.api = (@ \ {"valid"}) \cup {"over"}]
<1>1. n \in TabState /\ n.jobs = s.jobs /\ n.guard = s.guard /\ n.path = s.path
      /\ n.blind = s.blind /\ n.checking = s.checking
  BY DEF TabState, Token
<1>2. Late(s) \in {s, n}
  BY DEF Late
<1>3. QED
  BY <1>1, <1>2, KeptSelf DEF Guarded, Checks, JobsKept, Kept

LEMMA ExpireStep ==
  ASSUME SInv, NEW b \in Browser, Expire(b) PROVE SInv'
<1>1. \A t \in Tab : tab'[t] \in {tab[t], Late(tab[t])}
  BY DEF Expire
<1>2. \A t \in Tab : /\ tab'[t] \in TabState /\ tab'[t].jobs = tab[t].jobs
                     /\ Guarded(tab[t]) => Guarded(tab'[t])
  BY <1>1, LateFine, TokenTyped DEF SInv
<1>3. UNCHANGED <<users, call>> /\ stored' \in [Browser -> Token] /\ tab' \in [Tab -> TabState]
  BY <1>2 DEF Expire, SInv, TypeOK, Token
<1>4. TypeOK'
  BY <1>3 DEF SInv, TypeOK
<1>5. AdminExists' /\ \A c \in Client : CallFine(c)'
  BY <1>3 DEF SInv, AdminExists, CallFine, SetupRequired
<1>6. \A t \in Tab, i \in Slot : FormFine(t, i)'
  BY <1>2, <1>3 DEF SInv, FormFine, Submitting
<1>7. SetupRequired' => \A t \in Tab : Guarded(tab[t])'
  BY <1>2, <1>3 DEF SInv, SetupRequired, Guarded, Checks
<1>8. QED
  BY <1>4, <1>5, <1>6, <1>7 DEF SInv

LEMMA ExpireRequestStep ==
  ASSUME SInv, NEW t \in Tab, ExpireRequest(t) PROVE SInv'
<1>1. tab[t] \in TabState
  BY TokenTyped DEF SInv
<1>2. QED
  BY <1>1, LateFine, GuardedNow, OneTab DEF ExpireRequest, SInv, TypeOK

-----------------------------------------------------------------------------
(* The theorems *)

LEMMA InitHolds == Init => SInv
<1> SUFFICES ASSUME Init PROVE SInv
  OBVIOUS
<1> USE DEF Init
<1>1. /\ tab \in [Tab -> TabState] /\ \A t \in Tab : Guarded(tab[t])
      /\ \A t \in Tab, i \in Slot : tab[t].jobs[i] = NoJob
  <2>1. \A t \in Tab : \E p \in Path : tab[t] = Loaded(p)
    OBVIOUS
  <2>2. \A t \in Tab : /\ tab[t] \in TabState /\ Guarded(tab[t])
                       /\ \A i \in Slot : tab[t].jobs[i] = NoJob
    BY <2>1, LoadedFine
  <2>3. tab \in [Tab -> TabState]
    BY <2>2
  <2>4. QED
    BY <2>2, <2>3
<1>2. TypeOK
  BY <1>1, NoCallTyped DEF TypeOK, Role, Token
<1>3. AdminExists
  BY DEF AdminExists
<1>4. \A c \in Client : CallFine(c)
  BY NoCallTyped DEF CallFine
<1>5. \A t \in Tab, i \in Slot : FormFine(t, i)
  BY <1>1, NoJobTyped DEF FormFine, Submitting
<1>6. QED
  BY <1>1, <1>2, <1>3, <1>4, <1>5 DEF SInv

LEMMA PersonHolds ==
  ASSUME SInv, NEW t \in Tab, PersonStep(t) PROVE SInv'
BY OpenStep, NavigateStep, SubmitLoginStep, SubmitSetupStep DEF PersonStep

LEMMA TabHolds ==
  ASSUME SInv, NEW t \in Tab, TabStep(t) PROVE SInv'
<1>1. ASSUME NEW g \in Checks(tab[t]), GuardStep(t, g) PROVE SInv'
  BY <1>1, AnswerCheckStep, ApplyCheckStep, FailCheckStep DEF GuardStep
<1>2. CASE Refetch(t)
  BY <1>2, RefetchStep
<1>3. ASSUME NEW k \in tab[t].api, AnswerApi(t, k) PROVE SInv'
  BY <1>3, AnswerApiStep
<1>4. ASSUME NEW i \in Slot, JobStep(t, i) PROVE SInv'
  BY <1>4, LoginSteps, AnswerRegisterStep DEF JobStep
<1>5. QED
  BY <1>1, <1>2, <1>3, <1>4 DEF TabStep

LEMMA StepHolds == SInv /\ [Next]_vars => SInv'
<1> SUFFICES ASSUME SInv, [Next]_vars PROVE SInv'
  OBVIOUS
<1>1. CASE Next
  BY <1>1, PersonHolds, TabHolds, RegisterElsewhereStep, ServerStepHolds, ExpireStep,
     ExpireRequestStep DEF Next
<1>2. CASE UNCHANGED vars
  BY <1>2 DEF vars, SInv, TypeOK, AdminExists, CallFine, FormFine, Submitting, SetupRequired,
              Guarded, Checks
<1>3. QED
  BY <1>1, <1>2

LEMMA SessionInvariant == Spec => []SInv
BY InitHolds, StepHolds, PTL DEF Spec

\* Every state of browsers, registrations and users is typed.
THEOREM SessionTypeCorrect == Spec => []TypeOK
<1>1. SInv => TypeOK
  BY DEF SInv
<1>2. QED
  BY <1>1, SessionInvariant, PTL

\* An installation with users has an administrator, however many registrations
\* overlap between their lookup, their count and their insert.
THEOREM AdminAlwaysExists == Spec => []AdminExists
<1>1. SInv => AdminExists
  BY DEF SInv
<1>2. QED
  BY <1>1, SessionInvariant, PTL

\* Without users, a tab that waits for no check shows the set-up form, in any
\* number of tabs and browsers, unless a check of its load failed.
THEOREM SetupAlwaysComesFirst == Spec => []SetupComesFirst
<1>1. SInv => SetupComesFirst
  BY DEF SInv, SetupComesFirst, Guarded
<1>2. QED
  BY <1>1, SessionInvariant, PTL

\* The automatic login of set-up is one of a user that its own registration
\* has found or made.
THEOREM SetupAlwaysEntersOwnAccount == Spec => []SetupEntersOwnAccount
<1>1. SInv => SetupEntersOwnAccount
  BY DEF SInv, FormFine, SetupEntersOwnAccount
<1>2. QED
  BY <1>1, SessionInvariant, PTL
-----------------------------------------------------------------------------
(* The loader *)

\* The loader is shown only while a check is under way.
Waits(s) == s.checking => Checks(s) # {}

\* A tab becomes s: the cases a step of a tab is made of.
LEMMA BecomeWaits ==
  ASSUME TypeOK, NEW t \in Tab, NEW s, Become(t, s), Waits(s),
         \A u \in Tab : Waits(tab[u])
  PROVE  \A u \in Tab : Waits(tab[u])'
<1>1. \A u \in Tab : tab'[u] = IF u = t THEN s ELSE tab[u]
  BY DEF Become, TypeOK
<1>2. QED
  BY <1>1 DEF Waits, Checks

\* Other fields of a tab do not matter.
LEMMA SameWaits ==
  ASSUME NEW s \in TabState, Waits(s), NEW j, NEW ks
  PROVE  Waits([s EXCEPT !.jobs = j]) /\ Waits([s EXCEPT !.api = ks])
BY DEF Waits, TabState, Checks

LEMMA GuardWaits ==
  ASSUME TypeOK, NEW t \in Tab, NEW g \in Checks(tab[t]), GuardStep(t, g),
         \A u \in Tab : Waits(tab[u])
  PROVE  \A u \in Tab : Waits(tab[u])'
<1> DEFINE k == TokenOf(t)
<1>1. tab[t] \in TabState /\ k \in Token
  BY TokenTyped
<1>2. CASE AnswerCheck(t, g)
  <2> DEFINE h == [g EXCEPT !.answer = IF SetupRequired THEN "setup" ELSE "ready"]
             w == [tab[t].guard EXCEPT ![g] = @ - 1, ![h] = @ + 1]
             s == [tab[t] EXCEPT !.guard = w]
  <2>1. g \in GuardCheck /\ g.answer = "asked" /\ tab[t].guard \in [GuardCheck -> Nat]
    BY <1>1, <1>2 DEF TabState, Checks, AnswerCheck
  <2>2. h \in GuardCheck /\ h # g
    BY <2>1 DEF GuardCheck
  <2>3. Become(t, s)
    BY <1>2 DEF AnswerCheck
  <2> HIDE DEF h
  <2>4. w[h] > 0
    BY <2>1, <2>2
  <2> HIDE DEF w
  <2>5. s.guard = w
    BY <1>1 DEF TabState
  <2>6. h \in Checks(s)
    BY <2>2, <2>4, <2>5 DEF Checks
  <2>7. QED
    BY <2>3, <2>6, BecomeWaits DEF Waits
<1>3. CASE ApplyCheck(t, g)
  BY <1>1, <1>3, AppliedFine, BecomeWaits DEF ApplyCheck, Waits
<1>4. CASE FailCheck(t, g)
  <2> DEFINE r == [tab[t] EXCEPT !.guard[g] = @ - 1, !.blind = TRUE]
  <2>1. TRUE \in BOOLEAN /\ Become(t, Settled(r, k))
    BY <1>4 DEF FailCheck
  <2>2. r \in TabState
    BY <1>1, <2>1, TakeFine
  <2> HIDE DEF r
  <2>3. QED
    BY <1>1, <2>1, <2>2, SettledFine, BecomeWaits DEF Waits
<1>5. QED
  BY <1>2, <1>3, <1>4 DEF GuardStep

LEMMA LoadedWaits == \A p \in Path : Waits(Loaded(p))
BY LoadedFine DEF Waits

LEMMA MovedWaits ==
  ASSUME NEW s \in TabState, NEW p \in Path, NEW k \in Token, Waits(s)
  PROVE  Waits(Moved(s, p, k))
BY MovedFine DEF Waits

LEMMA PersonWaits ==
  ASSUME TypeOK, NEW t \in Tab, PersonStep(t), \A u \in Tab : Waits(tab[u])
  PROVE  \A u \in Tab : Waits(tab[u])'
<1>1. tab[t] \in TabState /\ TokenOf(t) \in Token /\ "none" \in Token /\ Waits(tab[t])
  BY TokenTyped DEF Token
<1>2. ASSUME NEW p \in Path, Open(t, p) PROVE \A u \in Tab : Waits(tab[u])'
  BY <1>2, LoadedWaits, BecomeWaits DEF Open
<1>3. ASSUME NEW p \in Path, Go(t, tab[t], p) PROVE \A u \in Tab : Waits(tab[u])'
  BY <1>1, <1>3, MovedWaits, BecomeWaits DEF Go
<1>4. AdminPath \subseteq Path /\ "/login" \in Path /\ BackPath \subseteq Path
  BY PathHas, SessionAssumption DEF Path
<1>5. CASE Logout(t)
  BY <1>1, <1>4, <1>5, MovedWaits, BecomeWaits DEF Logout
<1>6. ASSUME NEW i \in Slot, NEW n, SubmitLogin(t, i, n) \/ SubmitSetup(t, i, n)
      PROVE  \A u \in Tab : Waits(tab[u])'
  BY <1>1, <1>6, SameWaits, BecomeWaits DEF SubmitLogin, SubmitSetup, Submit
<1>7. QED
  BY <1>2, <1>3, <1>4, <1>5, <1>6 DEF PersonStep, OpenMenu, AdminLogin, Back

LEMMA TabWaits ==
  ASSUME TypeOK, NEW t \in Tab, TabStep(t), \A u \in Tab : Waits(tab[u])
  PROVE  \A u \in Tab : Waits(tab[u])'
<1>1. tab[t] \in TabState /\ TokenOf(t) \in Token /\ "valid" \in Token /\ Waits(tab[t])
  BY TokenTyped DEF Token
<1>2. CASE \E g \in Checks(tab[t]) : GuardStep(t, g)
  BY <1>2, GuardWaits
<1>3. CASE Rejected(t)
  BY <1>3, PathHas, LoadedWaits, BecomeWaits DEF Rejected
<1>4. CASE Refetch(t)
  BY <1>1, <1>4, SameWaits, BecomeWaits DEF Refetch
<1>5. CASE \E k \in tab[t].api : AnswerApi(t, k)
  BY <1>1, <1>3, <1>5, SameWaits, BecomeWaits DEF AnswerApi
<1>6. ASSUME NEW i \in Slot, NEW j \in Job,
             Become(t, [tab[t] EXCEPT !.jobs[i] = j])
      PROVE  \A u \in Tab : Waits(tab[u])'
  <2>1. Waits([tab[t] EXCEPT !.jobs = [tab[t].jobs EXCEPT ![i] = j]])
    BY <1>1, SameWaits
  <2>2. QED
    BY <1>6, <2>1, BecomeWaits
<1>7. ASSUME NEW i \in Slot, Enter(t, i) PROVE \A u \in Tab : Waits(tab[u])'
  <2> DEFINE js == [tab[t].jobs EXCEPT ![i] = NoJob]
             s == [tab[t] EXCEPT !.jobs = js]
  <2>1. js \in [Slot -> Job] /\ Waits(s)
    BY <1>1, NoJobTyped, SameWaits DEF TabState
  <2>2. s \in TabState
    BY <1>1, <2>1 DEF TabState
  <2>3. Become(t, Moved(s, "/dashboard", "valid")) /\ "/dashboard" \in Path
    BY <1>7, PathHas DEF Enter
  <2> HIDE DEF s
  <2>4. QED
    BY <1>1, <2>1, <2>2, <2>3, MovedWaits, BecomeWaits
<1>8. ASSUME NEW i \in Slot, Become(t, [tab[t] EXCEPT !.jobs[i].kind = "enter"])
      PROVE  \A u \in Tab : Waits(tab[u])'
  <2> DEFINE j == [tab[t].jobs[i] EXCEPT !.kind = "enter"]
  <2>1. j \in Job
    BY <1>1 DEF TabState, Job
  <2>2. QED
    BY <1>6, <1>8, <2>1
<1>9. ASSUME NEW i \in Slot, JobStep(t, i) PROVE \A u \in Tab : Waits(tab[u])'
  BY <1>3, <1>6, <1>7, <1>8, <1>9, NoJobTyped
     DEF JobStep, AnswerLogin, AnswerRegister, AnswerEnter, Fail
<1>10. QED
  BY <1>2, <1>4, <1>5, <1>9 DEF TabStep

LEMMA WaitsStep ==
  ASSUME TypeOK, [Next]_vars, \A u \in Tab : Waits(tab[u])
  PROVE  \A u \in Tab : Waits(tab[u])'
<1>1. \A s \in TabState : Waits(s) => Waits(Late(s))
  BY LateFine DEF Waits
<1>2. ASSUME NEW b \in Browser, Expire(b) PROVE \A u \in Tab : Waits(tab[u])'
  <2>1. \A u \in Tab : tab'[u] \in {tab[u], Late(tab[u])}
    BY <1>2 DEF Expire
  <2>2. \A u \in Tab : Waits(tab'[u])
    BY <1>1, <2>1, TokenTyped
  <2>3. QED
    BY <2>2 DEF Waits, Checks
<1>3. ASSUME NEW t \in Tab, ExpireRequest(t) PROVE \A u \in Tab : Waits(tab[u])'
  BY <1>1, <1>3, TokenTyped, BecomeWaits DEF ExpireRequest
<1>4. UNCHANGED tab => \A u \in Tab : Waits(tab[u])'
  BY DEF Waits, Checks
<1>5. QED
  BY <1>2, <1>3, <1>4, PersonWaits, TabWaits
     DEF Next, vars, RegisterElsewhere, ServerStep

\* The loader and a set-up form that registers wait for something that is under
\* way, in any number of tabs, so that with a fair server they come to an end
\* (SystemGuard.tsx:12-30, Setup.tsx:29-52).
THEOREM AlwaysWaitsForAnswers == Spec => []WaitsForAnswers
<1> DEFINE I == SInv /\ \A u \in Tab : Waits(tab[u])
<1>1. Init => I
  <2>1. ASSUME Init, NEW u \in Tab PROVE Waits(tab[u])
    <3>1. PICK p \in Path : tab[u] = Loaded(p)
      BY <2>1 DEF Init
    <3>2. QED
      BY <3>1, LoadedWaits
  <2>2. QED
    BY <2>1, InitHolds
<1>2. I /\ [Next]_vars => I'
  <2>1. SInv => TypeOK
    BY DEF SInv
  <2>2. QED
    BY <2>1, StepHolds, WaitsStep
<1>3. I => WaitsForAnswers
  BY DEF SInv, FormFine, Waits, WaitsForAnswers
<1>4. QED
  BY <1>1, <1>2, <1>3, PTL DEF Spec
=============================================================================
