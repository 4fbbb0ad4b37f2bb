-------------------------- MODULE PublicViewProofs --------------------------
(***************************************************************************)
(* Theorems about PublicView, for any monitors, pages and tabs, any number *)
(* of changes and any number of failures.                                  *)
(***************************************************************************)
EXTENDS PublicView, TLAPS

(* The inductive invariant *)

Fetch == {"none", "asked", "missed", "found", "fallback", "read", "served", "notFound"}

Visit == [slug : Slug, fetch : Fetch, members : SUBSET Monitor,
          answer : Answer \cup {NoAnswer}, data : Answer \cup {NoAnswer},
          loading : BOOLEAN]

\* The answer a tells of no monitor outside ms.
Within(a, ms) == a # NoAnswer => \A m \in Monitor : a[m] # Hidden => m \in ms

\* What a tab waits for and what it shows belong to its page.
VisitFine(w) ==
  /\ w.fetch = "fallback" => w.slug = "default"
  /\ w.slug # "default" => /\ w.members \subseteq everOn[w.slug]
                           /\ Within(w.answer, everOn[w.slug])
                           /\ Within(w.data, everOn[w.slug])

\* ... and so does what Redis holds for the page: a copy may be older than the
\* page, which is why the claim is about every monitor that was ever on it.
CacheFine == \A s \in Slug : s # "default" => Within(cache[s], everOn[s])

PagesFine == \A s \in Slug : pages[s] # NoPage => pages[s] \subseteq everOn[s]

VInv ==
  /\ TypeOK
  /\ PagesFine
  /\ CacheFine
  /\ \A v \in Visitor : VisitFine(visit[v])

-----------------------------------------------------------------------------
(* Answers *)

LEMMA VisitTyped ==
  ASSUME TypeOK
  PROVE  visit \in [Visitor -> Visit]
BY DEF TypeOK, Visit, Fetch

LEMMA BuiltFine ==
  ASSUME TypeOK, NEW ms \in SUBSET Monitor, NEW b \in BOOLEAN
  PROVE  Built(ms, b) \in Answer /\ Within(Built(ms, b), ms)
<1>1. \A m \in Monitor : row[m].status \in Status
  BY DEF TypeOK
<1>2. Built(ms, b) \in Answer
  BY <1>1 DEF Built, Answer
<1>3. \A m \in Monitor : Built(ms, b)[m] # Hidden => m \in ms
  BY DEF Built
<1>4. QED
  BY <1>2, <1>3 DEF Within

-----------------------------------------------------------------------------
(* Writers *)

LEMMA WriteMonitorStep ==
  ASSUME VInv, NEW m \in Monitor, WriteMonitor(m) PROVE VInv'
<1>1. UNCHANGED <<pages, cache, visit, faults, everOn>>
  BY DEF WriteMonitor
<1>2. TypeOK'
  <2>1. row' \in [Monitor -> [status : Status, enabled : BOOLEAN]]
    BY DEF WriteMonitor, VInv, TypeOK, Status
  <2>2. undropped' \subseteq Monitor /\ writes' \in 0..MaxWrites
    BY PublicAssumption DEF WriteMonitor, Changed, VInv, TypeOK
  <2>3. QED
    BY <1>1, <2>1, <2>2 DEF VInv, TypeOK
<1>3. QED
  BY <1>1, <1>2 DEF VInv, PagesFine, CacheFine, VisitFine

LEMMA DropDefaultStep ==
  ASSUME VInv, NEW m \in Monitor, DropDefault(m) PROVE VInv'
<1>1. UNCHANGED <<row, pages, visit, writes, everOn>>
  BY DEF DropDefault
<1>2. cache' = cache \/ cache' = [cache EXCEPT !["default"] = NoAnswer]
  BY DEF DropDefault
<1>3. TypeOK'
  <2>1. faults' \in 0..MaxFaults /\ undropped' \subseteq Monitor
    BY PublicAssumption DEF DropDefault, VInv, TypeOK
  <2>2. cache' \in [Slug -> Answer \cup {NoAnswer}]
    BY <1>2 DEF VInv, TypeOK
  <2>3. QED
    BY <1>1, <2>1, <2>2 DEF VInv, TypeOK
<1>4. CacheFine'
  BY <1>1, <1>2 DEF VInv, TypeOK, CacheFine
<1>5. QED
  BY <1>1, <1>3, <1>4 DEF VInv, PagesFine, VisitFine

\* A page that changes leaves every answer within what it ever had.
LEMMA WritePageStep ==
  ASSUME VInv, NEW s \in Slug, WritePage(s) PROVE VInv'
<1>1. UNCHANGED <<row, undropped, cache, visit, faults>>
  BY DEF WritePage
<1>2. PICK p \in (SUBSET Monitor) \cup {NoPage} :
        /\ pages' = [pages EXCEPT ![s] = p]
        /\ everOn' = [everOn EXCEPT ![s] = IF p = NoPage THEN @ ELSE @ \cup p]
  BY DEF WritePage
<1> DEFINE es == IF p = NoPage THEN everOn[s] ELSE everOn[s] \cup p
<1>3. /\ pages \in [Slug -> (SUBSET Monitor) \cup {NoPage}]
      /\ everOn \in [Slug -> SUBSET Monitor]
  BY DEF VInv, TypeOK
<1>4. everOn[s] \subseteq es /\ es \in SUBSET Monitor /\ everOn' = [everOn EXCEPT ![s] = es]
  <2>1. everOn[s] \in SUBSET Monitor
    BY <1>3
  <2>2. CASE p = NoPage
    BY <1>3, <1>2, <2>1, <2>2
  <2>3. CASE p # NoPage
    <3>1. p \in SUBSET Monitor
      BY <1>2, <2>3
    <3>2. QED
      BY <1>3, <1>2, <2>1, <2>3, <3>1
  <2>4. QED
    BY <2>2, <2>3
<1> HIDE DEF es
<1>5. /\ pages' \in [Slug -> (SUBSET Monitor) \cup {NoPage}]
      /\ everOn' \in [Slug -> SUBSET Monitor]
      /\ \A r \in Slug : everOn[r] \subseteq everOn'[r]
  BY <1>3, <1>2, <1>4
<1>6. writes' \in 0..MaxWrites
  BY PublicAssumption DEF WritePage, Changed, VInv, TypeOK
<1>7. TypeOK'
  BY <1>1, <1>5, <1>6 DEF VInv, TypeOK
<1>8. PagesFine'
  BY <1>2 DEF VInv, TypeOK, PagesFine
<1>9. \A a, r : r \in Slug /\ Within(a, everOn[r]) => Within(a, everOn'[r])
  BY <1>5 DEF Within
<1>10. CacheFine'
  BY <1>1, <1>9 DEF VInv, CacheFine
<1>11. ASSUME NEW v \in Visitor PROVE VisitFine(visit[v])'
  <2>1. VisitFine(visit[v]) /\ visit[v].slug \in Slug
    BY VisitTyped DEF VInv, Visit
  <2>2. QED
    BY <1>1, <1>5, <1>9, <2>1 DEF VisitFine
<1>12. QED
  BY <1>7, <1>8, <1>10, <1>11 DEF VInv

LEMMA ExpireStep ==
  ASSUME VInv, NEW s \in Slug, Expire(s) PROVE VInv'
<1>1. UNCHANGED <<tables, visit, faults>> /\ cache' = [cache EXCEPT ![s] = NoAnswer]
  BY DEF Expire
<1>2. TypeOK'
  BY <1>1 DEF VInv, TypeOK, tables
<1>3. CacheFine'
  BY <1>1 DEF VInv, TypeOK, CacheFine, Within, tables
<1>4. QED
  BY <1>1, <1>2, <1>3 DEF VInv, PagesFine, VisitFine, tables

-----------------------------------------------------------------------------
(* The tab and the route *)

\* One visit goes on, and what goes to Redis belongs to the entry's page.
LEMMA VisitStep ==
  ASSUME VInv, NEW v \in Visitor, NEW w \in Visit, visit' = [visit EXCEPT ![v] = w],
         VisitFine(w), faults' \in 0..MaxFaults, UNCHANGED tables,
         cache' \in [Slug -> Answer \cup {NoAnswer}],
         \A s \in Slug : s # "default" => Within(cache'[s], everOn[s])
  PROVE  VInv'
<1>1. visit \in [Visitor -> Visit]
  BY VisitTyped DEF VInv
<1>2. visit'[v] = w /\ \A u \in Visitor \ {v} : visit'[u] = visit[u]
  BY <1>1
<1>3. visit' \in [Visitor -> Visit]
  BY <1>1
<1>4. TypeOK'
  BY <1>3 DEF VInv, TypeOK, Visit, Fetch, tables
<1>5. PagesFine' /\ CacheFine'
  BY DEF VInv, PagesFine, CacheFine, tables
<1>6. ASSUME NEW u \in Visitor PROVE VisitFine(visit[u])'
  <2>1. CASE u = v
    BY <1>2, <2>1 DEF VisitFine, tables
  <2>2. CASE u # v
    BY <1>2, <2>2 DEF VInv, VisitFine, tables
  <2>3. QED
    BY <2>1, <2>2
<1>7. QED
  BY <1>4, <1>5, <1>6 DEF VInv

\* The same, for a step that leaves Redis alone: it takes a request one step on
\* with an answer that is fine.
LEMMA FetchStep ==
  ASSUME VInv, NEW v \in Visitor, UNCHANGED <<tables, cache>>, faults' \in 0..MaxFaults,
         NEW f \in Fetch, NEW ms \in SUBSET Monitor,
         NEW a \in Answer \cup {NoAnswer}, NEW b \in Answer \cup {NoAnswer},
         NEW l \in BOOLEAN,
         visit' = [visit EXCEPT ![v].fetch = f, ![v].members = ms, ![v].answer = a,
                                ![v].data = b, ![v].loading = l],
         f = "fallback" => visit[v].slug = "default",
         visit[v].slug # "default" =>
           /\ ms \subseteq everOn[visit[v].slug]
           /\ Within(a, everOn[visit[v].slug]) /\ Within(b, everOn[visit[v].slug])
  PROVE  VInv'
<1> DEFINE w == [visit[v] EXCEPT !.fetch = f, !.members = ms, !.answer = a, !.data = b,
                            !.loading = l]
<1>1. visit \in [Visitor -> Visit] /\ visit[v] \in Visit
  BY VisitTyped DEF VInv
<1>2. /\ w \in Visit /\ w.slug = visit[v].slug /\ w.fetch = f
      /\ w.members = ms /\ w.answer = a /\ w.data = b
  BY <1>1 DEF Visit
<1>3. visit' = [visit EXCEPT ![v] = w]
  BY <1>1
<1>4. VisitFine(w)
  BY <1>2 DEF VisitFine
<1>5. cache' \in [Slug -> Answer \cup {NoAnswer}]
      /\ \A s \in Slug : s # "default" => Within(cache'[s], everOn[s])
  BY DEF VInv, TypeOK, CacheFine
<1>6. QED
  BY <1>2, <1>3, <1>4, <1>5, VisitStep

\* The parts of a visit, to be kept or replaced.
LEMMA Parts ==
  ASSUME VInv, NEW v \in Visitor
  PROVE  /\ visit[v].slug \in Slug /\ visit[v].loading \in BOOLEAN
         /\ visit[v].fetch \in Fetch /\ visit[v].members \subseteq Monitor
         /\ visit[v].answer \in Answer \cup {NoAnswer}
         /\ visit[v].data \in Answer \cup {NoAnswer}
         /\ visit[v].slug # "default" =>
              /\ visit[v].members \subseteq everOn[visit[v].slug]
              /\ Within(visit[v].answer, everOn[visit[v].slug])
              /\ Within(visit[v].data, everOn[visit[v].slug])
         /\ visit[v] = [slug |-> visit[v].slug, fetch |-> visit[v].fetch,
                        members |-> visit[v].members, answer |-> visit[v].answer,
                        data |-> visit[v].data, loading |-> visit[v].loading]
<1>1. visit[v] \in Visit /\ VisitFine(visit[v])
  BY VisitTyped DEF VInv
<1>2. QED
  BY <1>1 DEF Visit, VisitFine

LEMMA FaultTyped ==
  ASSUME VInv, UNCHANGED faults \/ (faults < MaxFaults /\ faults' = faults + 1)
  PROVE  faults' \in 0..MaxFaults
BY PublicAssumption DEF VInv, TypeOK

LEMMA NothingWithin == \A ms : Within(NoAnswer, ms)
BY DEF Within

\* A request is sent, or its answer is shown or lost.
LEMMA TabHolds ==
  ASSUME VInv, NEW v \in Visitor, TabStep(v) PROVE VInv'
<1> DEFINE a == visit[v].answer
           b == visit[v].data
<1>1. visit \in [Visitor -> Visit] /\ visit[v] \in Visit
  BY VisitTyped DEF VInv
<1>2. UNCHANGED <<tables, cache>> /\ faults' \in 0..MaxFaults
  BY FaultTyped DEF TabStep, Poll, Deliver, DeliverNotFound, LoseAnswer
<1>3. CASE Poll(v)
  <2>1. visit' = [visit EXCEPT ![v].fetch = "asked", ![v].members = visit[v].members,
                               ![v].answer = a, ![v].data = b, ![v].loading = visit[v].loading]
    BY <1>1, <1>3, Parts DEF Poll, Visit
  <2>2. QED
    BY <1>2, <2>1, Parts, FetchStep DEF Fetch
<1>4. ASSUME NEW c \in {a, b}, visit' = Showing(v, c) PROVE VInv'
  <2>1. visit' = [visit EXCEPT ![v].fetch = "none", ![v].members = visit[v].members,
                               ![v].answer = NoAnswer, ![v].data = c, ![v].loading = FALSE]
    BY <1>1, <1>4 DEF Showing, Visit
  <2>2. /\ c \in Answer \cup {NoAnswer}
        /\ visit[v].slug # "default" => Within(c, everOn[visit[v].slug])
    BY Parts
  <2>3. \A ms : Within(NoAnswer, ms)
    BY NothingWithin
  <2>4. QED
    BY <1>2, <2>1, <2>2, <2>3, Parts, FetchStep DEF Fetch
<1>5. QED
  BY <1>3, <1>4 DEF TabStep, Deliver, DeliverNotFound, LoseAnswer

\* An answer from Redis is that of the same slug.
LEMMA HitCacheStep ==
  ASSUME VInv, NEW v \in Visitor, HitCache(v) PROVE VInv'
<1> DEFINE a == cache[visit[v].slug]
           b == visit[v].data
           l == visit[v].loading
           ms == visit[v].members
<1>1. visit' = [visit EXCEPT ![v].fetch = "served", ![v].members = ms, ![v].answer = a,
                             ![v].data = b, ![v].loading = l]
  BY Parts, VisitTyped DEF HitCache, CacheKey, VInv, Visit
<1>2. a \in Answer \cup {NoAnswer}
      /\ (visit[v].slug # "default" => Within(a, everOn[visit[v].slug]))
  BY Parts DEF VInv, TypeOK, CacheFine
<1>3. UNCHANGED <<tables, cache>> /\ faults' \in 0..MaxFaults
  BY FaultTyped DEF HitCache
<1>4. /\ b \in Answer \cup {NoAnswer} /\ l \in BOOLEAN /\ ms \in SUBSET Monitor
      /\ visit[v].slug # "default" =>
           ms \subseteq everOn[visit[v].slug] /\ Within(b, everOn[visit[v].slug])
  BY Parts
<1>5. "served" \in Fetch
  BY DEF Fetch
<1> HIDE DEF a, b, l, ms
<1>6. QED
  BY <1>1, <1>2, <1>3, <1>4, <1>5, FetchStep

\* The request goes on without an answer of its own, with members of its page.
LEMMA OnlyFetch ==
  ASSUME VInv, NEW v \in Visitor, UNCHANGED <<tables, cache>>, faults' \in 0..MaxFaults,
         NEW f \in Fetch, NEW ms \in SUBSET Monitor,
         visit' = [visit EXCEPT ![v].fetch = f, ![v].members = ms],
         f = "fallback" => visit[v].slug = "default",
         visit[v].slug # "default" => ms \subseteq everOn[visit[v].slug]
  PROVE  VInv'
<1> DEFINE w == [visit[v] EXCEPT !.fetch = f, !.members = ms]
<1>1. visit \in [Visitor -> Visit] /\ visit[v] \in Visit /\ VisitFine(visit[v])
  BY VisitTyped DEF VInv
<1>2. w \in Visit /\ VisitFine(w)
  BY <1>1 DEF Visit, VisitFine
<1>3. visit' = [visit EXCEPT ![v] = w]
  BY <1>1
<1>4. cache' \in [Slug -> Answer \cup {NoAnswer}]
      /\ \A s \in Slug : s # "default" => Within(cache'[s], everOn[s])
  BY DEF VInv, TypeOK, CacheFine
<1>5. QED
  BY <1>2, <1>3, <1>4, VisitStep

\* No page is found: the request lets go of the members it may have read.
LEMMA NotFoundStep ==
  ASSUME VInv, NEW v \in Visitor, UNCHANGED <<tables, cache>>, faults' \in 0..MaxFaults,
         NotFound(v)
  PROVE  VInv'
<1>1. PICK f \in {"fallback", "notFound"} :
        /\ visit' = [visit EXCEPT ![v].fetch = f, ![v].members = {}]
        /\ f = "fallback" => visit[v].slug = "default"
  BY VisitTyped DEF NotFound, VInv, Visit
<1>2. f \in Fetch /\ {} \in SUBSET Monitor
  BY DEF Fetch
<1>3. QED
  BY <1>1, <1>2, OnlyFetch

\* An answer is built from the tables: of the members read, or of all monitors
\* for the default page.
LEMMA ReadStep ==
  ASSUME VInv, NEW v \in Visitor, UNCHANGED <<tables, cache>>, faults' \in 0..MaxFaults,
         NEW ms \in SUBSET Monitor, NEW g \in BOOLEAN, Read(v, Built(ms, g)),
         visit[v].slug # "default" => ms \subseteq everOn[visit[v].slug]
  PROVE  VInv'
<1> DEFINE a == Built(ms, g)
           b == visit[v].data
           l == visit[v].loading
<1>1. a \in Answer /\ Within(a, ms)
  BY BuiltFine DEF VInv
<1>2. visit[v].slug # "default" => Within(a, everOn[visit[v].slug])
  BY <1>1 DEF Within
<1>3. /\ b \in Answer \cup {NoAnswer} /\ l \in BOOLEAN
      /\ visit[v].slug # "default" => Within(b, everOn[visit[v].slug])
  BY Parts
<1>4. visit' = [visit EXCEPT ![v].fetch = "read", ![v].members = {}, ![v].answer = a,
                             ![v].data = b, ![v].loading = l]
  BY VisitTyped DEF Read, VInv, Visit
<1>5. "read" \in Fetch /\ {} \in SUBSET Monitor
  BY DEF Fetch
<1> HIDE DEF a, b, l
<1>6. QED
  BY <1>1, <1>2, <1>3, <1>4, <1>5, FetchStep

LEMMA FindPageStep ==
  ASSUME VInv, NEW v \in Visitor, FindPage(v) PROVE VInv'
<1> DEFINE s == visit[v].slug
<1>1. UNCHANGED <<tables, cache>> /\ faults' \in 0..MaxFaults
  BY FaultTyped DEF FindPage
<1>2. CASE /\ pages[s] # NoPage
           /\ visit' = [visit EXCEPT ![v].fetch = "found", ![v].members = pages[s]]
  <2>1. pages[s] \in SUBSET Monitor /\ pages[s] \subseteq everOn[s]
    BY <1>2, Parts DEF VInv, TypeOK, PagesFine
  <2>2. QED
    BY <1>1, <1>2, <2>1, OnlyFetch DEF Fetch
<1>3. CASE NotFound(v)
  BY <1>1, <1>3, NotFoundStep
<1>4. QED
  BY <1>2, <1>3 DEF FindPage

\* The rows that are read are those of the members that were read before.
LEMMA ReadMonitorsStep ==
  ASSUME VInv, NEW v \in Visitor, ReadMonitors(v) PROVE VInv'
<1>1. UNCHANGED <<tables, cache>> /\ faults' \in 0..MaxFaults
  BY FaultTyped DEF ReadMonitors
<1>2. QED
  BY <1>1, Parts, ReadStep DEF ReadMonitors

LEMMA LosePageStep ==
  ASSUME VInv, NEW v \in Visitor, LosePage(v) PROVE VInv'
<1>1. UNCHANGED <<tables, cache>> /\ faults' \in 0..MaxFaults
  BY FaultTyped DEF LosePage
<1>2. QED
  BY <1>1, NotFoundStep DEF LosePage

\* Only a request for the default page falls back to all monitors.
LEMMA ReadAllStep ==
  ASSUME VInv, NEW v \in Visitor, ReadAll(v) PROVE VInv'
<1>1. UNCHANGED <<tables, cache>> /\ faults' \in 0..MaxFaults
  BY FaultTyped DEF ReadAll
<1>2. visit[v].slug = "default"
  BY DEF ReadAll, VInv, VisitFine
<1>3. PICK ms \in {Monitor, {}} : Read(v, Built(ms, TRUE))
  BY DEF ReadAll
<1>4. QED
  BY <1>1, <1>2, <1>3, ReadStep

\* What is written to Redis is what the tab of that slug is answered.
LEMMA FillCacheStep ==
  ASSUME VInv, NEW v \in Visitor, FillCache(v) PROVE VInv'
<1> DEFINE a == visit[v].answer
           w == [visit[v] EXCEPT !.fetch = "served"]
<1>1. visit[v] \in Visit /\ VisitFine(visit[v]) /\ visit \in [Visitor -> Visit]
  BY VisitTyped DEF VInv
<1>2. w \in Visit /\ VisitFine(w)
  BY <1>1 DEF Visit, Fetch, VisitFine
<1>3. visit' = [visit EXCEPT ![v] = w] /\ UNCHANGED tables
  BY <1>1 DEF FillCache
<1>4. faults' \in 0..MaxFaults
  BY FaultTyped DEF FillCache
<1>5. cache' \in {cache, [cache EXCEPT ![visit[v].slug] = a]}
  BY DEF FillCache, CacheKey
<1>6. cache' \in [Slug -> Answer \cup {NoAnswer}]
      /\ \A s \in Slug : s # "default" => Within(cache'[s], everOn[s])
  BY <1>5, Parts DEF VInv, TypeOK, CacheFine
<1>7. QED
  BY <1>2, <1>3, <1>4, <1>6, VisitStep

LEMMA MissCacheStep ==
  ASSUME VInv, NEW v \in Visitor, MissCache(v) PROVE VInv'
<1>1. faults' \in 0..MaxFaults
  BY FaultTyped DEF MissCache
<1> DEFINE ms == visit[v].members
<1>2. /\ visit' = [visit EXCEPT ![v].fetch = "missed", ![v].members = ms]
      /\ UNCHANGED <<tables, cache>>
  BY VisitTyped DEF MissCache, VInv, Visit
<1>3. ms \in SUBSET Monitor /\ (visit[v].slug # "default" => ms \subseteq everOn[visit[v].slug])
  BY Parts
<1>4. "missed" \in Fetch
  BY DEF Fetch
<1> HIDE DEF ms
<1>5. QED
  BY <1>1, <1>2, <1>3, <1>4, OnlyFetch

-----------------------------------------------------------------------------
(* The theorems *)

LEMMA InitHolds == Init => VInv
<1> SUFFICES ASSUME Init PROVE VInv
  OBVIOUS
<1>1. TypeOK
  <2>1. row \in [Monitor -> [status : Status, enabled : BOOLEAN]]
    BY DEF Init, Status
  <2>2. pages \in [Slug -> (SUBSET Monitor) \cup {NoPage}]
    BY DEF Init
  <2>3. everOn \in [Slug -> SUBSET Monitor]
    BY <2>2 DEF Init
  <2>4. visit \in [Visitor -> Visit]
    <3>1. \A s \in Slug : [slug |-> s, fetch |-> "none", members |-> {},
                           answer |-> NoAnswer, data |-> NoAnswer, loading |-> TRUE] \in Visit
      BY DEF Visit, Fetch
    <3>2. QED
      BY <3>1 DEF Init
  <2>5. cache \in [Slug -> Answer \cup {NoAnswer}] /\ undropped \subseteq Monitor
    BY DEF Init
  <2>6. writes \in 0..MaxWrites /\ faults \in 0..MaxFaults
    BY PublicAssumption DEF Init
  <2>7. QED
    BY <2>1, <2>2, <2>3, <2>4, <2>5, <2>6 DEF TypeOK, Visit, Fetch
<1>2. PagesFine /\ CacheFine /\ \A v \in Visitor : VisitFine(visit[v])
  BY DEF Init, PagesFine, CacheFine, VisitFine, Within
<1>3. QED
  BY <1>1, <1>2 DEF VInv

LEMMA StepHolds == VInv /\ [Next]_vars => VInv'
<1> SUFFICES ASSUME VInv, [Next]_vars PROVE VInv'
  OBVIOUS
<1>1. ASSUME NEW v \in Visitor, TabStep(v) \/ ServeStep(v) PROVE VInv'
  BY <1>1, TabHolds, HitCacheStep, MissCacheStep, FindPageStep, ReadMonitorsStep,
     LosePageStep, ReadAllStep, FillCacheStep DEF ServeStep
<1>2. CASE Next
  BY <1>1, <1>2, WriteMonitorStep, DropDefaultStep, WritePageStep, ExpireStep DEF Next
<1>3. CASE UNCHANGED vars
  BY <1>3 DEF vars, VInv, TypeOK, PagesFine, CacheFine, VisitFine
<1>4. QED
  BY <1>2, <1>3

LEMMA ViewInvariant == Spec => []VInv
BY InitHolds, StepHolds, PTL DEF Spec

\* Tables, cached answers and visits are typed.
THEOREM ViewTypeCorrect == Spec => []TypeOK
<1>1. VInv => TypeOK
  BY DEF VInv
<1>2. QED
  BY <1>1, ViewInvariant, PTL

\* However many tabs, pages, changes and failures: nothing is shown under an
\* address that was never on its page.
THEOREM OnlyMembersShown == Spec => []OnlyPageMembers
<1>1. VInv => OnlyPageMembers
  BY DEF VInv, VisitFine, Within, OnlyPageMembers, Listed
<1>2. QED
  BY <1>1, ViewInvariant, PTL
=============================================================================
