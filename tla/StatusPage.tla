----------------------------- MODULE StatusPage -----------------------------
(***************************************************************************)
(* The public side of internal/api/handlers/status_page_handler.go: GET    *)
(* of the default status page, answered from Redis or, on a miss, from the *)
(* database, and then cached for five minutes.                             *)
(***************************************************************************)
EXTENDS MonitorTable

\* What the page shows of a monitor; LastCheckedAt is left out, the code lets
\* it grow old in the cache on purpose.
ShownOf(m) ==
  IF Live(m) /\ monitors[m].enabled
  THEN [cfg |-> monitors[m].cfg, status |-> monitors[m].status]
  ELSE NoRow

\* The view of a page that lists these monitors.
View(listed) == [m \in Monitor |-> IF m \in listed THEN ShownOf(m) ELSE NoRow]

\* A hit is answered from the cache and changes nothing.
MissCache(p) ==
  /\ page[p] = NoPage
  /\ cache = NoPage \/ "redis" \in Faults
  /\ page' = [page EXCEPT ![p] = Missed]
  /\ UNCHANGED <<monitors, sweep, ticker, task, newest, alerts, cache, ghosts>>

\* The monitors of the page are read.  When that fails the default page lists
\* all monitors, or none if reading those fails too: the error is dropped.
\* Either page is cached like any other.
ReadPage(p) ==
  /\ page[p] = Missed
  /\ \E listed \in {OnPage} \cup IF "db" \in Faults THEN {Monitor, {}} ELSE {} :
       /\ page' = [page EXCEPT ![p] = View(listed)]
       /\ blurred' = blurred \cup {m \in OnPage : m \notin listed \/ Held(m)}
  /\ UNCHANGED <<monitors, sweep, ticker, task, newest, alerts, cache, disturbed>>

FillCache(p) ==
  /\ page[p] \in PageView
  /\ page' = [page EXCEPT ![p] = NoPage]
  /\ cache' = page[p] \/ ("redis" \in Faults /\ cache' = cache)
  /\ UNCHANGED <<monitors, sweep, ticker, task, newest, alerts, ghosts>>

\* The five minutes are over.
ExpirePage ==
  /\ cache # NoPage
  /\ cache' = NoPage
  /\ UNCHANGED <<monitors, sweep, ticker, task, newest, alerts, page, ghosts>>

PageNext == ExpirePage \/ \E p \in Page : MissCache(p) \/ ReadPage(p) \/ FillCache(p)
=============================================================================
