----------------------------- MODULE PublicView -----------------------------
(***************************************************************************)
(* What a visitor sees: the status page in the browser, which asks for its *)
(* page every 30 seconds, the route that answers from Redis or from the    *)
(* database, and the console and the checks that change the tables.        *)
(*                                                                         *)
(* A tab keeps the address it was opened with: no link leads from one      *)
(* status page to another.                                                 *)
(***************************************************************************)
EXTENDS Naturals, FiniteSets

CONSTANTS
  Monitor,
  GroupOf,    \* [Monitor -> the name of its group, or NoGroup]
  Slug,       \* the addresses of status pages; "default" is that of "/"
  Visitor,    \* tabs that show a status page
  MaxWrites,  \* bound: how often the tables change
  MaxFaults,  \* bound: how many statements, cache calls and answers fail
  NoPage, NoAnswer, NoGroup, OtherServices

ASSUME PublicAssumption ==
  /\ "default" \in Slug
  /\ MaxWrites \in Nat /\ MaxFaults \in Nat
  /\ NoGroup # OtherServices
  /\ \A m \in Monitor : GroupOf[m] # OtherServices

VARIABLES
  row,      \* [Monitor -> its last_status and its enabled flag]
  pages,    \* [Slug -> the monitors of the page, or NoPage]
  undropped,\* the monitors whose writer has yet to drop the cached default page
  cache,    \* [Slug -> the answer in Redis, or NoAnswer]
  visit,    \* [Visitor -> its slug, its request, the monitors that the page
            \* has by what the request has read, its answer and what it shows]
  writes, faults,  \* counters of the bounds
  everOn    \* ghost: [Slug -> the monitors that were ever on the page]

vars == <<row, pages, undropped, cache, visit, writes, faults, everOn>>
tables == <<row, pages, undropped, writes, everOn>>

\* "other" stands for "pending" and for any text a heartbeat may send.
Status == {"up", "down", "other"}

Hidden == [status |-> "none", section |-> NoGroup]

\* What an answer tells: the enabled monitors with their status and group_name.
Answer == [Monitor -> [status : Status, section : {GroupOf[m] : m \in Monitor} \cup {NoGroup}]
                      \cup {Hidden}]

-----------------------------------------------------------------------------
(* Writers.  The console and a missed heartbeat delete the entry of the      *)
(* default page after they have changed a monitor.  A heartbeat deletes      *)
(* nothing, and a check does it before it writes, where it is no different   *)
(* from the expiry of the entry.  A change of a page drops nothing.          *)

Changed == writes < MaxWrites /\ writes' = writes + 1

\* Variant: a disabled monitor gets a status of its own.
WriteMonitorPaused(m) ==
  /\ Changed /\ m \notin undropped
  /\ \E e \in BOOLEAN :
       row' = [row EXCEPT ![m] = [status |-> IF e THEN "up" ELSE "paused", enabled |-> e]]
  /\ undropped' \in {undropped, undropped \cup {m}}
  /\ UNCHANGED <<pages, cache, visit, faults, everOn>>

\* Whole rows are saved, so the status and the flag may both change; a deleted
\* monitor is shown as little as a disabled one.
WriteMonitor(m) ==
  /\ Changed /\ m \notin undropped
  /\ \E r \in [status : Status, enabled : BOOLEAN] \ {row[m]} : row' = [row EXCEPT ![m] = r]
  /\ undropped' \in {undropped, undropped \cup {m}}
  /\ UNCHANGED <<pages, cache, visit, faults, everOn>>

\* The error of the Delete is ignored.
DropDefault(m) ==
  /\ m \in undropped
  /\ undropped' = undropped \ {m}
  /\ \/ cache' = [cache EXCEPT !["default"] = NoAnswer] /\ UNCHANGED faults
     \/ faults < MaxFaults /\ faults' = faults + 1 /\ UNCHANGED cache
  /\ UNCHANGED <<row, pages, visit, writes, everOn>>

\* A page is created, changed or deleted.
WritePage(s) ==
  /\ Changed
  /\ \E p \in ((SUBSET Monitor) \cup {NoPage}) \ {pages[s]} :
       /\ pages' = [pages EXCEPT ![s] = p]
       /\ everOn' = [everOn EXCEPT ![s] = IF p = NoPage THEN @ ELSE @ \cup p]
  /\ UNCHANGED <<row, undropped, cache, visit, faults>>

-----------------------------------------------------------------------------
(* The tab *)

Showing(v, data) == [visit EXCEPT ![v].fetch = "none", ![v].answer = NoAnswer,
                                  ![v].data = data, ![v].loading = FALSE]

\* The page mounts, the 30 seconds are over, or the window gets the focus; a
\* refetch joins a request in flight.
Poll(v) ==
  /\ visit[v].fetch = "none"
  /\ visit' = [visit EXCEPT ![v].fetch = "asked"]
  /\ UNCHANGED <<tables, cache, faults>>

Deliver(v) ==
  /\ visit[v].fetch = "served"
  /\ visit' = Showing(v, visit[v].answer)
  /\ UNCHANGED <<tables, cache, faults>>

\* No page has the slug, in every attempt: the data of before stay.
DeliverNotFound(v) ==
  /\ visit[v].fetch = "notFound"
  /\ visit' = Showing(v, visit[v].data)
  /\ UNCHANGED <<tables, cache, faults>>

\* All attempts failed.
LoseAnswer(v) ==
  /\ faults < MaxFaults /\ faults' = faults + 1
  /\ visit[v].fetch = "served"
  /\ visit' = Showing(v, visit[v].data)
  /\ UNCHANGED <<tables, cache>>

-----------------------------------------------------------------------------
(* The route *)

\* Variant: one entry for all pages.
OneKey(s) == "default"

CacheKey(s) == s

HitCache(v) ==
  LET k == CacheKey(visit[v].slug)
  IN  /\ visit[v].fetch = "asked" /\ cache[k] # NoAnswer
      /\ visit' = [visit EXCEPT ![v].fetch = "served", ![v].answer = cache[k]]
      /\ UNCHANGED <<tables, cache, faults>>

MissCache(v) ==
  /\ visit[v].fetch = "asked"
  /\ \/ cache[CacheKey(visit[v].slug)] = NoAnswer /\ UNCHANGED faults
     \/ faults < MaxFaults /\ faults' = faults + 1
  /\ visit' = [visit EXCEPT ![v].fetch = "missed"]
  /\ UNCHANGED <<tables, cache>>

\* The answer of the monitors ms: GetBySlug does not load their groups, GetAll does.
Built(ms, grouped) ==
  [m \in Monitor |->
     IF m \in ms /\ row[m].enabled
     THEN [status |-> row[m].status, section |-> IF grouped THEN GroupOf[m] ELSE NoGroup]
     ELSE Hidden]

\* The default page falls back to all monitors, any other slug is not found.
NotFound(v) ==
  visit' = [visit EXCEPT ![v].members = {},
                         ![v].fetch = IF visit[v].slug = "default" THEN "fallback"
                                                                   ELSE "notFound"]

\* The page and the join table are read.
FindPage(v) ==
  LET p == pages[visit[v].slug]
  IN  /\ visit[v].fetch = "missed"
      /\ \/ p # NoPage /\ visit' = [visit EXCEPT ![v].fetch = "found", ![v].members = p]
         \/ p = NoPage /\ NotFound(v)
      /\ UNCHANGED <<tables, cache, faults>>

Read(v, answer) ==
  visit' = [visit EXCEPT ![v].fetch = "read", ![v].members = {}, ![v].answer = answer]

\* The monitors of the join table are read, a query later.
ReadMonitors(v) ==
  /\ visit[v].fetch = "found"
  /\ Read(v, Built(visit[v].members, FALSE))
  /\ UNCHANGED <<tables, cache, faults>>

\* An error of any of these queries is taken for a page that is not there.
LosePage(v) ==
  /\ faults < MaxFaults /\ faults' = faults + 1
  /\ visit[v].fetch \in {"missed", "found"}
  /\ NotFound(v)
  /\ UNCHANGED <<tables, cache>>

\* GetAll, whose error is ignored.
ReadAll(v) ==
  /\ visit[v].fetch = "fallback"
  /\ \/ Read(v, Built(Monitor, TRUE)) /\ UNCHANGED faults
     \/ faults < MaxFaults /\ faults' = faults + 1 /\ Read(v, Built({}, TRUE))
  /\ UNCHANGED <<tables, cache>>

\* Set, whose error is only logged, and the answer.
FillCache(v) ==
  /\ visit[v].fetch = "read"
  /\ visit' = [visit EXCEPT ![v].fetch = "served"]
  /\ \/ /\ cache' = [cache EXCEPT ![CacheKey(visit[v].slug)] = visit[v].answer]
        /\ UNCHANGED faults
     \/ faults < MaxFaults /\ faults' = faults + 1 /\ UNCHANGED cache
  /\ UNCHANGED tables

\* Variant: entries are kept until they are dropped.
ExpireDefault(s) ==
  /\ s = "default" /\ cache[s] # NoAnswer
  /\ cache' = [cache EXCEPT ![s] = NoAnswer]
  /\ UNCHANGED <<tables, visit, faults>>

\* The five minutes are over.
Expire(s) ==
  /\ cache[s] # NoAnswer
  /\ cache' = [cache EXCEPT ![s] = NoAnswer]
  /\ UNCHANGED <<tables, visit, faults>>

-----------------------------------------------------------------------------
\* Bound: at the start a page has every monitor or is not there.
Init ==
  /\ row \in [Monitor -> [status : {"other"}, enabled : {TRUE}]]
  /\ pages \in [Slug -> {Monitor, NoPage}]
  /\ undropped = {}
  /\ cache = [s \in Slug |-> NoAnswer]
  /\ visit \in [Visitor -> {[slug |-> s, fetch |-> "none", members |-> {},
                             answer |-> NoAnswer, data |-> NoAnswer, loading |-> TRUE] : s \in Slug}]
  /\ writes = 0 /\ faults = 0
  /\ everOn = [s \in Slug |-> IF pages[s] = NoPage THEN {} ELSE pages[s]]

ServeStep(v) ==
  \/ HitCache(v) \/ MissCache(v) \/ FindPage(v) \/ ReadMonitors(v) \/ LosePage(v)
  \/ ReadAll(v) \/ FillCache(v)

TabStep(v) == Poll(v) \/ Deliver(v) \/ DeliverNotFound(v) \/ LoseAnswer(v)

Next ==
  \/ \E m \in Monitor : WriteMonitor(m) \/ DropDefault(m)
  \/ \E s \in Slug : WritePage(s) \/ Expire(s)
  \/ \E v \in Visitor : TabStep(v) \/ ServeStep(v)

Spec == Init /\ [][Next]_vars

\* The timer of the query fires, requests are served and answered, and entries
\* expire.
Fairness ==
  /\ \A v \in Visitor : WF_vars(TabStep(v)) /\ WF_vars(ServeStep(v))
  /\ \A s \in Slug : WF_vars(Expire(s))

FairSpec == Spec /\ Fairness

-----------------------------------------------------------------------------
(* What the tab renders *)

\* The monitors listed; a tab without data lists none.
Listed(v) == IF visit[v].data = NoAnswer THEN {}
             ELSE {m \in Monitor : visit[v].data[m] # Hidden}

\* overallStatus: also without data, and without monitors.
Banner(v) ==
  IF \A m \in Listed(v) : visit[v].data[m].status = "up"
  THEN "All Systems Operational" ELSE "Some Systems Down"

Heading(g) == IF g = NoGroup THEN OtherServices ELSE g

Says(status) == IF status = "up" THEN "Operational" ELSE "Down"

\* The rows of the page, each under the heading of its section.
Rows(v) ==
  {[of |-> m, under |-> Heading(visit[v].data[m].section),
    says |-> Says(visit[v].data[m].status)] : m \in Listed(v)}

-----------------------------------------------------------------------------
TypeOK ==
  /\ row \in [Monitor -> [status : Status, enabled : BOOLEAN]]
  /\ pages \in [Slug -> (SUBSET Monitor) \cup {NoPage}]
  /\ undropped \subseteq Monitor
  /\ cache \in [Slug -> Answer \cup {NoAnswer}]
  /\ visit \in [Visitor -> [slug : Slug,
                            fetch : {"none", "asked", "missed", "found", "fallback", "read",
                                     "served", "notFound"},
                            members : SUBSET Monitor, answer : Answer \cup {NoAnswer}, data : Answer \cup {NoAnswer},
                            loading : BOOLEAN]]
  /\ writes \in 0..MaxWrites /\ faults \in 0..MaxFaults
  /\ everOn \in [Slug -> SUBSET Monitor]

\* Nothing is shown under an address that was never on its page, however the
\* cached answers of the pages and the requests for them interleave
\* (status_page_handler.go:115, StatusPage.tsx:138).  The default page is left
\* out: without it, or when its read fails, all monitors are shown.
OnlyPageMembers ==
  \A v \in Visitor : visit[v].slug # "default" => Listed(v) \subseteq everOn[visit[v].slug]

\* The page as the tables have it: only the page made of all monitors has groups.
Truth(s) ==
  LET fallback == pages[s] = NoPage
      members == IF fallback THEN Monitor ELSE pages[s]
  IN  {[of |-> m, under |-> Heading(IF fallback THEN GroupOf[m] ELSE NoGroup),
        says |-> Says(row[m].status)] : m \in {n \in members : row[n].enabled}}

\* When the tables stay as they are, every tab ends up showing the page as they
\* have it, under its headings, and the banner that goes with it, also when the
\* entry in Redis was written after the change by a request that read before it
\* (status_page_handler.go:114-184, StatusPage.tsx:137-157).  A tab whose page is
\* gone is left out: it shows the old data for ever.
ViewConverges ==
  \A v \in Visitor :
    <>[](LET s == visit[v].slug
         IN  pages[s] # NoPage \/ s = "default"
               => /\ Rows(v) = Truth(s)
                  /\ Banner(v) = IF \E r \in Truth(s) : r.says = "Down"
                                 THEN "Some Systems Down" ELSE "All Systems Operational")
=============================================================================
