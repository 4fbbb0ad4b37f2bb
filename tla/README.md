# Uptime W33d: specifications and proofs

TLA+ modules that model Uptime W33d (the backend in `src/cmd`, `src/internal`
and `src/pkg`, the web client in `src/web`), the TLC runs that check them on
small instances and the proofs TLAPS checks for every instance. `PROJECT.json`
lists components, runs, the source lines behind each definition, findings,
hazards and theorems.

## 1. Inventory

| Component | State | Operations | Hard behaviour | What makes it correct |
|---|---|---|---|---|
| Check scheduler (`scheduler.go`) | ticker channel, the sweep under way, one goroutine per check | runLoop, scheduleJobs, checkPushMonitor, executeCheck, Stop | works on copies of rows; checks of one monitor overlap; blocks on the database; killed by a restart | verdicts follow the retries, results, alerts and rows agree, no write is lost |
| Push heartbeats (`push_service.go`) | none of its own | ProcessHeartbeat | races the sweep, other heartbeats and edits | the same, and a check-in is not forgotten |
| Monitor API (`monitor_handler.go`, `monitor_service.go`) | none of its own | POST, PUT, DELETE | read, modify and write in separate calls; the preloaded group is saved with the row | an edit or deletion answered with success stays |
| Tables (`*_repo.go`, `models.go`) | monitors, results, groups, pages, channels, incidents, users | Create, Save, soft delete | Save writes every column and inserts a row that is gone | deleted rows stay deleted |
| Public page (`status_page_handler.go`) | the Redis entry of each slug | GET | a fill races an invalidation; a failed read is cached as a page of all monitors or of none; only one slug is ever invalidated | what is cached is, or becomes, the table's |
| Notification dispatch (`notification_service.go`) | none | Notify | one goroutine per channel, no order, no retry | one alert per change |
| Status page administration | status_pages, page monitors | CRUD | two statements without a transaction; resurrection | an edit keeps what it does not mention |
| Monitor groups | one table and `group_id` | CRUD | two statements, the error of the first ignored; whole rows read before and saved after them | no monitor is left behind in a group that is gone |
| Incidents, channels | a table each | CRUD | lists and dialogs older than the row | edits arrive and keep the rest |
| Users, login, setup (`auth_service.go`) | users, JWT | Register, Login, IsSetupRequired | counts before it inserts; the route is public | there is an administrator |
| Web client: session (`SystemGuard`, `api.ts`, `Login`, `Setup`, `DashboardLayout`) | path, pending checks, forms; `token` in local storage | navigation, set-up guard, interceptors, login, set-up, log-out | answers older than the navigation; expiry; tabs share a token | set-up comes first, nobody is stuck |
| Web client: console (six admin pages) | query cache, requests in flight, dialog | list, open, fill, submit, delete, resolve | refetch against mutation, stale rows in dialogs, lost answers | a settled list is the table, an edit changes only what was touched |
| Web client: public page (`StatusPage.tsx`) | data, request in flight | poll, render | cached and failed answers | the tab converges to the tables |
| Probes | none | Check of each type | I/O and timeouts | |
| Notifiers, badges, configuration, logging, deployment | rendering, I/O, wiring | | | |

In the backend the components meet in the tables and in the Redis entries. The
scheduler and the push service call Notify, then write the row; the API writes
the row, then drops the cached page; the scheduler drops the page, then writes
the row. Nothing is locked and no call is in a transaction. The client meets
the backend in its routes: every page of the console reads lists and sends
mutations, the guard asks for the set-up state on every navigation, and a 401
to any request throws the tab back to the login.

## 2. Modules

| Module | Models |
|---|---|
| `MonitorTable` | constants, variables, Init; rows, gorm's Save, the writes every handler makes |
| `Scheduler` | the loop, the sweep, executeCheck and checkPushMonitor |
| `PushService` | ProcessHeartbeat |
| `MonitorApi` | POST, PUT and DELETE of a monitor |
| `StatusPage` | GET of the default page with its cache |
| `UptimeSystem` | the composition of these, the crash of the process, fairness, the properties |
| `StatusBoard` | abstract: what the backend promises of a monitor's status |
| `UptimeBoard` | the refinement mapping from the backend to `StatusBoard` |
| `Accounts` | registration, login verdict, set-up state, token check |
| `WebSession` | `Accounts` with the browser: guard, interceptors, forms, navigation |
| `AdminPage` | what the console's pages share: list queries, dialog, mutations, tables |
| `MonitorsPage`, `GroupsPage`, `ChannelsPage`, `IncidentsPage`, `StatusPagesPage` | one page with its form and the routes behind it |
| `Console` | the composition of the pages, their properties |
| `PublicView` | the public page in the browser, the route for every slug with its cache, the writers |
| `UptimeInvariant`, `ConsoleInvariant` | the inductive invariants of the backend and of the console |
| `UptimeProofs`, `UptimeStepProofs`, `UptimePageProofs` | the theorems about the backend |
| `SessionProofs` | the theorems about `WebSession` |
| `PublicViewProofs` | the theorems about `PublicView` |
| `ConsoleProofs`, `ConsoleListProofs` | the theorems about `Console` |
| `MCUptime`, `MCSession`, `MCConsole`, `MCPublic` | values for the runs |

Definitions commented as "Variant" are faulty forms of the definition after
them, to test the properties with; no specification uses them.

### The backend (`UptimeSystem`)

- `monitors[m]` is the row with id m: `cfg` stands for the columns an operator
  configures (type, target, interval, retries...), `status` for last_status,
  `seen` for the age of last_checked_at in ticks, and `deleted` for deleted_at.
- `sweep` holds the rows scheduleJobs read and has not visited yet. Rows are
  visited in any order, the query has no ORDER BY.
- `task[t]` is a goroutine: a check, a request or the loop. Its `pc` names the
  call it makes next, `row` is the copy of the row it works on. One action per
  call to the database, so other goroutines run in between. A call of Notify
  and the drop of the cached page that follows it are one action, since both
  happen at the same condition and no other call separates them.
- `newest[m]` is the status in the newest check result, `announced[m]` the one
  in the newest alert. `repeated` remembers who ever got two equal alerts.
- `cache` is the Redis entry `public_status_page_default`; `page[p]` a request
  that missed it and the view of the monitors it then read. When that read fails the code falls
  back to all monitors or, when that fails too, to none.
- `disturbed` and `blurred` are ghosts, no action reads them. A monitor becomes
  disturbed when one of its writers begins while another is between its read
  and its last step, and when a database call of a writer fails or is cut by a
  crash. It becomes blurred when a visitor of the page and a writer overlap or
  when a call that fills or drops the cached page fails.

gorm is external and modelled from its use: `Saved` is Save (update of all
columns; when no row was affected, insert with update of all columns on
conflict, database defaults replacing zero values), `CreateMonitor` its insert,
`DeleteMonitor` its soft delete. Init is a new installation: the tables as
`Migrate` makes them, an empty cache and no goroutine at work. Times are counted in ticks of the scheduler and
stop at `MaxAge`, which must exceed every grace period to tell late from in time.

A monitor is created without status and check-in, as the web client does. Which
monitors have a push token is a constant: no code of the repository makes one,
only a client that sends `push_token` with the POST can have it. The statuses of
heartbeats other than up and down are one value, "other". Heartbeats, edits and
visits are limited by the sets `Heartbeat`, `Edit`, `Page` of requests served at
once, checks by `Check`; there is no bound on how many of them happen one after
the other.

`StatusBoard` says of each monitor: a status to report is decided on, the row,
the newest result and the newest alert move to it in any order, and the report
is over only when all three have. `UptimeBoard` maps a goroutine at `record`,
`notify` or `save` to a report of the status it concluded; `disturbed` is mapped
to the monitors that were given up.

### The session (`WebSession`)

- `users` is the table, `call[c]` a registration in its three database calls:
  look up the name, count, insert. Hashing lies between the first two.
- `tab[t]` is one loaded application: its path, whether the guard still shows
  the loader, how many status checks of each kind are under way (the path their
  effect closed over, and the answer), the tokens of the list requests in flight,
  and the forms being submitted. `stored[b]` is the token of browser b; its tabs
  share it.
- A form that is unmounted while its calls are under way (`gone`) goes on with
  them, and a form mounted later starts fresh, so that a tab may have several
  submissions at work. `Slot` bounds them.
- The history buttons are external: `Back` leads to any path of `BackPath`,
  since what the history of a tab holds depends on everything it did before.
- Navigating adds a check; an answer of the route and its application in the
  tab are two steps, so that users may be created and paths changed in between. `MaxChecks` bounds the checks
  that a person lets pile up by clicking on.
- A 401 is `Rejected`: the token is removed and the login page loaded anew,
  whatever the tab was doing. `Expire` ends the 24 hours of a token.
- Credentials are a name (with the right password) or `NoName` (anything else).

### The console (`Console`)

- `table` and `gone` are the rows and the soft-deleted ids of five tables.
- `cached` and `fetch` are React Query's cache and requests of each tab. React
  Query is external and modelled from its documented defaults as used here: a
  mount or a focus asks again, `invalidateQueries` cancels and repeats a request
  of a list on the screen, a failed list keeps its old data.
- `tab` is the page on the screen and its dialog: the row it was opened from
  (`base`) and the fields. `call` is a mutation from `mutate()` to its answer;
  its handler reads the row (`Read`) and saves it (`Save`) in two steps, keeping
  in `read` what it read: of a monitor the group that was preloaded, which Save
  writes back; of a status page the monitors of the request that exist. A handler
  that writes two tables takes a step for each. A status page is created, read
  again, given its monitors and saved, and any of these statements may fail.
- `held` are the other writers of the monitors table, the checks and heartbeats
  (scheduler.go:128 and 234, push_service.go:77): each reads a row whole (`HoldRow`)
  and saves it whole later (`SaveHeld`), with the group_id it had.
- Field values are two or three representatives each; fields that are copied
  unchanged are one field. What the conversions do stays: a null group that the
  schema refuses, an undefined group that is not sent, the zero value that turns
  into the column default, the list that comes without monitors.
- `foreign` and `refilled` are ghosts: the lists that others changed since the tab
  read them, and the groups that a monitor entered or stayed in since they were
  last emptied.

### The public view (`PublicView`)

- `row` and `pages` are what the tables say, `undropped` the monitors that were
  written and whose handler has yet to drop the default entry.
- `cache` has an entry for every slug; `visit[v]` is a tab, its request at the
  route and what it shows. The route takes a step per query: the page with its
  join table, the monitors, or all monitors where the page is not found or any of
  these queries fails; then it fills the entry. `Banner` and `Rows` (monitor,
  heading, "Operational" or "Down") are what the component renders.
- A status is up, down or other: a heartbeat may store any text.
- `everOn` is a ghost: the monitors a page ever had.

## 3. Properties and runs

Of the backend, for monitors never disturbed: `OneStory` (between two handlings
table, newest result and newest alert agree), `NoRepeatedAlert`, `NoLostWrite`
(no edit, deletion or check-in is overwritten), `OverdueVerdictIsCurrent`,
`ReportsArePublished` (the refinement), and `CachedPageIsCurrent` for those not
blurred either. `DownNeedsAllRetries`, `ChecksWindDown` (nothing gives a check
under way more to do) and the type invariant hold of all. The properties of
undisturbed monitors say that each handler, run after the others, does its part.
They do not catch the hazards in which handlers of one monitor overlap or a
statement of theirs fails: there the code does lose writes and repeat alerts, as
the findings show, and `PROJECT.json` lists these hazards without them. `IInv` and
`PagesMatch` are their inductive strengthenings, checked before they were proved,
as is `ConsoleInv` for the console.

Of the session: `AdminExists`, `SetupComesFirst` (without users a settled tab is
on the set-up form), `SetupEntersOwnAccount`, `WaitsForAnswers`, and that the loader, the set-up, a
signed-out tab and the forms come to an end. Of the console: `ListIsCurrent` (a
list at rest that nobody else changed is the table), `DeletedGroupIsEmpty` (a
deletion leaves no monitor behind in the group), `EditKeepsTheRest` and
`EditArrives`. `DeletedGroupIsEmpty` excepts the groups in `refilled`. Without
that it is false of the code: `UpdateMonitor` reads a row with its group
(monitor_service.go:46), the group is emptied and deleted, and the Save at line 72
brings the old group_id back, as do the whole-row writes of checks and heartbeats. Of the public view: `OnlyPageMembers` and
`ViewConverges`.

| Run | States | Bounds | Shows |
|---|---|---|---|
| push | 500 000 | 2 monitors in one sweep, pushed, probed or without a probe; 1 heartbeat, 1 edit, 1 check at once; ages to 2 with grace 1; database failures, crash | the safety properties, the inductive invariant, the refinement |
| public_page | 8 300 | 1 shown monitor, 2 visitors, 2 checks, 1 edit; db, redis and crash | types, the cached page and its inductive invariant |
| live_push | 210 000 | 1 pushed monitor, heartbeats (down or another status) and edits at any time, grace 0 | a missed heartbeat is marked and announced; the loop returns |
| live_checks | 270 000 | 1 probed monitor, retries 1 and -1 | checks end, with the right number of attempts |
| session | 890 000 | 2 names, 1 tab, 2 submissions at once, 2 public pages; 2 checks at once by clicking on; failing checks, lists and statements, expiry | administrator, set-up first, set-up enters its account |
| session_live | 67 000 | 1 name, 1 tab, 1 submission, 1 registration from elsewhere, back to the set-up form at any time; failing checks and statements, lost requests, expiry | loader, set-up, signed-out tab and forms come to an end |
| console | 880 000 | 2 ids, 1 tab, 2 mutations, each with one dialog, 1 check or heartbeat at a time; seven tours of pages visited together, with lost requests and answers, failing statements or checks | lists, groups, edits, the inductive invariant |
| public_view | 1 190 000 | 2 monitors, 2 slugs, 2 tabs; 1 change, 1 failure | no foreign monitors; every tab converges |

The overlaps of two writers of one monitor are excepted from the claims, so one
request of each kind per step is enough in `push`; two monitors show that one
goroutine never writes into the other's row. `SomeClear` and `NoneDisturbed` are
state constraints: the ghosts only grow, so in a state where every monitor is
disturbed (blurred) the claims are vacuous in it and in every later one, and TLC
does not expand it; `push` looks at the behaviours in which no monitor is
disturbed at all, the theorems at all others. A property is still evaluated in
every state reached. One tab and one registration from elsewhere give every
order of two registrations and of a registration and a check: in `session` the two
come from one tab whose first form is gone by then, in `session_live` from the tab
and from elsewhere. In `console` two
mutations are one that is answered while another is sent or while its list is
read; a tour is the pages visited together, since pages that share no list do not
meet, and what may go wrong on it; the checks join the tour of the groups, where
their rows bring a group back. In `public_view` one change is enough for a convergence property:
the changes before the last one differ only in the tables it starts from. Dead
ends exist where mutations are used up or where nobody types
(`CHECK_DEADLOCK FALSE` for the client's runs except `public_view`).

| Finding | Property violated | What happens |
|---|---|---|
| edit_lost | `EditsStick` | a check undoes a PUT that was answered with success |
| deletion_undone | `DeletedStaysDeleted` | a check inserts a deleted monitor again |
| cache_stale | `CachedStatusIsCurrent` | a visitor between invalidation and write caches the old status |
| page_wiped | `PageEditKeepsTheRest` | saving the dialog of a status page removes its monitors |

Fairness. In `UptimeSystem`: weak fairness of the clock and of the loop (a
ticker and one goroutine that always runs), of each goroutine once started (Go's
scheduler is fair, every probe has a timeout and a failed database call
returns), of each visit of a monitor in the sweep (a `for` over a finite slice)
and of the expiry in Redis. In `WebSession`: requests are answered or fail, the
dashboard's 30 s timer fires, registrations are served. In `PublicView`: the 30 s
timer of the query fires, requests are served and answered, entries expire after
their five minutes. Nothing makes an agent, an operator or a visitor act, no
probe has to succeed and no token has to expire.

## 4. Proofs

`UptimeProofs` proves, from `TableAssumption` alone (disjoint identifiers, types
of the constants, no bound on any set):

- `TypeCorrect`: `Spec => [](TypeOK /\ WorkingCopy)`
- `InvariantHolds`: `Spec => []IInv`
- `OneStoryHolds`, `AlertsDoNotRepeat`, `VerdictIsCurrent`: from `IInv`.

`OneStory` is not inductive: it is silent while a goroutine is at work. `IInv`
says in addition what is true of an undisturbed monitor at each program counter
of the one goroutine that holds it: `ObserverPhase` for checks and heartbeats
(result, then alert, then row), `VerdictPhase` for the loop (row, then result,
then alert), `EditPhase` for edits, and that there is only one holder. Then
each action either leaves the monitor and its holder alone (lemma `Untouched`),
moves the holder one phase on (lemma `Moved`), starts a holder where there was
none (`Acquired`), or disturbs the monitor, and then nothing is claimed.

`UptimeStepProofs` proves from `IInv` what a step may do:

- `NoWriteIsLost`: `Spec => NoLostWrite`. Per action: it leaves the row alone,
  is the save of an edit, deletes, grows older, or stamps a row whose `cfg`,
  `enabled` and `seen` the holder's phase ties to the table's.
- `BackendImplementsBoard`: `Spec => ReportsArePublished`. Initial states map to
  initial states; each step maps, monitor by monitor, to a decision, to the move
  of one of the three places, to the end of a report, or to a stutter. The
  phases of `IInv` give that the report ends with all three places equal.

`UptimePageProofs`, from the same assumption:

- `DownTakesAllRetries`: `Spec => []DownNeedsAllRetries`, from what the number
  of attempts is at each program counter of a check.
- `ChecksAlwaysWindDown`: `Spec => ChecksWindDown`, the safety half of
  `EveryTaskEnds`. `StepsLeft` is a natural number that every step of a check
  lowers and no other step raises, for every `max_retries`; that a check at work
  can always make such a step is left to TLC.
- `PagesAlwaysMatch`, `CachedPageAlwaysCurrent`. `CachedPageIsCurrent` is not
  inductive, since a visitor may be about to store a page. `PagesMatch`, on top of
  `IInv`, adds that no page is being built while an undisturbed, unblurred
  monitor is held; that the entry differs from the table only between a write
  and the drop that follows it (the loop and an edit write first); and that a
  check, which drops first, finds no entry left when it writes a new status.

`SessionProofs`, from `AccountsAssumption` and `SessionAssumption`:
`SessionTypeCorrect`, `AdminAlwaysExists`, `SetupAlwaysComesFirst`,
`SetupAlwaysEntersOwnAccount`, for any number of submissions, any paths and any
use of the history buttons. The invariant `SInv` adds `Guarded` (while there
is no user, no check was answered "ready", and a tab that is not on the form has
a check under way that will send it there), `CallFine` (a registration about to
create a guest has seen a user, and users are never removed) and `FormFine` (a
form that is being submitted and its registration go together, whether it is
still on the screen or not).
`AlwaysWaitsForAnswers` adds that the loader is shown only while a check is under
way (`Waits`): any end of a check takes it away, everything else adds checks. It
is the safety half of `LoaderEnds`.

`PublicViewProofs`, from `PublicAssumption`: `ViewTypeCorrect`,
`OnlyMembersShown`. The invariant `VInv` follows an answer from the tables
through Redis and the request to the screen: at each station it tells of no
monitor outside `everOn` of its slug.

`ConsoleProofs` and `ConsoleListProofs`, from `AdminAssumption` (the markers for
"none" are no ids) and `ConsoleAssumption` (tours visit pages of the console, no
row is the marker for "no row"): `ConsoleTypeCorrect`, `ConsoleCorrect`
(`Spec => []ConsoleInv`, which is inductive together with `TypeOK` and
`DeletedGroupIsEmpty`), `ListsAreCurrent`, `DeletedGroupsAreEmpty`,
`EditsKeepTheRest`, `EditsArrive`. The run has one tab and two mutations, the
theorems hold for any number of tabs, mutations, rows, tours, checks and heartbeats.

- `Fine` (types, `DialogFine`, `CallFine`) carries a form from the dialog it is
  typed into to the statement that writes it; one lemma per operation and route.
- `ListIsCurrent` speaks of lists at rest. `CopyFine` speaks of every copy, the
  one on the screen and the one in an answer that is under way: it is the
  table's unless the list is in `foreign` or a mutation of the tab itself has
  been served and not yet reacted to (`Unread`). A step of a route that changes
  what a list shows puts it into `foreign` of all other tabs and is unread in
  its own (`RowMoves`, `PageMoves`, `RouteCopies`); a reaction asks for the list
  again (`AnswerCopies`); a request is served from the table (`QueryCopies`).
  The statement that replaces the monitors of a page does neither, and need not:
  the list has no monitors (`ListedWithoutMonitors`).
- `DeletedGroupIsEmpty` breaks between the two statements of a deletion unless
  the first did its work, which is `HalfFine`. Both except the groups in
  `refilled`, and a group leaves `refilled` only when it is emptied, by
  `UngroupMonitors` alone; so it is enough to look at monitors whose group a step
  changes and at groups it deletes (`GroupsMove`). Every write of a monitor's row,
  by a form (`MonitorWritten`) or by a check or heartbeat (`WorkerGroups`), keeps
  the group the row has in the table or refills the one it brings.
- A mutation turns to "ok" only in its route (`OkIsRoute`); `EditWrites` says
  what the three routes then have written, `EditColumns` compares it column by
  column with the form and the row.

Only model-checked: everything under fairness (`OverdueIsMarked`,
`OverdueIsAnnounced`, `LoopReturns`, `EveryTaskEnds`, `LoaderEnds`,
`SetupIsLeft`, `SignedOutLeaves`, `FormsEnd`, `ViewConverges`), which the prover
does not support. All other properties of the passing runs are theorems.

## 5. Not modelled

- `Stop` of the scheduler and its wait group: `main` never returns from `Run`,
  so nothing reaches them. For the same reason they cannot interfere.
- The goroutines that send an alert, and the notifiers: each makes one call of
  another service and writes nothing back. The models end at the call of Notify.
- What a probe evaluates (HTTP status, keyword, certificate, DNS answer...): a
  function of one answer. The models let it succeed or fail freely.
- How many checks run at once: nothing in the code limits it, the runs bound it
  (`Check`, `Worker`), the theorems do not.
- Subscriptions: plain inserts and deletes that no page of the client reaches.
- The reads that only draw: history, badges and the badge dialog, the figures of
  the dashboard, the incidents and charts of the public page.
- The monitor and the times of an incident, password and domain of a status
  page, message and ping of a heartbeat: columns that are stored and that no
  decision of the code reads.
- `group_service.go`, `group_repo.go`: no route reaches them. `DeleteOlderThan`
  has no caller.
- Configuration, logging, routing, migration, deployment: wiring without state.
