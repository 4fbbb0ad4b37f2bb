---------------------------- MODULE MonitorTable ----------------------------
(***************************************************************************)
(* The monitors table and everything else the handlers of the backend      *)
(* share: the check_results and notification history as far as the         *)
(* properties tell it apart, the Redis entry of the default status page,   *)
(* and one program counter per goroutine that works on a monitor.          *)
(*                                                                         *)
(* Every writer of a monitor (scheduler check, push check, heartbeat, PUT, *)
(* DELETE) follows the same pattern: read the whole row, work on the copy, *)
(* write the whole row back with gorm's Save.  Nothing locks the row in    *)
(* between.  The modules that extend this one hold those writers.          *)
(***************************************************************************)
EXTENDS Integers

CONSTANTS
  Monitor,        \* ids of the monitors that may ever be created
  Config,         \* what an operator may configure: type, target, interval...
  PushConfig,     \* the configurations of type push
  ProbedConfig,   \* the configurations of a type that has a probe
  Retries,        \* [Config -> Int], the max_retries column
  Grace,          \* [Config -> Nat], Interval + 30 s, in clock ticks
  Refill,         \* [Config -> Config], zero columns replaced by defaults
  Token,          \* the monitors created with a push token
  OnPage,         \* the monitors the default status page shows
  MaxAge,         \* bound: the age at which LastCheckedAt stops ageing
  Check,          \* bound: executeCheck goroutines that may run at once
  Heartbeat,      \* bound: push requests served at once
  Edit,           \* bound: create, update and delete requests served at once
  Loop,           \* the scheduler goroutine itself
  Page,           \* bound: status page requests served at once
  HeartbeatStatus,\* values of the status query parameter
  Faults,         \* which of "db", "redis" and "crash" may happen
  NoRow, NoMonitor, NoPage, Missed

Task == Check \cup Heartbeat \cup Edit \cup {Loop}

\* "other" stands for any text a heartbeat may send: it is not validated.
Status == {"", "up", "down", "other"}

\* A nil LastCheckedAt.
Never == -1

\* One row of the monitors table.  `seen' is the age of LastCheckedAt.
Row == [deleted : BOOLEAN, enabled : BOOLEAN, cfg : Config,
        status : Status, seen : {Never} \cup (0 .. MaxAge)]

PC == {"idle", "probe", "save", "record", "notify", "invalidate"}

\* A goroutine at work: the copy of the row it read, the status it concluded
\* and the probe attempts that failed.
TaskState == [pc : PC, id : Monitor \cup {NoMonitor}, row : Row \cup {NoRow},
              status : Status, tries : Nat]

\* What a visitor of the status page sees of a monitor, or NoRow.
Shown == [cfg : Config, status : Status]
PageView == [Monitor -> Shown \cup {NoRow}]

ASSUME TableAssumption ==
  /\ PushConfig \subseteq Config /\ ProbedConfig \subseteq Config
  /\ PushConfig \cap ProbedConfig = {}
  /\ Retries \in [Config -> Int] /\ Grace \in [Config -> Nat]
  /\ Refill \in [Config -> Config]
  /\ Token \subseteq Monitor /\ OnPage \subseteq Monitor
  /\ MaxAge \in Nat
  /\ Check \cap Heartbeat = {} /\ Check \cap Edit = {} /\ Heartbeat \cap Edit = {}
  /\ Loop \notin Check \cup Heartbeat \cup Edit
  /\ HeartbeatStatus \subseteq Status
  /\ Faults \subseteq {"db", "redis", "crash"}
  /\ NoMonitor \notin Monitor /\ NoRow \notin Row /\ NoRow \notin Shown
  /\ NoPage \notin PageView /\ Missed \notin PageView \cup {NoPage}

VARIABLES
  monitors,   \* [Monitor -> Row or NoRow]: the table, soft-deleted rows too
  sweep,      \* [Monitor -> Row or NoRow]: rows scheduleJobs has yet to visit
  ticker,     \* a tick waits in the scheduler's ticker channel (capacity 1)
  task,       \* [Task -> TaskState]: the goroutines
  newest,     \* [Monitor -> Status]: status of the newest check_results row
  announced,  \* [Monitor -> Status]: status of the newest alert
  repeated,   \* ghost: monitors that got two equal alerts in a row
  cache,      \* the Redis entry public_status_page_default, or NoPage
  page,       \* [Page -> view a GetStatus request has read; Missed while it
              \* has only missed the cache; NoPage when there is none]
  disturbed,  \* ghost: see Acquire
  blurred     \* ghost: see Acquire

vars == <<monitors, sweep, ticker, task, newest, announced, repeated,
          cache, page, disturbed, blurred>>

Init ==
  /\ monitors = [m \in Monitor |-> NoRow]
  /\ sweep = [m \in Monitor |-> NoRow]
  /\ ticker = FALSE
  /\ task = [t \in Task |-> [pc |-> "idle", id |-> NoMonitor, row |-> NoRow,
                             status |-> "", tries |-> 0]]
  /\ newest = [m \in Monitor |-> ""]
  /\ announced = [m \in Monitor |-> ""]
  /\ repeated = {}
  /\ cache = NoPage
  /\ page = [p \in Page |-> NoPage]
  /\ disturbed = {}
  /\ blurred = {}

-----------------------------------------------------------------------------
(* Rows *)

Live(m) == monitors[m] # NoRow /\ ~monitors[m].deleted

\* time.Since(*m.LastCheckedAt) > gracePeriod
Overdue(r) == r.seen # Never /\ r.seen > Grace[r.cfg]

\* LastCheckedAt is an instant: the same age is added to every copy of it.
Older(r) ==
  IF r = NoRow \/ r.seen = Never THEN r
  ELSE [r EXCEPT !.seen = IF r.seen < MaxAge THEN r.seen + 1 ELSE r.seen]

\* Variant: LastStatus is not updated.
StampTimeOnly(r, s) == [r EXCEPT !.seen = 0]

\* LastStatus = status, LastCheckedAt = now
Stamp(r, s) == [r EXCEPT !.status = s, !.seen = 0]

(***************************************************************************)
(* gorm's Save.  All columns are written to the row if it is not soft      *)
(* deleted.  If no row was affected Save falls back to INSERT ... ON       *)
(* CONFLICT DO UPDATE of all columns: the row comes back to life, with the *)
(* database default in every column that held a zero value, so enabled     *)
(* becomes true.                                                           *)
(***************************************************************************)
Saved(m, r) ==
  IF Live(m) THEN [r EXCEPT !.deleted = FALSE]
  ELSE [r EXCEPT !.deleted = FALSE, !.enabled = TRUE, !.cfg = Refill[r.cfg]]

-----------------------------------------------------------------------------
(* Goroutines *)

Held(m) == sweep[m] # NoRow \/ \E t \in Task : task[t].id = m

(***************************************************************************)
(* The two ghosts.  A monitor is disturbed once one of its writers began   *)
(* while another was between its read and its last step, or once a         *)
(* database call of a writer failed or was cut by a crash.  It is blurred  *)
(* once a status page request and a writer overlapped, or a call that      *)
(* fills or invalidates the cache failed.  No action reads them.           *)
(***************************************************************************)
Acquire(ms) ==
  /\ disturbed' = disturbed \cup {m \in ms : Held(m)}
  /\ blurred' = IF \E p \in Page : page[p] \in PageView THEN blurred \cup ms ELSE blurred

Begin(t, next, m, r, s) ==
  /\ task[t].pc = "idle"
  /\ task' = [task EXCEPT ![t] = [pc |-> next, id |-> m, row |-> r,
                                  status |-> s, tries |-> 0]]

Finish(t) ==
  task' = [task EXCEPT ![t] = [pc |-> "idle", id |-> NoMonitor, row |-> NoRow,
                               status |-> "", tries |-> 0]]

Goto(t, next) == task' = [task EXCEPT ![t].pc = next]

-----------------------------------------------------------------------------
(* What a writer does to the shared state.  A failed call is only logged. *)

SaveMonitor(m, r) ==
  \/ monitors' = [monitors EXCEPT ![m] = Saved(m, r)] /\ UNCHANGED disturbed
  \/ "db" \in Faults /\ disturbed' = disturbed \cup {m} /\ UNCHANGED monitors

SaveResult(m, s) ==
  \/ newest' = [newest EXCEPT ![m] = s] /\ UNCHANGED disturbed
  \/ "db" \in Faults /\ disturbed' = disturbed \cup {m} /\ UNCHANGED newest

\* Notify gives up when it cannot read the subscriptions.
Notify(m, s) ==
  \/ /\ announced' = [announced EXCEPT ![m] = s]
     /\ repeated' = IF announced[m] = s THEN repeated \cup {m} ELSE repeated
     /\ UNCHANGED disturbed
  \/ /\ "db" \in Faults
     /\ disturbed' = disturbed \cup {m}
     /\ UNCHANGED <<announced, repeated>>

\* Variant: the entry is kept.
KeepPage(m) == UNCHANGED <<cache, blurred>>

InvalidatePage(m) ==
  \/ cache' = NoPage /\ UNCHANGED blurred
  \/ "redis" \in Faults /\ blurred' = blurred \cup {m} /\ UNCHANGED cache

alerts == <<announced, repeated>>
pages == <<cache, page>>
ghosts == <<disturbed, blurred>>
=============================================================================
