---------------------------- MODULE UptimeSystem ----------------------------
(***************************************************************************)
(* The backend as one process: the scheduler, the push endpoint, the       *)
(* monitor API and the public page over one table and one cache, and the   *)
(* crash of that process.                                                  *)
(***************************************************************************)
EXTENDS Scheduler, PushService, MonitorApi, StatusPage

\* The process dies and docker restarts it: goroutines, requests and the
\* ticker are gone, PostgreSQL and Redis are not.  main never reaches the
\* deferred Stop, so a deployment ends the process in the same way.
Crash ==
  /\ "crash" \in Faults
  /\ sweep' = [m \in Monitor |-> NoRow]
  /\ ticker' = FALSE
  /\ task' = [t \in Task |-> [pc |-> "idle", id |-> NoMonitor, row |-> NoRow,
                              status |-> "", tries |-> 0]]
  /\ page' = [p \in Page |-> NoPage]
  /\ disturbed' = disturbed \cup {m \in Monitor : Held(m)}
  /\ UNCHANGED <<monitors, newest, announced, repeated, cache, blurred>>

Next == SchedulerNext \/ PushNext \/ ApiNext \/ PageNext \/ Crash

Spec == Init /\ [][Next]_vars

\* The ticker ticks, the loop serves it, a goroutine that runs goes on (every
\* probe has a timeout, every database call returns) and Redis drops what
\* expired.  Nothing obliges a visitor, an operator or an agent to call.
Fairness ==
  /\ WF_vars(Clock) /\ WF_vars(ScheduleJobs) /\ WF_vars(OverdueStep)
  /\ \A m \in Monitor : WF_vars(VisitMonitor(m))
  /\ \A t \in Check : WF_vars(CheckStep(t))
  /\ \A t \in Heartbeat : WF_vars(HeartbeatStep(t))
  /\ \A t \in Edit : WF_vars(EditStep(t))
  /\ WF_vars(ExpirePage)

FairSpec == Spec /\ Fairness

-----------------------------------------------------------------------------
TypeOK ==
  /\ monitors \in [Monitor -> Row \cup {NoRow}]
  /\ sweep \in [Monitor -> Row \cup {NoRow}]
  /\ ticker \in BOOLEAN
  /\ task \in [Task -> TaskState]
  /\ newest \in [Monitor -> Status]
  /\ announced \in [Monitor -> Status]
  /\ repeated \subseteq Monitor
  /\ cache \in PageView \cup {NoPage}
  /\ page \in [Page -> PageView \cup {NoPage, Missed}]
  /\ disturbed \subseteq Monitor
  /\ blurred \subseteq Monitor

\* A goroutine that probes, compares or writes has a row in hand: no path leads
\* past the nil results of the repository (push_service.go:37-43,
\* monitor_service.go:46-52), and an idle one has let go of its monitor.
WorkingCopy ==
  \A t \in Task :
    /\ task[t].pc \in {"probe", "record", "notify", "save"} => task[t].row # NoRow
    /\ task[t].pc = "idle" <=> task[t].id = NoMonitor

StatusOf(m) == IF monitors[m] = NoRow THEN "" ELSE monitors[m].status

(* Safety *)

\* Between two handlings of a monitor the table, the newest check result and
\* the newest alert tell the same status: no change went unannounced and no
\* alert was raised for a change that did not stay (scheduler.go:191-236,
\* push_service.go:49-77).  It is claimed for monitors whose writers never
\* overlapped, failed or crashed.
OneStory ==
  \A m \in Monitor \ disturbed : ~Held(m) =>
    newest[m] = StatusOf(m) /\ announced[m] = StatusOf(m)

\* No two consecutive alerts of a monitor say the same: only changes alert
\* (scheduler.go:209, scheduler.go:121, push_service.go:63).
NoRepeatedAlert == repeated \subseteq disturbed

\* When the loop is about to write the verdict "Heartbeat overdue" the table
\* agrees: the monitor is there, enabled and overdue (scheduler.go:110-128).
OverdueVerdictIsCurrent ==
  task[Loop].pc = "save" /\ task[Loop].id \notin disturbed =>
    LET m == task[Loop].id
    IN  Live(m) /\ monitors[m].enabled /\ Overdue(monitors[m])

\* A check concludes "down" after exactly 1 + max_retries failures, "up" after
\* at most max_retries of them, a negative max_retries counting as none
\* (scheduler.go:161-189).
DownNeedsAllRetries ==
  \A t \in Check : task[t].pc \in {"record", "notify"} =>
    LET most == IF Retries[task[t].row.cfg] >= 0 THEN Retries[task[t].row.cfg] ELSE 0
    IN  /\ task[t].status = "down" => task[t].tries = most + 1
        /\ task[t].status = "up" => task[t].tries <= most

\* A cached page shows of a monitor what the table holds.  Excepted are the
\* monitors with a push token, whose heartbeats do not invalidate, those whose
\* handling is under way, and those that were ever disturbed or blurred
\* (status_page_handler.go:107-185, scheduler.go:218, monitor_handler.go:34).
CachedPageIsCurrent ==
  cache # NoPage =>
    \A m \in OnPage \ (Token \cup disturbed \cup blurred) :
      ~Held(m) => cache[m] = ShownOf(m)

\* The page as TECH_DESIGN.md:12 describes it, in real time: once no handler
\* holds a monitor the cached page does not show a status it no longer has.
CachedStatusIsCurrent ==
  cache # NoPage =>
    \A m \in OnPage : ~Held(m) /\ Live(m) /\ cache[m] # NoRow
      => cache[m].status = StatusOf(m)

-----------------------------------------------------------------------------
(* What a step may never do *)

\* Configuration and enabled flag change only when a PUT saves them.
KeepsEdit(m) ==
  Live(m) /\ Live(m)' /\ <<monitors[m].cfg, monitors[m].enabled>>'
                           # <<monitors[m].cfg, monitors[m].enabled>>
    => \E t \in Edit : task[t].id = m /\ task[t].pc = "save"

\* A soft-deleted row never comes back.
KeepsDeletion(m) ==
  monitors[m] # NoRow /\ monitors[m].deleted => monitors'[m].deleted

\* LastCheckedAt never moves back: it gets older only with the clock.
KeepsCheckIn(m) ==
  Live(m) /\ Live(m)' /\ monitors[m].seen # Never
    => \/ monitors'[m] = Older(monitors[m])
       \/ monitors'[m].seen \in 0 .. monitors[m].seen

\* A monitor whose writers never overlapped loses no edit, deletion or
\* check-in to the whole-row write of a check, a heartbeat or an edit
\* (scheduler.go:234, push_service.go:77, monitor_service.go:72).
NoLostWrite ==
  [][\A m \in Monitor \ disturbed' :
       KeepsEdit(m) /\ KeepsDeletion(m) /\ KeepsCheckIn(m)]_vars

\* The same for every monitor: an edit answered with "Monitor updated
\* successfully" (monitor_handler.go:95) stays until the next edit,
EditsStick == [][\A m \in Monitor : KeepsEdit(m)]_vars

\* a monitor answered with "Monitor deleted successfully"
\* (monitor_handler.go:114) stays deleted.
DeletedStaysDeleted == [][\A m \in Monitor : KeepsDeletion(m)]_vars

\* How many steps a check has still to do: its attempts, the result, the alert
\* and the row.
StepsLeft(t) ==
  CASE task[t].pc = "probe" -> 4 + MaxRetries(task[t].row.cfg) - task[t].tries
    [] task[t].pc = "record" -> 3
    [] task[t].pc = "notify" -> 2
    [] task[t].pc = "save" -> 1
    [] OTHER -> 0

\* Only the copy a check holds grows older.
OnlyAges(t) == \E r \in {task[t].row, Older(task[t].row)} : task'[t] = [task[t] EXCEPT !.row = r]

\* A check that is at work does not go back: no step of its own repeats an
\* attempt beyond max_retries, and no edit, no later sweep and no other goroutine
\* gives it more to do (scheduler.go:149-237).
ChecksWindDown ==
  [][\A t \in Check : task[t].pc # "idle" =>
       /\ StepsLeft(t) > 0
       /\ StepsLeft(t)' \in 0 .. StepsLeft(t) - 1 \/ OnlyAges(t)]_vars

-----------------------------------------------------------------------------
(* Liveness *)

\* An enabled push monitor that has missed its heartbeat.
Lapsed(m) ==
  /\ Live(m) /\ monitors[m].enabled /\ monitors[m].cfg \in PushConfig
  /\ Overdue(monitors[m])

\* A missed heartbeat is reported: the status becomes "down" unless the agent
\* checks in or an operator changes the monitor (scheduler.go:83-147).
OverdueIsMarked ==
  \A m \in Monitor : Lapsed(m) ~> (~Lapsed(m) \/ monitors[m].status = "down")

\* ... and announced, for a monitor whose writers never overlapped.
OverdueIsAnnounced ==
  \A m \in Monitor :
    Lapsed(m) ~> (~Lapsed(m) \/ announced[m] = "down" \/ m \in disturbed)

\* The loop always comes back to its ticker, whatever it finds in the sweep.
LoopReturns == []<>LoopIdle

\* Every goroutine and request ends: no check retries for ever.
EveryTaskEnds == \A t \in Task : []<>(task[t].pc = "idle")
=============================================================================
