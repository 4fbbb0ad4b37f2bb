------------------------------ MODULE Scheduler ------------------------------
(***************************************************************************)
(* internal/scheduler/scheduler.go: the loop that wakes up every 10 s,     *)
(* reads all monitors, judges the push monitors itself and starts one      *)
(* goroutine per check of the others.                                      *)
(***************************************************************************)
EXTENDS MonitorTable

\* One period of the ticker passes.  The channel keeps at most one tick.
Clock ==
  /\ ticker' = TRUE
  /\ monitors' = [m \in Monitor |-> Older(monitors[m])]
  /\ sweep' = [m \in Monitor |-> Older(sweep[m])]
  /\ task' = [t \in Task |-> [task[t] EXCEPT !.row = Older(task[t].row)]]
  /\ UNCHANGED <<newest, alerts, pages, ghosts>>

LoopIdle == task[Loop].pc = "idle" /\ \A m \in Monitor : sweep[m] = NoRow

\* Variant: does not skip disabled monitors.
ScheduledAll == {m \in Monitor : Live(m)}

\* The monitors scheduleJobs does not skip.
Scheduled == {m \in Monitor : Live(m) /\ monitors[m].enabled}

\* GetAll: one snapshot of the table, visited row by row afterwards.
ScheduleJobs ==
  /\ ticker /\ LoopIdle
  /\ ticker' = FALSE
  /\ \/ /\ sweep' = [m \in Monitor |-> IF m \in Scheduled THEN monitors[m] ELSE NoRow]
        /\ Acquire(Scheduled)
     \/ "db" \in Faults /\ UNCHANGED <<sweep, ghosts>>
  /\ UNCHANGED <<monitors, task, newest, alerts, pages>>

-----------------------------------------------------------------------------
(* executeCheck *)

\* Variant: the goroutine captures the loop variable.
StartCheckCaptured(t, m) ==
  /\ task[Loop].pc = "idle" /\ sweep[m] # NoRow
  /\ sweep[m].cfg \in ProbedConfig
  /\ \E k \in Monitor : sweep[k] # NoRow /\ Begin(t, "probe", m, sweep[k], "")
  /\ sweep' = [sweep EXCEPT ![m] = NoRow]
  /\ UNCHANGED <<monitors, ticker, newest, alerts, pages, ghosts>>

\* go s.executeCheck(m), on the copy of the row the sweep read.
StartCheck(t, m) ==
  /\ task[Loop].pc = "idle" /\ sweep[m] # NoRow
  /\ sweep[m].cfg \in ProbedConfig
  /\ Begin(t, "probe", m, sweep[m], "")
  /\ sweep' = [sweep EXCEPT ![m] = NoRow]
  /\ UNCHANGED <<monitors, ticker, newest, alerts, pages, ghosts>>

\* The goroutine of a type without a probe returns at once.
SkipUnknownType(m) ==
  /\ task[Loop].pc = "idle" /\ sweep[m] # NoRow
  /\ sweep[m].cfg \notin PushConfig \cup ProbedConfig
  /\ sweep' = [sweep EXCEPT ![m] = NoRow]
  /\ UNCHANGED <<monitors, ticker, task, newest, alerts, pages, ghosts>>

\* Variant: one attempt short.
FewerRetries(c) == IF Retries[c] < 1 THEN 0 ELSE Retries[c] - 1

\* Default to 0 retries if not set (or negative)
MaxRetries(c) == IF Retries[c] < 0 THEN 0 ELSE Retries[c]

ProbeSucceeds(t) ==
  /\ task[t].pc = "probe"
  /\ task' = [task EXCEPT ![t].pc = "record", ![t].status = "up"]
  /\ UNCHANGED <<monitors, sweep, ticker, newest, alerts, pages, ghosts>>

\* Variant: starts over when the attempts are used up.
ProbeFailsForEver(t) ==
  /\ task[t].pc = "probe"
  /\ task' = [task EXCEPT ![t].tries =
                IF task[t].tries < MaxRetries(task[t].row.cfg) THEN task[t].tries + 1 ELSE 0]
  /\ UNCHANGED <<monitors, sweep, ticker, newest, alerts, pages, ghosts>>

ProbeFails(t) ==
  /\ task[t].pc = "probe"
  /\ LET more == task[t].tries < MaxRetries(task[t].row.cfg)
     IN  task' = [task EXCEPT ![t].pc = IF more THEN "probe" ELSE "record",
                              ![t].status = IF more THEN "" ELSE "down",
                              ![t].tries = task[t].tries + 1]
  /\ UNCHANGED <<monitors, sweep, ticker, newest, alerts, pages, ghosts>>

\* Variant: the fields Status and Message of the result are swapped.
RecordCheckSwapped(t) ==
  /\ task[t].pc = "record"
  /\ SaveResult(task[t].id, IF task[t].status = "up" THEN "OK" ELSE "timeout")
  /\ Goto(t, "notify")
  /\ UNCHANGED <<monitors, sweep, ticker, alerts, pages, blurred>>

RecordCheck(t) ==
  /\ task[t].pc = "record"
  /\ SaveResult(task[t].id, task[t].status)
  /\ Goto(t, "notify")
  /\ UNCHANGED <<monitors, sweep, ticker, alerts, pages, blurred>>

\* Compares with the LastStatus of the copy; alerts and drops the cached page
\* on a change, and stamps the copy.  The row itself is still the old one.
CompareCheck(t) ==
  /\ task[t].pc = "notify"
  /\ IF task[t].row.status # task[t].status
     THEN Notify(task[t].id, task[t].status) /\ InvalidatePage(task[t].id)
     ELSE UNCHANGED <<alerts, cache, ghosts>>
  /\ task' = [task EXCEPT ![t].pc = "save", ![t].row = Stamp(task[t].row, task[t].status)]
  /\ UNCHANGED <<monitors, sweep, ticker, newest, page>>

SaveCheck(t) ==
  /\ task[t].pc = "save"
  /\ SaveMonitor(task[t].id, task[t].row)
  /\ Finish(t)
  /\ UNCHANGED <<sweep, ticker, newest, alerts, pages, blurred>>

-----------------------------------------------------------------------------
(* checkPushMonitor, run by the loop itself: it blocks the rest of the sweep *)

\* Variant: does not look at LastStatus.
LateHeartbeatAgain(m) == Overdue(sweep[m])

\* Variant: judges only monitors that were up.
LateHeartbeatUp(m) == Overdue(sweep[m]) /\ sweep[m].status = "up"

LateHeartbeat(m) == Overdue(sweep[m]) /\ sweep[m].status # "down"

PassPushMonitor(m) ==
  /\ task[Loop].pc = "idle" /\ sweep[m] # NoRow
  /\ sweep[m].cfg \in PushConfig /\ ~LateHeartbeat(m)
  /\ sweep' = [sweep EXCEPT ![m] = NoRow]
  /\ UNCHANGED <<monitors, ticker, task, newest, alerts, pages, ghosts>>

\* LastStatus becomes "down" on the copy, LastCheckedAt is kept.
FailPushMonitor(m) ==
  /\ sweep[m] # NoRow
  /\ sweep[m].cfg \in PushConfig /\ LateHeartbeat(m)
  /\ Begin(Loop, "save", m, [sweep[m] EXCEPT !.status = "down"], "down")
  /\ sweep' = [sweep EXCEPT ![m] = NoRow]
  /\ UNCHANGED <<monitors, ticker, newest, alerts, pages, ghosts>>

\* Variant: repeats the write.
SaveOverdueForEver ==
  /\ task[Loop].pc = "save"
  /\ SaveMonitor(task[Loop].id, task[Loop].row)
  /\ UNCHANGED <<sweep, ticker, task, newest, alerts, pages, blurred>>

SaveOverdue ==
  /\ task[Loop].pc = "save"
  /\ SaveMonitor(task[Loop].id, task[Loop].row)
  /\ Goto(Loop, "record")
  /\ UNCHANGED <<sweep, ticker, newest, alerts, pages, blurred>>

\* Variant: returns before the alert.
RecordOverdueOnly ==
  /\ task[Loop].pc = "record"
  /\ SaveResult(task[Loop].id, "down")
  /\ Finish(Loop)
  /\ UNCHANGED <<monitors, sweep, ticker, alerts, pages, blurred>>

RecordOverdue ==
  /\ task[Loop].pc = "record"
  /\ SaveResult(task[Loop].id, "down")
  /\ Goto(Loop, "notify")
  /\ UNCHANGED <<monitors, sweep, ticker, alerts, pages, blurred>>

NotifyOverdue ==
  /\ task[Loop].pc = "notify"
  /\ Notify(task[Loop].id, "down")
  /\ InvalidatePage(task[Loop].id)
  /\ Finish(Loop)
  /\ UNCHANGED <<monitors, sweep, ticker, newest, page>>

-----------------------------------------------------------------------------
CheckStep(t) == ProbeSucceeds(t) \/ ProbeFails(t) \/ RecordCheck(t)
                  \/ CompareCheck(t) \/ SaveCheck(t)

VisitMonitor(m) == SkipUnknownType(m) \/ PassPushMonitor(m) \/ FailPushMonitor(m)
                     \/ \E t \in Check : StartCheck(t, m)

OverdueStep == SaveOverdue \/ RecordOverdue \/ NotifyOverdue

SchedulerNext ==
  \/ Clock
  \/ ScheduleJobs
  \/ \E m \in Monitor : VisitMonitor(m)
  \/ \E t \in Check : CheckStep(t)
  \/ OverdueStep
=============================================================================
