----------------------------- MODULE PushService -----------------------------
(***************************************************************************)
(* internal/services/push_service.go: a heartbeat posted to                *)
(* /api/push/:token.  It looks the monitor up by token, whatever its type  *)
(* and whether or not it is enabled, and never touches the cached page.    *)
(***************************************************************************)
EXTENDS MonitorTable

\* Variant: no test for nil.
ReceiveHeartbeatAny(t, m, given) ==
  /\ m \in Token
  /\ Begin(t, "record", m, monitors[m], IF given = "" THEN "up" ELSE given)
  /\ Acquire({m})
  /\ UNCHANGED <<monitors, sweep, ticker, newest, alerts, pages>>

\* An unknown token is answered with 404 and changes nothing.
ReceiveHeartbeat(t, m, given) ==
  /\ m \in Token /\ Live(m)
  /\ Begin(t, "record", m, monitors[m], IF given = "" THEN "up" ELSE given)
  /\ Acquire({m})
  /\ UNCHANGED <<monitors, sweep, ticker, newest, alerts, pages>>

RecordHeartbeat(t) ==
  /\ task[t].pc = "record"
  /\ SaveResult(task[t].id, task[t].status)
  /\ Goto(t, "notify")
  /\ UNCHANGED <<monitors, sweep, ticker, alerts, pages, blurred>>

CompareHeartbeat(t) ==
  /\ task[t].pc = "notify"
  /\ IF task[t].row.status # task[t].status
     THEN Notify(task[t].id, task[t].status)
     ELSE UNCHANGED <<alerts, disturbed>>
  /\ task' = [task EXCEPT ![t].pc = "save", ![t].row = Stamp(task[t].row, task[t].status)]
  /\ UNCHANGED <<monitors, sweep, ticker, newest, pages, blurred>>

SaveHeartbeat(t) ==
  /\ task[t].pc = "save"
  /\ SaveMonitor(task[t].id, task[t].row)
  /\ Finish(t)
  /\ UNCHANGED <<sweep, ticker, newest, alerts, pages, blurred>>

HeartbeatStep(t) == RecordHeartbeat(t) \/ CompareHeartbeat(t) \/ SaveHeartbeat(t)

PushNext ==
  \E t \in Heartbeat :
    \/ \E m \in Monitor, given \in HeartbeatStatus : ReceiveHeartbeat(t, m, given)
    \/ HeartbeatStep(t)
=============================================================================
