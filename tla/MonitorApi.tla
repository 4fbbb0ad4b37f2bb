----------------------------- MODULE MonitorApi -----------------------------
(***************************************************************************)
(* internal/api/handlers/monitor_handler.go over                           *)
(* internal/services/monitor_service.go: an operator creates, changes and  *)
(* deletes monitors.  Each handler drops the cached page after its write.  *)
(* A request that fails validation or finds no monitor changes nothing.    *)
(***************************************************************************)
EXTENDS MonitorTable

\* INSERT: gorm leaves out zero columns that have a database default, so a
\* monitor created with enabled = false is enabled.
CreateMonitor(t, m, c) ==
  /\ monitors[m] = NoRow
  /\ Begin(t, "invalidate", m, NoRow, "")
  /\ monitors' = [monitors EXCEPT ![m] =
       [deleted |-> FALSE, enabled |-> TRUE, cfg |-> Refill[c], status |-> "", seen |-> Never]]
  /\ Acquire({m})
  /\ UNCHANGED <<sweep, ticker, newest, alerts, pages>>

\* Variant: takes LastCheckedAt from the request, where it is missing.
ReadForUpdateAll(t, m, c, on) ==
  /\ Live(m)
  /\ Begin(t, "save", m, [monitors[m] EXCEPT !.cfg = c, !.enabled = on, !.seen = Never], "")
  /\ Acquire({m})
  /\ UNCHANGED <<monitors, sweep, ticker, newest, alerts, pages>>

\* UpdateMonitor reads the row and copies the submitted columns into it.
\* LastStatus and LastCheckedAt stay those that were read.
ReadForUpdate(t, m, c, on) ==
  /\ Live(m)
  /\ Begin(t, "save", m, [monitors[m] EXCEPT !.cfg = c, !.enabled = on], "")
  /\ Acquire({m})
  /\ UNCHANGED <<monitors, sweep, ticker, newest, alerts, pages>>

\* A failed write is answered with 500, before the invalidation.
SaveUpdate(t) ==
  /\ task[t].pc = "save"
  /\ \/ /\ monitors' = [monitors EXCEPT ![task[t].id] = Saved(task[t].id, task[t].row)]
        /\ Goto(t, "invalidate")
        /\ UNCHANGED disturbed
     \/ /\ "db" \in Faults
        /\ disturbed' = disturbed \cup {task[t].id}
        /\ Finish(t)
        /\ UNCHANGED monitors
  /\ UNCHANGED <<sweep, ticker, newest, alerts, pages, blurred>>

\* A soft delete; a second one matches no row and is answered like the first.
DeleteMonitor(t, m) ==
  /\ monitors[m] # NoRow
  /\ Begin(t, "invalidate", m, NoRow, "")
  /\ monitors' = [monitors EXCEPT ![m].deleted = TRUE]
  /\ Acquire({m})
  /\ UNCHANGED <<sweep, ticker, newest, alerts, pages>>

InvalidateAfterEdit(t) ==
  /\ task[t].pc = "invalidate"
  /\ InvalidatePage(task[t].id)
  /\ Finish(t)
  /\ UNCHANGED <<monitors, sweep, ticker, newest, alerts, page, disturbed>>

EditStep(t) == SaveUpdate(t) \/ InvalidateAfterEdit(t)

ApiNext ==
  \E t \in Edit :
    \/ \E m \in Monitor, c \in Config : CreateMonitor(t, m, c)
    \/ \E m \in Monitor, c \in Config, on \in BOOLEAN : ReadForUpdate(t, m, c, on)
    \/ \E m \in Monitor : DeleteMonitor(t, m)
    \/ EditStep(t)
=============================================================================
