--------------------------- MODULE UptimeInvariant ---------------------------
(***************************************************************************)
(* The strengthening that makes OneStory, NoRepeatedAlert and              *)
(* OverdueVerdictIsCurrent inductive: what is true of an undisturbed       *)
(* monitor at each step of the one goroutine that handles it.              *)
(***************************************************************************)
EXTENDS UptimeSystem

Settled(m) == newest[m] = StatusOf(m) /\ announced[m] = StatusOf(m)

\* A check or a heartbeat: result first, then alert, then row.
ObserverPhase(t, m) ==
  LET r == task[t].row
  IN  /\ task[t].pc \in {"probe", "record", "notify", "save"} => Live(m)
      /\ task[t].pc \in {"probe", "record"} => r = monitors[m] /\ Settled(m)
      /\ task[t].pc = "notify" =>
           /\ r = monitors[m] /\ announced[m] = StatusOf(m)
           /\ newest[m] = task[t].status
      /\ task[t].pc = "save" =>
           /\ newest[m] = r.status /\ announced[m] = r.status
           /\ r.enabled = monitors[m].enabled /\ r.cfg = monitors[m].cfg
           /\ monitors[m].seen # Never => r.seen \in 0 .. monitors[m].seen

\* The verdict "overdue": row first, then result, then alert.
VerdictPhase(m) ==
  LET r == task[Loop].row
  IN  /\ task[Loop].pc = "save" =>
           /\ Live(m) /\ monitors[m].enabled /\ Overdue(monitors[m])
           /\ r.enabled = monitors[m].enabled /\ r.cfg = monitors[m].cfg
           /\ r.status = "down" /\ r.seen = monitors[m].seen
           /\ announced[m] # "down"
      /\ task[Loop].pc \in {"record", "notify"} =>
           /\ Live(m) /\ monitors[m].status = "down" /\ announced[m] # "down"
      /\ task[Loop].pc = "notify" => newest[m] = "down"

\* An edit holds the status and the check-in the table has.
EditPhase(t, m) ==
  /\ task[t].pc \in {"save", "invalidate"} => Settled(m)
  /\ task[t].pc = "save" =>
       /\ Live(m) /\ task[t].row.status = monitors[m].status
       /\ task[t].row.seen = monitors[m].seen /\ ~task[t].row.deleted

Coherent(m) ==
  /\ \A t, u \in Task : task[t].id = m /\ task[u].id = m => t = u
  /\ sweep[m] # NoRow =>
       /\ sweep[m] = monitors[m] /\ Live(m) /\ monitors[m].enabled
       /\ Settled(m)
       /\ \A t \in Task : task[t].id # m
  /\ sweep[m] = NoRow /\ (\A t \in Task : task[t].id # m) => Settled(m)
  /\ \A t \in Check \cup Heartbeat : task[t].id = m => ObserverPhase(t, m)
  /\ task[Loop].id = m => VerdictPhase(m)
  /\ \A t \in Edit : task[t].id = m => EditPhase(t, m)

Story == repeated \subseteq disturbed /\ \A m \in Monitor \ disturbed : Coherent(m)

IInv == TypeOK /\ WorkingCopy /\ Story

(***************************************************************************)
(* The strengthening of CachedPageIsCurrent.  No page is being built while *)
(* a monitor that is neither disturbed nor blurred is handled; the entry   *)
(* in Redis may differ from the table only between a write and the drop    *)
(* that follows it, or, for a check, not even then: it drops before it     *)
(* writes.                                                                 *)
(***************************************************************************)
Dropping(t) ==
  \/ t \in Edit /\ task[t].pc = "invalidate"
  \/ t = Loop /\ task[t].pc \in {"record", "notify"}

PageMatches(m) ==
  /\ \A p \in Page : page[p] \in PageView => ~Held(m) /\ page[p][m] = ShownOf(m)
  /\ cache # NoPage =>
       /\ (\A t \in Task : task[t].id = m => ~Dropping(t)) => cache[m] = ShownOf(m)
       /\ \A t \in Check : task[t].id = m /\ task[t].pc = "save"
                           => task[t].row.status = monitors[m].status

PagesMatch ==
  /\ \A t \in Heartbeat : task[t].id \in Token \cup {NoMonitor}
  /\ \A m \in OnPage \ (Token \cup disturbed \cup blurred) : PageMatches(m)
=============================================================================
