----------------------------- MODULE UptimeBoard -----------------------------
(***************************************************************************)
(* The backend implements StatusBoard.  A report lasts from the moment a   *)
(* check has its outcome, a heartbeat has been read or the loop has found  *)
(* a heartbeat overdue, to the last write of that goroutine.               *)
(***************************************************************************)
EXTENDS UptimeInvariant

Reporting(t) == t \notin Edit /\ task[t].pc \in {"record", "notify", "save"}

Reported(m) == {task[t].status : t \in {u \in Task : task[u].id = m /\ Reporting(u)}}

BoardOf ==
  [m \in Monitor |-> [row |-> StatusOf(m), result |-> newest[m],
                      alert |-> announced[m], report |-> Reported(m)]]

Board == INSTANCE StatusBoard WITH board <- BoardOf, givenUp <- disturbed

\* Every handling of a monitor is one report: no step of the scheduler, a
\* heartbeat, an edit or a crash writes a status that was not decided on, and no
\* goroutine lets go of a monitor before its row, its newest result and its
\* newest alert agree (scheduler.go:117-147, 191-236, push_service.go:45-77).
ReportsArePublished == Board!Spec
=============================================================================
