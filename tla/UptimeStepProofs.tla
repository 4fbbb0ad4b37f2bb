-------------------------- MODULE UptimeStepProofs --------------------------
(***************************************************************************)
(* Proofs, for every value of the constants, of what a step of the backend *)
(* may do: it loses no write of an undisturbed monitor, and it is a step   *)
(* of StatusBoard.                                                         *)
(***************************************************************************)
EXTENDS UptimeBoard, UptimeProofs

(* No write is lost *)

Keeps(m) == KeepsEdit(m) /\ KeepsDeletion(m) /\ KeepsCheckIn(m)

\* A row that stays as it is keeps everything.
LEMMA SameKeeps ==
  ASSUME TypeInv, NEW m \in Monitor, monitors'[m] = monitors[m]
  PROVE  Keeps(m)
<1>1. KeepsEdit(m) /\ KeepsDeletion(m)
  BY DEF KeepsEdit, KeepsDeletion
<1>2. ASSUME Live(m), monitors[m].seen # Never
      PROVE  monitors'[m].seen \in 0 .. monitors[m].seen
  <2>1. monitors[m] \in Row
    BY <1>2 DEF TypeInv, TypeOK, Live
  <2> QED
    BY <1>2, <2>1, TableAssumption DEF Row, Never
<1>3. KeepsCheckIn(m)
  BY <1>2 DEF KeepsCheckIn
<1> QED
  BY <1>1, <1>3 DEF Keeps

LEMMA ClockKeeps ==
  ASSUME TypeInv, NEW m \in Monitor, Clock PROVE Keeps(m)
<1>1. monitors'[m] = Older(monitors[m])
  BY DEF Clock, TypeInv, TypeOK
<1>2. CASE monitors[m] = NoRow
  BY <1>2 DEF Keeps, KeepsEdit, KeepsDeletion, KeepsCheckIn, Live
<1>3. CASE monitors[m] \in Row
  BY <1>1, <1>3, OlderFields DEF Keeps, KeepsEdit, KeepsDeletion, KeepsCheckIn, Live
<1> QED
  BY <1>2, <1>3 DEF TypeInv, TypeOK

\* A check or a heartbeat writes its copy, taken from the row as it still is.
LEMMA ObserverKeeps ==
  ASSUME TypeInv, NEW t \in Check \cup Heartbeat,
         (t \in Check /\ SaveCheck(t)) \/ (t \in Heartbeat /\ SaveHeartbeat(t)),
         NEW m \in Monitor, Coherent(m)
  PROVE  Keeps(m)
<1>1. task[t].pc = "save" /\ SaveMonitor(task[t].id, task[t].row)
  BY DEF SaveCheck, SaveHeartbeat
<1>2. CASE task[t].id # m \/ monitors' = monitors
  BY <1>1, <1>2, SameKeeps DEF SaveMonitor, TypeInv, TypeOK
<1>3. CASE task[t].id = m /\ monitors' # monitors
  <2>1. t \in Task
    BY DEF Task
  <2>2. task[t].row \in Row
    BY <1>1, <2>1, AtWork
  <2>3. ObserverPhase(t, m)
    BY <1>3 DEF Coherent
  <2>4. monitors'[m] = Saved(m, task[t].row)
    BY <1>1, <1>3 DEF SaveMonitor, TypeInv, TypeOK
  <2>5. /\ Live(m) /\ monitors'[m].enabled = monitors[m].enabled
        /\ monitors'[m].cfg = monitors[m].cfg
        /\ monitors[m].seen # Never => monitors'[m].seen \in 0 .. monitors[m].seen
    BY <1>1, <2>2, <2>3, <2>4, SavedFields DEF ObserverPhase
  <2> QED
    BY <2>5 DEF Keeps, KeepsEdit, KeepsDeletion, KeepsCheckIn, Live
<1> QED
  BY <1>2, <1>3

LEMMA OverdueKeeps ==
  ASSUME TypeInv, OverdueStep, NEW m \in Monitor, Coherent(m)
  PROVE  Keeps(m)
<1>1. CASE monitors' = monitors \/ task[Loop].id # m
  BY <1>1, SameKeeps DEF OverdueStep, SaveOverdue, RecordOverdue, NotifyOverdue,
                         SaveMonitor, TypeInv, TypeOK
<1>2. CASE task[Loop].id = m /\ monitors' # monitors
  <2>1. /\ task[Loop].pc = "save"
        /\ monitors' = [monitors EXCEPT ![m] = Saved(m, task[Loop].row)]
    BY <1>2 DEF OverdueStep, SaveOverdue, RecordOverdue, NotifyOverdue, SaveMonitor
  <2>2. task[Loop].row \in Row /\ Loop \in Task
    BY <2>1, AtWork DEF Task
  <2>3. VerdictPhase(m)
    BY <1>2 DEF Coherent
  <2>4. monitors'[m] = Saved(m, task[Loop].row)
    BY <2>1 DEF TypeInv, TypeOK
  <2>5. /\ Live(m) /\ monitors'[m].enabled = monitors[m].enabled
        /\ monitors'[m].cfg = monitors[m].cfg
        /\ monitors'[m].seen = monitors[m].seen
    BY <2>1, <2>2, <2>3, <2>4, SavedFields DEF VerdictPhase
  <2>6. monitors[m] \in Row
    BY <2>5 DEF TypeInv, TypeOK, Live
  <2>7. monitors[m].seen # Never => monitors'[m].seen \in 0 .. monitors[m].seen
    BY <2>5, <2>6, TableAssumption DEF Row, Never
  <2> QED
    BY <2>5, <2>7 DEF Keeps, KeepsEdit, KeepsDeletion, KeepsCheckIn, Live
<1> QED
  BY <1>1, <1>2

\* Creating and deleting leave no live row behind that was live before.
LEMMA EditKeeps ==
  ASSUME TypeInv, ApiNext, NEW m \in Monitor, Coherent(m)
  PROVE  Keeps(m)
<1>1. CASE monitors'[m] = monitors[m]
  BY <1>1, SameKeeps
<1>2. ASSUME NEW t \in Edit, NEW k \in Monitor, NEW c \in Config, CreateMonitor(t, k, c),
             monitors'[m] # monitors[m]
      PROVE  Keeps(m)
  <2>1. monitors[m] = NoRow
    BY <1>2 DEF CreateMonitor, TypeInv, TypeOK
  <2> QED
    BY <2>1 DEF Keeps, KeepsEdit, KeepsDeletion, KeepsCheckIn, Live
<1>3. ASSUME NEW t \in Edit, NEW k \in Monitor, DeleteMonitor(t, k),
             monitors'[m] # monitors[m]
      PROVE  Keeps(m)
  <2>1. k = m
    BY <1>3 DEF DeleteMonitor, TypeInv, TypeOK
  <2>2. monitors[m] \in Row /\ monitors'[m] = [monitors[m] EXCEPT !.deleted = TRUE]
    BY <1>3, <2>1 DEF DeleteMonitor, TypeInv, TypeOK
  <2>3. monitors'[m].deleted
    BY <2>2 DEF Row
  <2> QED
    BY <2>3 DEF Keeps, KeepsEdit, KeepsDeletion, KeepsCheckIn, Live
<1>4. ASSUME NEW t \in Edit, SaveUpdate(t), monitors'[m] # monitors[m]
      PROVE  Keeps(m)
  <2>1. /\ task[t].pc = "save" /\ task[t].id = m
        /\ monitors'[m] = Saved(m, task[t].row)
    BY <1>4 DEF SaveUpdate, TypeInv, TypeOK
  <2>2. t \in Task /\ task[t].row \in Row
    BY <2>1, AtWork DEF Task
  <2>3. EditPhase(t, m)
    BY <2>1 DEF Coherent
  <2>4. Live(m) /\ monitors'[m].seen = monitors[m].seen
    BY <2>1, <2>2, <2>3, SavedFields DEF EditPhase
  <2>5. monitors[m] \in Row
    BY <2>4 DEF TypeInv, TypeOK, Live
  <2>6. monitors[m].seen # Never => monitors'[m].seen \in 0 .. monitors[m].seen
    BY <2>4, <2>5, TableAssumption DEF Row, Never
  <2> QED
    BY <2>1, <2>4, <2>6 DEF Keeps, KeepsEdit, KeepsDeletion, KeepsCheckIn, Live
<1>5. CASE monitors' = monitors
  BY <1>5, SameKeeps
<1> QED
  BY <1>1, <1>2, <1>3, <1>4, <1>5 DEF ApiNext, EditStep, ReadForUpdate, InvalidateAfterEdit

\* The steps that write no row.
LEMMA SilentKeeps ==
  ASSUME TypeInv, NEW m \in Monitor,
         \/ ScheduleJobs \/ PageNext \/ Crash
         \/ \E k \in Monitor : VisitMonitor(k)
         \/ \E t \in Check : ProbeSucceeds(t) \/ ProbeFails(t) \/ RecordCheck(t) \/ CompareCheck(t)
         \/ \E t \in Heartbeat :
              \/ \E k \in Monitor, given \in HeartbeatStatus : ReceiveHeartbeat(t, k, given)
              \/ RecordHeartbeat(t) \/ CompareHeartbeat(t)
         \/ UNCHANGED vars
  PROVE  Keeps(m)
<1>1. monitors' = monitors
  BY DEF ScheduleJobs, VisitMonitor, StartCheck, SkipUnknownType, PassPushMonitor,
     FailPushMonitor, ProbeSucceeds, ProbeFails, RecordCheck, CompareCheck, ReceiveHeartbeat,
     RecordHeartbeat, CompareHeartbeat, PageNext, ExpirePage, MissCache, ReadPage, FillCache,
     Crash, vars
<1> QED
  BY <1>1, SameKeeps

LEMMA StepKeeps ==
  ASSUME IInv, [Next]_vars, NEW m \in Monitor, m \notin disturbed'
  PROVE  Keeps(m)
<1>1. TypeInv
  BY DEF IInv, TypeInv
<1>2. Coherent(m)
  BY <1>1, DisturbedGrows DEF IInv, Story
<1>3. CASE SchedulerNext
  BY <1>1, <1>2, <1>3, ClockKeeps, ObserverKeeps, OverdueKeeps, SilentKeeps
  DEF SchedulerNext, CheckStep
<1>4. CASE PushNext
  BY <1>1, <1>2, <1>4, ObserverKeeps, SilentKeeps DEF PushNext, HeartbeatStep
<1>5. CASE ApiNext \/ PageNext \/ Crash \/ UNCHANGED vars
  BY <1>1, <1>2, <1>5, EditKeeps, SilentKeeps
<1> QED
  BY <1>3, <1>4, <1>5 DEF Next

\* No edit, deletion or check-in of an undisturbed monitor is lost to the
\* whole-row write of a check, a heartbeat or an edit (scheduler.go:234,
\* push_service.go:77, monitor_service.go:72).
THEOREM NoWriteIsLost == Spec => NoLostWrite
<1>1. IInv /\ [Next]_vars =>
        [\A m \in Monitor \ disturbed' : KeepsEdit(m) /\ KeepsDeletion(m) /\ KeepsCheckIn(m)]_vars
  BY StepKeeps DEF Keeps
<1> QED
  BY <1>1, InvariantHolds, PTL DEF Spec, NoLostWrite

-----------------------------------------------------------------------------
(* The steps are steps of StatusBoard *)

\* What a goroutine reports, from the outcome on, is what it goes on to write.
Stamped ==
  /\ \A t \in Check \cup Heartbeat :
       task[t].pc = "save" => task[t].row.status = task[t].status
  /\ task[Loop].pc \in {"save", "record", "notify"} => task[Loop].status = "down"

LEMMA StampedInit == Init => Stamped
<1> SUFFICES ASSUME Init PROVE Stamped
  OBVIOUS
<1>1. \A t \in Task : task[t].pc = "idle"
  BY DEF Init
<1>2. Check \subseteq Task /\ Heartbeat \subseteq Task /\ Loop \in Task
  BY DEF Task
<1> QED
  BY <1>1, <1>2 DEF Stamped

LEMMA StampedMove ==
  ASSUME Stamped, NEW t \in Task, \A u \in Task \ {t} : task'[u] = task[u],
         t \in Check \cup Heartbeat /\ task'[t].pc = "save" =>
           task'[t].row.status = task'[t].status,
         t = Loop /\ task'[t].pc \in {"save", "record", "notify"} => task'[t].status = "down"
  PROVE  Stamped'
<1> Check \subseteq Task /\ Heartbeat \subseteq Task /\ Loop \in Task
  BY DEF Task
<1> QED
  BY DEF Stamped

LEMMA StampedCheck ==
  ASSUME TypeInv, Stamped, NEW t \in Check \cup Heartbeat,
         \/ t \in Check /\ (CheckStep(t) \/ \E k \in Monitor : StartCheck(t, k))
         \/ /\ t \in Heartbeat
            /\ \/ HeartbeatStep(t)
               \/ \E k \in Monitor, given \in HeartbeatStatus : ReceiveHeartbeat(t, k, given)
  PROVE  Stamped'
<1>1. t \in Task /\ t # Loop
  BY TableAssumption DEF Task
<1>2. task \in [Task -> TaskState] /\ task[t] \in TaskState
  BY <1>1 DEF TypeInv, TypeOK
<1>3. ASSUME \A u \in Task \ {t} : task'[u] = task[u],
             task'[t].pc = "save" => task'[t].row.status = task'[t].status
      PROVE  Stamped'
  BY <1>1, <1>3, StampedMove
<1>4. CASE \/ t \in Check /\ \E k \in Monitor : StartCheck(t, k)
           \/ \E k \in Monitor, given \in HeartbeatStatus : ReceiveHeartbeat(t, k, given)
  <2>1. \E f \in {"probe", "record"} : \E k, r, s : Begin(t, f, k, r, s)
    BY <1>4 DEF StartCheck, ReceiveHeartbeat
  <2>2. task'[t].pc \in {"probe", "record"} /\ \A u \in Task \ {t} : task'[u] = task[u]
    BY <1>1, <1>2, <2>1 DEF Begin
  <2> QED
    BY <1>3, <2>2
<1>5. CASE ProbeSucceeds(t) \/ ProbeFails(t)
  <2>1. PICK more \in BOOLEAN, s \in {"up", "down", ""}, n \in {task[t].tries, task[t].tries + 1} :
          task' = [task EXCEPT ![t].pc = IF more THEN "probe" ELSE "record",
                               ![t].status = s, ![t].tries = n]
    <3>1. CASE ProbeSucceeds(t)
      <4> WITNESS FALSE \in BOOLEAN, "up" \in {"up", "down", ""},
                  task[t].tries \in {task[t].tries, task[t].tries + 1}
      <4> QED
        BY <1>1, <1>2, <3>1 DEF ProbeSucceeds, TaskState
    <3>2. CASE ProbeFails(t)
      BY <3>2 DEF ProbeFails
    <3> QED
      BY <1>5, <3>1, <3>2
  <2>2. task'[t].pc \in {"probe", "record"} /\ \A u \in Task \ {t} : task'[u] = task[u]
    BY <1>1, <1>2, <2>1 DEF TaskState
  <2> QED
    BY <1>3, <2>2
<1>6. CASE RecordCheck(t) \/ RecordHeartbeat(t)
  <2>1. task'[t].pc = "notify" /\ \A u \in Task \ {t} : task'[u] = task[u]
    BY <1>1, <1>6, GotoFrame DEF RecordCheck, RecordHeartbeat, PC
  <2> QED
    BY <1>3, <2>1
<1>7. CASE CompareCheck(t) \/ CompareHeartbeat(t)
  <2>1. /\ task[t].pc = "notify"
        /\ task' = [task EXCEPT ![t].pc = "save",
                                ![t].row = Stamp(task[t].row, task[t].status)]
    BY <1>7 DEF CompareCheck, CompareHeartbeat
  <2>2. task[t].row \in Row /\ task[t].status \in Status
    BY <1>1, <2>1, AtWork
  <2>3. Stamp(task[t].row, task[t].status).status = task[t].status
    BY <2>2 DEF Stamp, Row
  <2>4. /\ task'[t].row = Stamp(task[t].row, task[t].status)
        /\ task'[t].status = task[t].status
        /\ \A u \in Task \ {t} : task'[u] = task[u]
    BY <1>1, <1>2, <2>1 DEF TaskState
  <2> QED
    BY <1>3, <2>3, <2>4
<1>8. CASE SaveCheck(t) \/ SaveHeartbeat(t)
  <2>1. Finish(t)
    BY <1>8 DEF SaveCheck, SaveHeartbeat
  <2>2. task'[t].pc = "idle" /\ \A u \in Task \ {t} : task'[u] = task[u]
    BY <1>1, <1>2, <2>1 DEF Finish
  <2> QED
    BY <1>3, <2>2
<1> QED
  BY <1>4, <1>5, <1>6, <1>7, <1>8 DEF CheckStep, HeartbeatStep

LEMMA StampedLoop ==
  ASSUME TypeInv, Stamped, OverdueStep \/ \E k \in Monitor : FailPushMonitor(k)
  PROVE  Stamped'
<1>1. Loop \in Task /\ Loop \notin Check \cup Heartbeat /\ task \in [Task -> TaskState]
  BY TableAssumption DEF Task, TypeInv, TypeOK
<1>2. /\ \A u \in Task \ {Loop} : task'[u] = task[u]
      /\ task'[Loop].pc = "idle" \/ task'[Loop].status = "down"
  <2>1. CASE \E k \in Monitor : FailPushMonitor(k)
    BY <1>1, <2>1 DEF FailPushMonitor, Begin
  <2>2. CASE SaveOverdue \/ RecordOverdue
    BY <1>1, <2>2, GotoFrame DEF SaveOverdue, RecordOverdue, PC, Stamped
  <2>3. CASE NotifyOverdue
    BY <1>1, <2>3 DEF NotifyOverdue, Finish
  <2> QED
    BY <2>1, <2>2, <2>3 DEF OverdueStep
<1> QED
  BY <1>1, <1>2, StampedMove

LEMMA StampedEdit ==
  ASSUME TypeInv, Stamped, ApiNext PROVE Stamped'
<1> PICK t \in Edit :
      \/ \E m \in Monitor, c \in Config : CreateMonitor(t, m, c)
      \/ \E m \in Monitor, c \in Config, on \in BOOLEAN : ReadForUpdate(t, m, c, on)
      \/ \E m \in Monitor : DeleteMonitor(t, m)
      \/ EditStep(t)
  BY DEF ApiNext
<1>1. t \in Task /\ t # Loop /\ t \notin Check \cup Heartbeat
  BY TableAssumption DEF Task
<1>2. \A u \in Task \ {t} : task'[u] = task[u]
  BY DEF CreateMonitor, ReadForUpdate, DeleteMonitor, EditStep, SaveUpdate,
         InvalidateAfterEdit, Begin, Goto, Finish, TypeInv, TypeOK
<1> QED
  BY <1>1, <1>2, StampedMove

LEMMA StampedStep == TypeInv /\ Stamped /\ [Next]_vars => Stamped'
<1> SUFFICES ASSUME TypeInv, Stamped, [Next]_vars PROVE Stamped'
  OBVIOUS
<1>1. CASE \/ ScheduleJobs \/ PageNext \/ UNCHANGED vars
           \/ \E k \in Monitor : SkipUnknownType(k) \/ PassPushMonitor(k)
  <2>1. task' = task
    BY <1>1 DEF ScheduleJobs, SkipUnknownType, PassPushMonitor, PageNext, ExpirePage,
                MissCache, ReadPage, FillCache, vars
  <2> QED
    BY <2>1 DEF Stamped
<1>2. CASE Clock
  <2>1. \A t \in Task : /\ task'[t].pc = task[t].pc /\ task'[t].status = task[t].status
                        /\ task'[t].row = Older(task[t].row)
    BY <1>2 DEF Clock, TaskState, TypeInv, TypeOK
  <2>2. Check \subseteq Task /\ Heartbeat \subseteq Task /\ Loop \in Task
    BY DEF Task
  <2>3. ASSUME NEW t \in Check \cup Heartbeat, task'[t].pc = "save"
        PROVE  task'[t].row.status = task'[t].status
    <3>1. task[t].pc = "save" /\ t \in Task
      BY <2>1, <2>2, <2>3
    <3>2. task[t].row \in Row
      BY <3>1, AtWork
    <3> QED
      BY <2>1, <3>1, <3>2, OlderFields DEF Stamped
  <2> QED
    BY <2>1, <2>2, <2>3 DEF Stamped
<1>3. CASE Crash
  BY <1>3 DEF Crash, Stamped, Task
<1> QED
  BY <1>1, <1>2, <1>3, StampedCheck, StampedLoop, StampedEdit
  DEF Next, SchedulerNext, VisitMonitor, PushNext

\* The entry of one monitor, before and after a step.
EntryOf(m) == [row |-> StatusOf(m), result |-> newest[m], alert |-> announced[m],
               report |-> Reported(m)]

BoardStep(m) ==
  \/ EntryOf(m)' = EntryOf(m)
  \/ Board!Decide(EntryOf(m), EntryOf(m)')
  \/ Board!Proceed(EntryOf(m), EntryOf(m)')

ToldAsBefore(m) ==
  StatusOf(m)' = StatusOf(m) /\ newest'[m] = newest[m] /\ announced'[m] = announced[m]

\* Nothing told and nothing reported changes.
LEMMA BoardSame ==
  ASSUME NEW m \in Monitor, ToldAsBefore(m), Reported(m)' = Reported(m)
  PROVE  BoardStep(m)
BY DEF BoardStep, EntryOf, ToldAsBefore

LEMMA BoardElsewhere ==
  ASSUME NEW m \in Monitor, ToldAsBefore(m),
         \A u \in Task : task'[u] = task[u] \/ (task[u].id # m /\ task'[u].id # m)
  PROVE  BoardStep(m)
<1>1. \A u \in Task : (task'[u].id = m /\ Reporting(u)') <=> (task[u].id = m /\ Reporting(u))
  BY DEF Reporting
<1>2. \A u \in Task : task'[u].id = m => task'[u].status = task[u].status
  OBVIOUS
<1>3. Reported(m)' = Reported(m)
  BY <1>1, <1>2 DEF Reported
<1> QED
  BY <1>3, BoardSame

\* The monitor a goroutine has alone is reported by that goroutine or not at all.
LEMMA ReportOfOne ==
  ASSUME NEW m \in Monitor, NEW t \in Task, \A u \in Task \ {t} : task[u].id # m
  PROVE  Reported(m) = IF task[t].id = m /\ Reporting(t) THEN {task[t].status} ELSE {}
BY DEF Reported

LEMMA ReportOfOneNext ==
  ASSUME NEW m \in Monitor, NEW t \in Task, \A u \in Task \ {t} : task'[u].id # m
  PROVE  Reported(m)' = IF task'[t].id = m /\ Reporting(t)' THEN {task'[t].status} ELSE {}
BY DEF Reported

\* A goroutine begins a report, without having told anything yet.
LEMMA BoardDecide ==
  ASSUME NEW m \in Monitor, ToldAsBefore(m), NEW s \in Status,
         Reported(m) = {}, Reported(m)' = {s}
  PROVE  BoardStep(m)
<1>1. EntryOf(m)' = [EntryOf(m) EXCEPT !.report = {s}] /\ EntryOf(m).report = {}
  BY DEF EntryOf, ToldAsBefore
<1> QED
  BY <1>1 DEF BoardStep, Board!Decide

\* It tells one place more, ...
LEMMA BoardProceed ==
  ASSUME NEW m \in Monitor, NEW s, Reported(m) = {s}, Reported(m)' = {s},
         StatusOf(m)' \in {StatusOf(m), s}, newest'[m] \in {newest[m], s},
         announced'[m] \in {announced[m], s}
  PROVE  BoardStep(m)
BY DEF BoardStep, EntryOf, Board!Proceed

\* ... and ends when all three tell the same.
LEMMA BoardEnd ==
  ASSUME NEW m \in Monitor, NEW s, Reported(m) = {s}, Reported(m)' = {},
         StatusOf(m)' = s, newest'[m] = s, announced'[m] = s
  PROVE  BoardStep(m)
BY DEF BoardStep, EntryOf, Board!Proceed

\* The steps that tell nothing of m and report nothing.
LEMMA BoardQuiet ==
  ASSUME TypeInv, NEW m \in Monitor, m \notin disturbed', Coherent(m),
         Clock \/ ScheduleJobs \/ PageNext \/ Crash \/ UNCHANGED vars
  PROVE  BoardStep(m)
<1>1. CASE Clock
  <2>1. \A u \in Task : /\ task'[u].pc = task[u].pc /\ task'[u].status = task[u].status
                        /\ task'[u].id = task[u].id
    BY <1>1 DEF Clock, TypeInv, TypeOK, TaskState
  <2>2. Reported(m)' = Reported(m)
    BY <2>1 DEF Reported, Reporting
  <2>3. StatusOf(m)' = StatusOf(m)
    BY <1>1, OlderFields, TableAssumption DEF Clock, StatusOf, TypeInv, TypeOK, Older
  <2>4. newest' = newest /\ announced' = announced
    BY <1>1 DEF Clock, alerts
  <2> QED
    BY <2>2, <2>3, <2>4, BoardSame DEF ToldAsBefore
<1>2. CASE ScheduleJobs \/ PageNext \/ UNCHANGED vars
  <2>1. /\ task' = task /\ monitors' = monitors /\ newest' = newest
        /\ announced' = announced
    BY <1>2 DEF ScheduleJobs, PageNext, ExpirePage, MissCache, ReadPage, FillCache, alerts, vars
  <2> QED
    BY <2>1, BoardElsewhere DEF ToldAsBefore, StatusOf
<1>3. CASE Crash
  <2>1. \A t \in Task : task[t].id # m /\ task'[t].id # m
    BY <1>3, TableAssumption DEF Crash, Held
  <2>2. monitors' = monitors /\ newest' = newest /\ announced' = announced
    BY <1>3 DEF Crash
  <2> QED
    BY <2>1, <2>2, BoardElsewhere DEF ToldAsBefore, StatusOf
<1> QED
  BY <1>1, <1>2, <1>3

\* The loop visits a row: only the verdict "overdue" opens a report.
LEMMA BoardVisit ==
  ASSUME TypeInv, NEW m \in Monitor, Coherent(m), NEW k \in Monitor, VisitMonitor(k)
  PROVE  BoardStep(m)
<1>1. /\ monitors' = monitors /\ newest' = newest /\ announced' = announced
      /\ sweep[k] # NoRow /\ NoMonitor # m
  BY TableAssumption DEF VisitMonitor, StartCheck, SkipUnknownType, PassPushMonitor,
                         FailPushMonitor, alerts
<1>2. ToldAsBefore(m)
  BY <1>1 DEF ToldAsBefore, StatusOf
<1>3. k = m => \A u \in Task : task[u].id # m
  BY <1>1 DEF Coherent
<1>4. CASE SkipUnknownType(k) \/ PassPushMonitor(k)
  BY <1>2, <1>4, BoardElsewhere DEF SkipUnknownType, PassPushMonitor
<1>5. ASSUME NEW t \in Check, StartCheck(t, k) PROVE BoardStep(m)
  <2>1. /\ task'[t].pc = "probe" /\ task'[t].id = k /\ task[t].id = NoMonitor
        /\ t \in Task /\ \A u \in Task \ {t} : task'[u] = task[u]
    BY <1>5, StartCheckFrame DEF Task
  <2>2. CASE k # m
    BY <1>1, <1>2, <2>1, <2>2, BoardElsewhere
  <2>3. CASE k = m
    <3>1. Reported(m) = {} /\ Reported(m)' = {}
      BY <1>3, <2>1, <2>3, ReportOfOne, ReportOfOneNext DEF Reporting
    <3> QED
      BY <1>2, <3>1, BoardSame
  <2> QED
    BY <2>2, <2>3
<1>6. CASE FailPushMonitor(k)
  <2>1. /\ task'[Loop].pc = "save" /\ task'[Loop].id = k /\ task[Loop].id = NoMonitor
        /\ \A u \in Task \ {Loop} : task'[u] = task[u]
    BY <1>6, FailPushFrame
  <2>2. task'[Loop].status = "down" /\ Loop \in Task /\ Loop \notin Edit
    BY <1>6, TableAssumption DEF FailPushMonitor, Begin, Task, TypeInv, TypeOK
  <2>3. CASE k # m
    BY <1>1, <1>2, <2>1, <2>3, BoardElsewhere
  <2>4. CASE k = m
    <3>1. Reported(m) = {} /\ Reported(m)' = {"down"}
      BY <1>3, <2>1, <2>2, <2>4, ReportOfOne, ReportOfOneNext DEF Reporting
    <3>2. "down" \in Status
      BY DEF Status
    <3> QED
      BY <1>2, <3>1, <3>2, BoardDecide
  <2> QED
    BY <2>3, <2>4
<1> QED
  BY <1>4, <1>5, <1>6 DEF VisitMonitor

\* A probe that has its outcome opens a report.
LEMMA BoardProbe ==
  ASSUME TypeInv, NEW t \in Check, ProbeSucceeds(t) \/ ProbeFails(t),
         NEW m \in Monitor, Coherent(m)
  PROVE  BoardStep(m)
<1>1. t \in Task /\ t \notin Edit
  BY TableAssumption DEF Task
<1>2. ToldAsBefore(m)
  BY DEF ProbeSucceeds, ProbeFails, alerts, ToldAsBefore, StatusOf
<1>3. /\ task[t].pc = "probe" /\ task'[t].id = task[t].id
      /\ \A u \in Task \ {t} : task'[u] = task[u]
      /\ task'[t].pc = "probe" \/ (task'[t].pc = "record" /\ task'[t].status \in Status)
  <2>1. task \in [Task -> TaskState] /\ task[t] \in TaskState
    BY <1>1 DEF TypeInv, TypeOK
  <2>2. CASE ProbeSucceeds(t)
    BY <1>1, <2>1, <2>2 DEF ProbeSucceeds, TaskState, Status
  <2>3. CASE ProbeFails(t)
    <3> DEFINE more == task[t].tries < MaxRetries(task[t].row.cfg)
               next == IF more THEN "probe" ELSE "record"
               s == IF more THEN "" ELSE "down"
    <3>1. /\ task' = [task EXCEPT ![t].pc = next, ![t].status = s,
                                  ![t].tries = task[t].tries + 1]
          /\ task[t].pc = "probe" /\ next \in {"probe", "record"} /\ s \in Status
      BY <2>3 DEF ProbeFails, Status
    <3> HIDE DEF more, next, s
    <3> QED
      BY <1>1, <2>1, <3>1 DEF TaskState
  <2> QED
    BY <2>2, <2>3
<1>4. CASE task[t].id # m
  BY <1>2, <1>3, <1>4, BoardElsewhere
<1>5. CASE task[t].id = m
  <2>1. \A u \in Task \ {t} : task[u].id # m
    BY <1>1, <1>5, Solo
  <2>2. Reported(m) = {}
    BY <1>1, <1>3, <2>1, ReportOfOne DEF Reporting
  <2>3. \A u \in Task \ {t} : task'[u].id # m
    BY <1>3, <2>1
  <2>4. CASE task'[t].pc = "probe"
    <3>1. Reported(m)' = {}
      BY <1>1, <2>3, <2>4, ReportOfOneNext DEF Reporting
    <3> QED
      BY <1>2, <2>2, <3>1, BoardSame
  <2>5. CASE task'[t].pc = "record"
    <3>1. Reported(m)' = {task'[t].status} /\ task'[t].status \in Status
      BY <1>1, <1>3, <1>5, <2>3, <2>5, ReportOfOneNext DEF Reporting
    <3> QED
      BY <1>2, <2>2, <3>1, BoardDecide
  <2> QED
    BY <1>3, <2>4, <2>5
<1> QED
  BY <1>4, <1>5

\* A goroutine with a status to report tells one place after the other.
LEMMA BoardReporter ==
  ASSUME TypeInv, NEW m \in Monitor, Coherent(m), NEW t \in Task \ Edit,
         task[t].id = m, Reporting(t), \A u \in Task \ {t} : task'[u] = task[u],
         StatusOf(m)' \in {StatusOf(m), task[t].status},
         newest'[m] \in {newest[m], task[t].status},
         announced'[m] \in {announced[m], task[t].status},
         \/ /\ task'[t].id = m /\ Reporting(t)' /\ task'[t].status = task[t].status
         \/ /\ task'[t].id # m
            /\ StatusOf(m)' = task[t].status /\ newest'[m] = task[t].status
            /\ announced'[m] = task[t].status
  PROVE  BoardStep(m)
<1>1. \A u \in Task \ {t} : task[u].id # m /\ task'[u].id # m
  BY Solo
<1>2. Reported(m) = {task[t].status}
  BY <1>1, ReportOfOne
<1>3. CASE task'[t].id = m /\ Reporting(t)' /\ task'[t].status = task[t].status
  <2>1. Reported(m)' = {task[t].status}
    BY <1>1, <1>3, ReportOfOneNext
  <2> QED
    BY <1>2, <2>1, BoardProceed
<1>4. CASE task'[t].id # m
  <2>1. Reported(m)' = {}
    BY <1>1, <1>4, ReportOfOneNext
  <2> QED
    BY <1>2, <1>4, <2>1, BoardEnd
<1> QED
  BY <1>3, <1>4

\* The three writes of a check or a heartbeat.
LEMMA BoardObserver ==
  ASSUME TypeInv, Stamped, NEW t \in Check \cup Heartbeat,
         \/ t \in Check /\ (RecordCheck(t) \/ CompareCheck(t) \/ SaveCheck(t))
         \/ t \in Heartbeat /\ HeartbeatStep(t),
         NEW m \in Monitor, m \notin disturbed', Coherent(m)
  PROVE  BoardStep(m)
<1>1. t \in Task \ Edit /\ t \in Task /\ NoMonitor # m
  BY TableAssumption DEF Task
<1>2. CASE RecordCheck(t) \/ RecordHeartbeat(t)
  <2>1. /\ monitors' = monitors /\ announced' = announced /\ task[t].pc = "record"
        /\ Goto(t, "notify") /\ SaveResult(task[t].id, task[t].status)
    BY <1>2 DEF RecordCheck, RecordHeartbeat, alerts
  <2>2. /\ task'[t].pc = "notify" /\ task'[t].id = task[t].id
        /\ task'[t].status = task[t].status
        /\ \A u \in Task \ {t} : task'[u] = task[u]
    BY <1>1, <2>1, GotoFrame DEF PC
  <2>3. CASE task[t].id # m
    <3>1. ToldAsBefore(m)
      BY <2>1, <2>3 DEF ToldAsBefore, StatusOf, SaveResult, TypeInv, TypeOK
    <3> QED
      BY <2>2, <2>3, <3>1, BoardElsewhere
  <2>4. CASE task[t].id = m
    <3>1. /\ StatusOf(m)' = StatusOf(m) /\ newest'[m] \in {newest[m], task[t].status}
          /\ announced'[m] = announced[m] /\ Reporting(t) /\ Reporting(t)'
      BY <1>1, <2>1, <2>2, <2>4 DEF StatusOf, SaveResult, Reporting, TypeInv, TypeOK
    <3> QED
      BY <1>1, <2>2, <2>4, <3>1, BoardReporter
  <2> QED
    BY <2>3, <2>4
<1>3. CASE CompareCheck(t) \/ CompareHeartbeat(t)
  <2>1. /\ monitors' = monitors /\ newest' = newest /\ task[t].pc = "notify"
        /\ task' = [task EXCEPT ![t].pc = "save",
                                ![t].row = Stamp(task[t].row, task[t].status)]
        /\ Notify(task[t].id, task[t].status) \/ announced' = announced
    BY <1>3 DEF CompareCheck, CompareHeartbeat, alerts
  <2>2. /\ task'[t].pc = "save" /\ task'[t].id = task[t].id
        /\ task'[t].status = task[t].status
        /\ \A u \in Task \ {t} : task'[u] = task[u]
    BY <1>1, <2>1 DEF TypeInv, TypeOK, TaskState
  <2>3. CASE task[t].id # m
    <3>1. ToldAsBefore(m)
      BY <2>1, <2>3 DEF ToldAsBefore, StatusOf, Notify, TypeInv, TypeOK
    <3> QED
      BY <2>2, <2>3, <3>1, BoardElsewhere
  <2>4. CASE task[t].id = m
    <3>1. /\ StatusOf(m)' = StatusOf(m) /\ newest'[m] = newest[m]
          /\ announced'[m] \in {announced[m], task[t].status}
          /\ Reporting(t) /\ Reporting(t)'
      BY <1>1, <2>1, <2>2, <2>4 DEF StatusOf, Notify, Reporting, TypeInv, TypeOK
    <3> QED
      BY <1>1, <2>2, <2>4, <3>1, BoardReporter
  <2> QED
    BY <2>3, <2>4
<1>4. CASE SaveCheck(t) \/ SaveHeartbeat(t)
  <2>1. /\ newest' = newest /\ announced' = announced /\ task[t].pc = "save"
        /\ Finish(t) /\ SaveMonitor(task[t].id, task[t].row)
    BY <1>4 DEF SaveCheck, SaveHeartbeat, alerts
  <2>2. task'[t].id = NoMonitor /\ \A u \in Task \ {t} : task'[u] = task[u]
    BY <1>1, <2>1, FinishFrame
  <2>3. CASE task[t].id # m
    <3>1. ToldAsBefore(m)
      BY <2>1, <2>3 DEF ToldAsBefore, StatusOf, SaveMonitor, TypeInv, TypeOK
    <3> QED
      BY <1>1, <2>2, <2>3, <3>1, BoardElsewhere
  <2>4. CASE task[t].id = m
    <3>1. task[t].row \in Row /\ task[t].row.status = task[t].status
      BY <1>1, <2>1, AtWork DEF Stamped
    <3>2. newest[m] = task[t].status /\ announced[m] = task[t].status
      BY <2>1, <2>4, <3>1 DEF Coherent, ObserverPhase
    <3>3. monitors'[m] = Saved(m, task[t].row)
      BY <2>1, <2>4 DEF SaveMonitor, TypeInv, TypeOK
    <3>4. StatusOf(m)' = task[t].status
      <4>1. monitors'[m] \in Row /\ monitors'[m].status = task[t].status
        BY <3>1, <3>3, SavedRow, SavedFields
      <4> QED
        BY <4>1, TableAssumption DEF StatusOf
    <3>5. Reporting(t)
      BY <1>1, <2>1 DEF Reporting
    <3> QED
      BY <1>1, <2>1, <2>2, <2>4, <3>2, <3>4, <3>5, BoardReporter
  <2> QED
    BY <2>3, <2>4
<1> QED
  BY <1>2, <1>3, <1>4 DEF HeartbeatStep

\* The three writes of the verdict "overdue".
LEMMA BoardOverdue ==
  ASSUME TypeInv, Stamped, OverdueStep, NEW m \in Monitor, m \notin disturbed', Coherent(m)
  PROVE  BoardStep(m)
<1>1. Loop \in Task \ Edit /\ Loop \in Task /\ NoMonitor # m
  BY TableAssumption DEF Task
<1>2. /\ task[Loop].pc \in {"save", "record", "notify"} /\ task[Loop].status = "down"
      /\ Reporting(Loop)
  BY <1>1 DEF OverdueStep, SaveOverdue, RecordOverdue, NotifyOverdue, Stamped, Reporting
<1>3. \A u \in Task \ {Loop} : task'[u] = task[u]
  BY <1>1, GotoFrame, FinishFrame DEF OverdueStep, SaveOverdue, RecordOverdue, NotifyOverdue, PC
<1>4. task'[Loop].id \in {task[Loop].id, NoMonitor}
  BY <1>1, GotoFrame, FinishFrame DEF OverdueStep, SaveOverdue, RecordOverdue, NotifyOverdue, PC
<1>5. CASE task[Loop].id # m
  <2>1. ToldAsBefore(m)
    BY <1>5 DEF OverdueStep, SaveOverdue, RecordOverdue, NotifyOverdue, SaveMonitor, SaveResult,
                Notify, alerts, ToldAsBefore, StatusOf, TypeInv, TypeOK
  <2> QED
    BY <1>1, <1>3, <1>4, <1>5, <2>1, BoardElsewhere
<1>6. CASE task[Loop].id = m
  <2>1. VerdictPhase(m)
    BY <1>6 DEF Coherent
  <2>2. CASE SaveOverdue
    <3>1. /\ task'[Loop].id = m /\ task'[Loop].pc = "record" /\ task'[Loop].status = "down"
      BY <1>1, <1>2, <1>6, <2>2, GotoFrame DEF SaveOverdue, PC
    <3>2. newest' = newest /\ announced' = announced /\ task[Loop].pc = "save"
      BY <2>2 DEF SaveOverdue, alerts
    <3>3. monitors'[m] = Saved(m, task[Loop].row)
      BY <1>6, <2>2 DEF SaveOverdue, SaveMonitor, TypeInv, TypeOK
    <3>4. task[Loop].row \in Row /\ task[Loop].row.status = "down"
      BY <1>1, <2>1, <3>2, AtWork DEF VerdictPhase
    <3>5. monitors'[m] \in Row /\ monitors'[m].status = "down"
      BY <3>3, <3>4, SavedRow, SavedFields
    <3>6. StatusOf(m)' = "down"
      BY <3>5, TableAssumption DEF StatusOf
    <3>7. Reporting(Loop)'
      BY <1>1, <3>1 DEF Reporting
    <3> QED
      BY <1>1, <1>2, <1>3, <1>6, <3>1, <3>2, <3>6, <3>7, BoardReporter
  <2>3. CASE RecordOverdue
    <3>1. /\ task'[Loop].id = m /\ task'[Loop].pc = "notify" /\ task'[Loop].status = "down"
      BY <1>1, <1>2, <1>6, <2>3, GotoFrame DEF RecordOverdue, PC
    <3>2. /\ monitors' = monitors /\ announced' = announced
          /\ newest'[m] \in {newest[m], "down"}
      BY <1>6, <2>3 DEF RecordOverdue, SaveResult, alerts, TypeInv, TypeOK
    <3>3. StatusOf(m)' = StatusOf(m) /\ Reporting(Loop)'
      BY <1>1, <3>1, <3>2 DEF StatusOf, Reporting
    <3> QED
      BY <1>1, <1>2, <1>3, <1>6, <3>1, <3>2, <3>3, BoardReporter
  <2>4. CASE NotifyOverdue
    <3>1. task'[Loop].id # m
      BY <1>1, <2>4, FinishFrame DEF NotifyOverdue
    <3>2. /\ monitors' = monitors /\ newest' = newest /\ task[Loop].pc = "notify"
          /\ announced'[m] = "down"
      BY <1>6, <2>4 DEF NotifyOverdue, Notify, TypeInv, TypeOK
    <3>3. StatusOf(m)' = "down" /\ newest'[m] = "down"
      BY <2>1, <3>2 DEF VerdictPhase, StatusOf, Live
    <3> QED
      BY <1>1, <1>2, <1>3, <1>6, <3>1, <3>2, <3>3, BoardReporter
  <2> QED
    BY <2>2, <2>3, <2>4 DEF OverdueStep
<1> QED
  BY <1>5, <1>6

\* A heartbeat opens a report with the status it was sent.
LEMMA BoardReceive ==
  ASSUME TypeInv, NEW t \in Heartbeat, NEW k \in Monitor, NEW given \in HeartbeatStatus,
         ReceiveHeartbeat(t, k, given), NEW m \in Monitor, m \notin disturbed', Coherent(m)
  PROVE  BoardStep(m)
<1> DEFINE s == IF given = "" THEN "up" ELSE given
<1>1. t \in Task /\ t \notin Edit /\ NoMonitor # m /\ s \in Status
  BY TableAssumption DEF Task, Status
<1>2. ToldAsBefore(m)
  BY DEF ReceiveHeartbeat, alerts, ToldAsBefore, StatusOf
<1>3. /\ task[t].id = NoMonitor /\ task'[t].id = k /\ task'[t].pc = "record"
      /\ task'[t].status = s /\ \A u \in Task \ {t} : task'[u] = task[u]
  BY <1>1 DEF ReceiveHeartbeat, Begin, TypeInv, TypeOK, WorkingCopy
<1> HIDE DEF s
<1>4. CASE k # m
  BY <1>1, <1>2, <1>3, <1>4, BoardElsewhere
<1>5. CASE k = m
  <2>1. \A u \in Task : task[u].id # m
    BY <1>5, Acquired DEF ReceiveHeartbeat
  <2>2. Reported(m) = {} /\ Reported(m)' = {s}
    BY <1>1, <1>3, <1>5, <2>1, ReportOfOne, ReportOfOneNext DEF Reporting
  <2> QED
    BY <1>1, <1>2, <2>2, BoardDecide
<1> QED
  BY <1>4, <1>5

\* Operators change what a monitor is, never what is told of it.
LEMMA BoardEdit ==
  ASSUME TypeInv, ApiNext, NEW m \in Monitor, m \notin disturbed', Coherent(m)
  PROVE  BoardStep(m)
<1> PICK t \in Edit :
      \/ \E k \in Monitor, c \in Config : CreateMonitor(t, k, c)
      \/ \E k \in Monitor, c \in Config, on \in BOOLEAN : ReadForUpdate(t, k, c, on)
      \/ \E k \in Monitor : DeleteMonitor(t, k)
      \/ EditStep(t)
  BY DEF ApiNext
<1>1. t \in Task
  BY DEF Task
<1>2. /\ newest' = newest /\ announced' = announced
      /\ \A u \in Task \ {t} : task'[u] = task[u]
  BY DEF CreateMonitor, ReadForUpdate, DeleteMonitor, EditStep, SaveUpdate,
         InvalidateAfterEdit, Begin, Goto, Finish, alerts, TypeInv, TypeOK
<1>3. Reported(m)' = Reported(m)
  BY <1>1, <1>2 DEF Reported, Reporting
<1>4. StatusOf(m)' = StatusOf(m)
  <2>1. CASE monitors'[m] = monitors[m]
    BY <2>1 DEF StatusOf
  <2>2. ASSUME NEW k \in Monitor, NEW c \in Config, CreateMonitor(t, k, c),
               monitors'[m] # monitors[m]
        PROVE  StatusOf(m)' = StatusOf(m)
    <3>1. monitors[m] = NoRow /\ monitors'[m].status = ""
      BY <2>2 DEF CreateMonitor, TypeInv, TypeOK
    <3> QED
      BY <3>1 DEF StatusOf
  <2>3. ASSUME NEW k \in Monitor, DeleteMonitor(t, k), monitors'[m] # monitors[m]
        PROVE  StatusOf(m)' = StatusOf(m)
    <3>1. monitors[m] \in Row /\ monitors'[m] = [monitors[m] EXCEPT !.deleted = TRUE]
      BY <2>3 DEF DeleteMonitor, TypeInv, TypeOK
    <3>2. monitors'[m] \in Row /\ monitors'[m].status = monitors[m].status
      BY <3>1 DEF Row
    <3> QED
      BY <3>1, <3>2, TableAssumption DEF StatusOf
  <2>4. ASSUME SaveUpdate(t), monitors'[m] # monitors[m]
        PROVE  StatusOf(m)' = StatusOf(m)
    <3>1. /\ task[t].pc = "save" /\ task[t].id = m
          /\ monitors'[m] = Saved(m, task[t].row)
      BY <2>4 DEF SaveUpdate, TypeInv, TypeOK
    <3>2. task[t].row \in Row
      BY <1>1, <3>1, AtWork
    <3>3. EditPhase(t, m)
      BY <3>1 DEF Coherent
    <3>4. /\ Live(m) /\ monitors'[m] \in Row
          /\ monitors'[m].status = monitors[m].status
      BY <3>1, <3>2, <3>3, SavedRow, SavedFields DEF EditPhase
    <3> QED
      BY <3>4, TableAssumption DEF StatusOf, Live
  <2> QED
    BY <2>1, <2>2, <2>3, <2>4 DEF EditStep, ReadForUpdate, InvalidateAfterEdit
<1> QED
  BY <1>2, <1>3, <1>4, BoardSame DEF ToldAsBefore

LEMMA BoardStepOf ==
  ASSUME IInv, Stamped, [Next]_vars, NEW m \in Monitor, m \notin disturbed'
  PROVE  BoardStep(m)
<1>1. TypeInv
  BY DEF IInv, TypeInv
<1>2. Coherent(m)
  BY <1>1, DisturbedGrows DEF IInv, Story
<1>3. CASE SchedulerNext
  <2>1. ASSUME NEW t \in Check, CheckStep(t) PROVE BoardStep(m)
    BY <1>1, <1>2, <2>1, BoardProbe, BoardObserver DEF CheckStep
  <2> QED
    BY <1>1, <1>2, <1>3, <2>1, BoardQuiet, BoardVisit, BoardOverdue DEF SchedulerNext
<1>4. CASE PushNext
  <2>1. ASSUME NEW t \in Heartbeat, HeartbeatStep(t) PROVE BoardStep(m)
    BY <1>1, <1>2, <2>1, BoardObserver
  <2> QED
    BY <1>1, <1>2, <1>4, <2>1, BoardReceive DEF PushNext
<1>5. CASE ApiNext \/ PageNext \/ Crash \/ UNCHANGED vars
  BY <1>1, <1>2, <1>5, BoardEdit, BoardQuiet
<1> QED
  BY <1>3, <1>4, <1>5 DEF Next

BoardTypeOK == BoardOf \in [Monitor -> Board!Entry]

LEMMA BoardTyped == TypeInv => BoardTypeOK
<1> SUFFICES ASSUME TypeInv, NEW m \in Monitor PROVE EntryOf(m) \in Board!Entry
  BY DEF BoardOf, EntryOf, BoardTypeOK
<1>1. StatusOf(m) \in Status
  BY DEF StatusOf, TypeInv, TypeOK, Row, Status
<1>2. newest[m] \in Status /\ announced[m] \in Status
  BY DEF TypeInv, TypeOK
<1>3. Reported(m) \subseteq Status
  BY DEF Reported, TypeInv, TypeOK, TaskState
<1> QED
  BY <1>1, <1>2, <1>3 DEF EntryOf, Board!Entry

LEMMA BoardInit == Init => Board!Init
<1> SUFFICES ASSUME Init PROVE Board!Init
  OBVIOUS
<1>1. \A m \in Monitor : Reported(m) = {}
  BY DEF Init, Reported, Reporting
<1>2. \A m \in Monitor : StatusOf(m) = "" /\ newest[m] = "" /\ announced[m] = ""
  BY DEF Init, StatusOf
<1>3. BoardOf = [m \in Monitor |-> [row |-> "", result |-> "", alert |-> "", report |-> {}]]
  BY <1>1, <1>2 DEF BoardOf
<1> QED
  BY <1>3 DEF Board!Init, Init, Status

LEMMA BoardNext ==
  IInv /\ BoardTypeOK' /\ Stamped /\ [Next]_vars => [Board!Next]_<<BoardOf, disturbed>>
<1> SUFFICES ASSUME IInv, BoardTypeOK', Stamped, [Next]_vars PROVE Board!Next
  OBVIOUS
<1>1. disturbed \subseteq disturbed'
  BY DisturbedGrows DEF IInv, TypeInv
<1>2. ASSUME NEW m \in Monitor, m \notin disturbed'
      PROVE  \/ BoardOf[m]' = BoardOf[m]
             \/ Board!Decide(BoardOf[m], BoardOf[m]')
             \/ Board!Proceed(BoardOf[m], BoardOf[m]')
  <2>1. BoardOf[m] = EntryOf(m) /\ BoardOf[m]' = EntryOf(m)'
    BY DEF BoardOf, EntryOf
  <2> QED
    BY <1>2, <2>1, BoardStepOf DEF BoardStep
<1> QED
  BY <1>1, <1>2 DEF Board!Next, BoardTypeOK

\* The backend implements StatusBoard: every handling of a monitor by the
\* scheduler, the push endpoint or the API is one report that is decided on,
\* written to the row, the result and the alert, and ended only when the three
\* agree (scheduler.go:117-147, 191-236, push_service.go:45-77).
THEOREM BackendImplementsBoard == Spec => ReportsArePublished
<1>1. Init => Board!Init
  BY BoardInit
<1>2. Spec => [](TypeInv /\ Stamped)
  <2>1. Init => TypeInv /\ Stamped
    BY InitTypeInv, StampedInit
  <2>2. TypeInv /\ Stamped /\ [Next]_vars => (TypeInv /\ Stamped)'
    BY TypeStep, StampedStep
  <2> QED
    BY <2>1, <2>2, PTL DEF Spec
<1>3. IInv /\ BoardTypeOK' /\ Stamped /\ [Next]_vars => [Board!Next]_<<BoardOf, disturbed>>
  BY BoardNext
<1>4. TypeInv => BoardTypeOK
  BY BoardTyped
<1> QED
  BY <1>1, <1>2, <1>3, <1>4, InvariantHolds, PTL DEF Spec, ReportsArePublished, Board!Spec
=============================================================================
