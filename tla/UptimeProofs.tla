---------------------------- MODULE UptimeProofs ----------------------------
(***************************************************************************)
(* Proofs, for every value of the constants, that the invariant of module  *)
(* UptimeInvariant is inductive, and what follows from it.                 *)
(***************************************************************************)
EXTENDS UptimeInvariant, TLAPS

\* The operators on rows return rows.
LEMMA OlderRow ==
  ASSUME NEW r \in Row \cup {NoRow} PROVE Older(r) \in Row \cup {NoRow}
BY TableAssumption DEF Older, Row, Never

LEMMA OlderNoRow ==
  ASSUME NEW r \in Row \cup {NoRow} PROVE Older(r) = NoRow <=> r = NoRow
BY TableAssumption, OlderRow DEF Older, Row, Never

LEMMA StampRow ==
  ASSUME NEW r \in Row, NEW s \in Status PROVE Stamp(r, s) \in Row
<1>1. 0 \in {Never} \cup (0 .. MaxAge)
  BY TableAssumption
<1>2. QED
  BY <1>1 DEF Stamp, Row

LEMMA SavedRow ==
  ASSUME NEW m, NEW r \in Row PROVE Saved(m, r) \in Row
BY TableAssumption DEF Saved, Row, Never

LEMMA SavedFields ==
  ASSUME NEW m, NEW r \in Row
  PROVE  /\ Saved(m, r).status = r.status /\ Saved(m, r).seen = r.seen
         /\ ~Saved(m, r).deleted
         /\ Live(m) => /\ Saved(m, r).enabled = r.enabled
                       /\ Saved(m, r).cfg = r.cfg
<1>1. CASE Live(m)
  BY <1>1 DEF Saved, Row
<1>2. CASE ~Live(m)
  BY <1>2 DEF Saved, Row
<1> QED
  BY <1>1, <1>2

TypeInv == TypeOK /\ WorkingCopy

\* The initial state is well typed.
LEMMA InitTypeInv == Init => TypeInv
<1> SUFFICES ASSUME Init PROVE TypeInv
  OBVIOUS
<1> USE DEF Init
<1>1. task \in [Task -> TaskState]
  BY DEF TaskState, PC, Status
<1>2. newest \in [Monitor -> Status] /\ announced \in [Monitor -> Status]
  BY DEF Status
<1>3. TypeOK
  BY <1>1, <1>2 DEF TypeOK
<1>4. WorkingCopy
  BY TableAssumption DEF WorkingCopy
<1>5. QED
  BY <1>3, <1>4 DEF TypeInv

\* What Begin, Finish and Goto leave behind is a goroutine.
LEMMA BeginType ==
  ASSUME TypeInv, NEW t \in Task, NEW next \in PC \ {"idle"}, NEW m \in Monitor,
         NEW r \in Row \cup {NoRow}, NEW s \in Status, Begin(t, next, m, r, s),
         r = NoRow => next = "invalidate"
  PROVE  task' \in [Task -> TaskState] /\ WorkingCopy'
BY TableAssumption DEF TypeInv, TypeOK, WorkingCopy, Begin, TaskState, PC

LEMMA FinishType ==
  ASSUME TypeInv, NEW t \in Task, Finish(t)
  PROVE  task' \in [Task -> TaskState] /\ WorkingCopy'
BY TableAssumption DEF TypeInv, TypeOK, WorkingCopy, Finish, TaskState, PC, Status

LEMMA GotoType ==
  ASSUME TypeInv, NEW t \in Task, NEW next \in PC \ {"idle"}, Goto(t, next),
         task[t].pc # "idle", task[t].row = NoRow => next = "invalidate"
  PROVE  task' \in [Task -> TaskState] /\ WorkingCopy'
BY TableAssumption DEF TypeInv, TypeOK, WorkingCopy, Goto, TaskState, PC

LEMMA StampedType ==
  ASSUME TypeInv, NEW t \in Task, task[t].pc = "notify", NEW r \in Row,
         task' = [task EXCEPT ![t].pc = "save", ![t].row = r]
  PROVE  task' \in [Task -> TaskState] /\ WorkingCopy'
<1>1. task[t] \in TaskState
  BY DEF TypeInv, TypeOK
<1>2. [task[t] EXCEPT !.pc = "save", !.row = r] \in TaskState
  BY <1>1 DEF TaskState, PC
<1>3. task' = [task EXCEPT ![t] = [task[t] EXCEPT !.pc = "save", !.row = r]]
  BY <1>1 DEF TypeInv, TypeOK, TaskState
<1>4. QED
  BY <1>1, <1>2, <1>3, TableAssumption DEF TypeInv, TypeOK, WorkingCopy, TaskState

\* Facts about a goroutine that is at work.
LEMMA AtWork ==
  ASSUME TypeInv, NEW t \in Task, task[t].pc # "idle"
  PROVE  /\ task[t].id \in Monitor /\ task[t].status \in Status
         /\ task[t].tries \in Nat /\ task[t].pc \in PC
         /\ task[t].row \in Row \cup {NoRow}
         /\ task[t].pc # "invalidate" => task[t].row \in Row
BY DEF TypeInv, TypeOK, WorkingCopy, TaskState, PC

LEMMA AcquireType ==
  ASSUME TypeInv, NEW ms \in SUBSET Monitor, Acquire(ms)
  PROVE  disturbed' \subseteq Monitor /\ blurred' \subseteq Monitor
BY DEF TypeInv, TypeOK, Acquire

LEMMA WriteTypes ==
  ASSUME TypeInv, NEW m \in Monitor, NEW s \in Status, NEW r \in Row
  PROVE  /\ SaveMonitor(m, r) => /\ monitors' \in [Monitor -> Row \cup {NoRow}]
                                 /\ disturbed' \subseteq Monitor
         /\ SaveResult(m, s) => /\ newest' \in [Monitor -> Status]
                                /\ disturbed' \subseteq Monitor
         /\ Notify(m, s) => /\ announced' \in [Monitor -> Status]
                            /\ repeated' \subseteq Monitor
                            /\ disturbed' \subseteq Monitor
         /\ InvalidatePage(m) => /\ cache' \in PageView \cup {NoPage}
                                 /\ blurred' \subseteq Monitor
BY SavedRow DEF TypeInv, TypeOK, SaveMonitor, SaveResult, Notify, InvalidatePage

-----------------------------------------------------------------------------
(* Type correctness, one lemma per module of the system *)

LEMMA SchedulerTypes == TypeInv /\ SchedulerNext => TypeInv'
<1> SUFFICES ASSUME TypeInv, SchedulerNext PROVE TypeInv'
  OBVIOUS
<1> USE DEF alerts, pages, ghosts
<1> Check \subseteq Task /\ Loop \in Task
  BY DEF Task
<1>1. CASE Clock
  <2>1. /\ monitors' \in [Monitor -> Row \cup {NoRow}]
        /\ sweep' \in [Monitor -> Row \cup {NoRow}]
    BY <1>1, OlderRow DEF Clock, TypeInv, TypeOK
  <2>2. \A t \in Task : Older(task[t].row) \in Row \cup {NoRow}
    BY OlderRow DEF TypeInv, TypeOK, TaskState
  <2>3. task' \in [Task -> TaskState]
    BY <1>1, <2>2 DEF Clock, TypeInv, TypeOK, TaskState
  <2>4. \A t \in Task : task[t].row # NoRow => Older(task[t].row) # NoRow
    BY OlderNoRow DEF TypeInv, TypeOK, TaskState
  <2>5. WorkingCopy'
    BY <1>1, <2>4 DEF Clock, TypeInv, TypeOK, TaskState, WorkingCopy
  <2> QED
    BY <1>1, <2>1, <2>3, <2>5 DEF Clock, TypeInv, TypeOK
<1>2. CASE ScheduleJobs
  <2>1. Scheduled \in SUBSET Monitor
    BY DEF Scheduled
  <2>2. disturbed' \subseteq Monitor /\ blurred' \subseteq Monitor
    BY <1>2, <2>1, AcquireType DEF ScheduleJobs, TypeInv, TypeOK
  <2>3. sweep' \in [Monitor -> Row \cup {NoRow}]
    BY <1>2 DEF ScheduleJobs, TypeInv, TypeOK
  <2> QED
    BY <1>2, <2>2, <2>3 DEF ScheduleJobs, TypeInv, TypeOK, WorkingCopy
<1>3. CASE \E m \in Monitor : VisitMonitor(m)
  <2> PICK m \in Monitor : VisitMonitor(m)
    BY <1>3
  <2>1. CASE \E t \in Check : StartCheck(t, m)
    <3> PICK t \in Check : StartCheck(t, m)
      BY <2>1
    <3>1. sweep[m] \in Row
      BY DEF StartCheck, TypeInv, TypeOK
    <3>2. task' \in [Task -> TaskState] /\ WorkingCopy'
      <4>1. Begin(t, "probe", m, sweep[m], "") /\ t \in Task
        BY DEF StartCheck
      <4>2. "" \in Status /\ "probe" \in PC \ {"idle"}
        BY DEF Status, PC
      <4> QED
        BY <3>1, <4>1, <4>2, BeginType, TableAssumption
    <3> QED
      BY <3>2 DEF StartCheck, TypeInv, TypeOK
  <2>2. CASE SkipUnknownType(m) \/ PassPushMonitor(m)
    BY <2>2 DEF SkipUnknownType, PassPushMonitor, TypeInv, TypeOK, WorkingCopy
  <2>3. CASE FailPushMonitor(m)
    <3>1. sweep[m] \in Row
      BY <2>3 DEF FailPushMonitor, TypeInv, TypeOK
    <3>2. "down" \in Status /\ "save" \in PC \ {"idle"}
      BY DEF Status, PC
    <3>3. [sweep[m] EXCEPT !.status = "down"] \in Row
      BY <3>1, <3>2 DEF Row
    <3>4. Begin(Loop, "save", m, [sweep[m] EXCEPT !.status = "down"], "down")
      BY <2>3 DEF FailPushMonitor
    <3>5. task' \in [Task -> TaskState] /\ WorkingCopy'
      BY <3>2, <3>3, <3>4, BeginType, TableAssumption
    <3> QED
      BY <2>3, <3>5 DEF FailPushMonitor, TypeInv, TypeOK
  <2> QED
    BY <2>1, <2>2, <2>3 DEF VisitMonitor
<1>4. CASE \E t \in Check : CheckStep(t)
  <2> PICK t \in Check : CheckStep(t)
    BY <1>4
  <2>1. t \in Task
    OBVIOUS
  <2>2. CASE ProbeSucceeds(t) \/ ProbeFails(t)
    <3>1. /\ task[t].id \in Monitor /\ task[t].row \in Row
          /\ task[t].tries \in Nat /\ task[t] \in TaskState
      BY <2>1, <2>2, AtWork DEF ProbeSucceeds, ProbeFails, TypeInv, TypeOK
    <3>2. PICK next \in {"probe", "record"}, s \in Status, n \in Nat :
            task' = [task EXCEPT ![t].pc = next, ![t].status = s, ![t].tries = n]
      <4>1. CASE ProbeSucceeds(t)
        <5>1. task' = [task EXCEPT ![t].pc = "record", ![t].status = "up",
                                   ![t].tries = task[t].tries]
          BY <2>1, <3>1, <4>1 DEF ProbeSucceeds, TypeInv, TypeOK, TaskState
        <5> QED
          BY <3>1, <5>1 DEF Status
      <4>2. CASE ProbeFails(t)
        <5> DEFINE more == task[t].tries < MaxRetries(task[t].row.cfg)
                   next == IF more THEN "probe" ELSE "record"
                   s == IF more THEN "" ELSE "down"
                   n == task[t].tries + 1
        <5>1. task' = [task EXCEPT ![t].pc = next, ![t].status = s, ![t].tries = n]
          BY <4>2 DEF ProbeFails
        <5>2. next \in {"probe", "record"} /\ s \in Status /\ n \in Nat
          BY <3>1 DEF Status
        <5> HIDE DEF more, next, s, n
        <5> QED
          BY <5>1, <5>2
      <4> QED
        BY <2>2, <4>1, <4>2
    <3>3. [task[t] EXCEPT !.pc = next, !.status = s, !.tries = n] \in TaskState
      BY <3>1 DEF TaskState, PC
    <3>4. task' \in [Task -> TaskState] /\ WorkingCopy'
      BY <2>1, <3>1, <3>2, <3>3, TableAssumption
      DEF TypeInv, TypeOK, WorkingCopy, TaskState
    <3> QED
      BY <2>2, <3>4 DEF ProbeSucceeds, ProbeFails, TypeInv, TypeOK
  <2>3. CASE RecordCheck(t)
    <3>1. task' \in [Task -> TaskState] /\ WorkingCopy'
      BY <2>1, <2>3, AtWork, GotoType, TableAssumption DEF RecordCheck, PC
    <3>2. newest' \in [Monitor -> Status] /\ disturbed' \subseteq Monitor
      BY <2>1, <2>3, AtWork, WriteTypes DEF RecordCheck
    <3> QED
      BY <2>3, <3>1, <3>2 DEF RecordCheck, TypeInv, TypeOK
  <2>4. CASE CompareCheck(t)
    <3>1. task[t].id \in Monitor /\ task[t].row \in Row /\ task[t].status \in Status
      BY <2>1, <2>4, AtWork DEF CompareCheck
    <3>2. Stamp(task[t].row, task[t].status) \in Row
      BY <3>1, StampRow
    <3>3. task' \in [Task -> TaskState] /\ WorkingCopy'
      BY <2>1, <2>4, <3>2, StampedType DEF CompareCheck
    <3>4. /\ announced' \in [Monitor -> Status] /\ repeated' \subseteq Monitor
          /\ cache' \in PageView \cup {NoPage}
          /\ disturbed' \subseteq Monitor /\ blurred' \subseteq Monitor
      BY <2>4, <3>1, WriteTypes DEF CompareCheck, TypeInv, TypeOK
    <3> QED
      BY <2>4, <3>3, <3>4 DEF CompareCheck, TypeInv, TypeOK
  <2>5. CASE SaveCheck(t)
    <3>1. task' \in [Task -> TaskState] /\ WorkingCopy'
      BY <2>1, <2>5, FinishType DEF SaveCheck
    <3>2. monitors' \in [Monitor -> Row \cup {NoRow}] /\ disturbed' \subseteq Monitor
      BY <2>1, <2>5, AtWork, WriteTypes DEF SaveCheck
    <3> QED
      BY <2>5, <3>1, <3>2 DEF SaveCheck, TypeInv, TypeOK
  <2> QED
    BY <2>2, <2>3, <2>4, <2>5 DEF CheckStep
<1>5. CASE OverdueStep
  <2>1. CASE SaveOverdue
    <3>1. task' \in [Task -> TaskState] /\ WorkingCopy'
      BY <2>1, AtWork, GotoType, TableAssumption DEF SaveOverdue, PC
    <3>2. monitors' \in [Monitor -> Row \cup {NoRow}] /\ disturbed' \subseteq Monitor
      BY <2>1, AtWork, WriteTypes DEF SaveOverdue
    <3> QED
      BY <2>1, <3>1, <3>2 DEF SaveOverdue, TypeInv, TypeOK
  <2>2. CASE RecordOverdue
    <3>1. task' \in [Task -> TaskState] /\ WorkingCopy'
      BY <2>2, AtWork, GotoType, TableAssumption DEF RecordOverdue, PC
    <3>2. "down" \in Status /\ task[Loop].id \in Monitor /\ task[Loop].row \in Row
      BY <2>2, AtWork DEF RecordOverdue, Status
    <3>3. newest' \in [Monitor -> Status] /\ disturbed' \subseteq Monitor
      BY <2>2, <3>2, WriteTypes DEF RecordOverdue
    <3> QED
      BY <2>2, <3>1, <3>3 DEF RecordOverdue, TypeInv, TypeOK
  <2>3. CASE NotifyOverdue
    <3>1. task' \in [Task -> TaskState] /\ WorkingCopy'
      BY <2>3, FinishType DEF NotifyOverdue
    <3>2. "down" \in Status /\ task[Loop].id \in Monitor /\ task[Loop].row \in Row
      BY <2>3, AtWork DEF NotifyOverdue, Status
    <3>3. /\ announced' \in [Monitor -> Status] /\ repeated' \subseteq Monitor
          /\ cache' \in PageView \cup {NoPage}
          /\ disturbed' \subseteq Monitor /\ blurred' \subseteq Monitor
      BY <2>3, <3>2, WriteTypes DEF NotifyOverdue, TypeInv, TypeOK
    <3> QED
      BY <2>3, <3>1, <3>3 DEF NotifyOverdue, TypeInv, TypeOK
  <2> QED
    BY <1>5, <2>1, <2>2, <2>3 DEF OverdueStep
<1> QED
  BY <1>1, <1>2, <1>3, <1>4, <1>5 DEF SchedulerNext

LEMMA PushTypes == TypeInv /\ PushNext => TypeInv'
<1> SUFFICES ASSUME TypeInv, PushNext PROVE TypeInv'
  OBVIOUS
<1> USE DEF alerts, pages, ghosts
<1> PICK t \in Heartbeat :
      \/ \E m \in Monitor, given \in HeartbeatStatus : ReceiveHeartbeat(t, m, given)
      \/ HeartbeatStep(t)
  BY DEF PushNext
<1> t \in Task
  BY DEF Task
<1>1. CASE \E m \in Monitor, given \in HeartbeatStatus : ReceiveHeartbeat(t, m, given)
  <2> PICK m \in Monitor, given \in HeartbeatStatus : ReceiveHeartbeat(t, m, given)
    BY <1>1
  <2> DEFINE s == IF given = "" THEN "up" ELSE given
  <2>1. monitors[m] \in Row
    BY DEF ReceiveHeartbeat, Live, TypeInv, TypeOK
  <2>2. s \in Status
    BY TableAssumption DEF Status
  <2>3. Begin(t, "record", m, monitors[m], s)
    BY DEF ReceiveHeartbeat
  <2>4. "record" \in PC \ {"idle"}
    BY DEF PC
  <2> HIDE DEF s
  <2>5. task' \in [Task -> TaskState] /\ WorkingCopy'
    BY <2>1, <2>2, <2>3, <2>4, BeginType, TableAssumption
  <2>6. disturbed' \subseteq Monitor /\ blurred' \subseteq Monitor
    BY AcquireType DEF ReceiveHeartbeat
  <2> QED
    BY <2>5, <2>6 DEF ReceiveHeartbeat, TypeInv, TypeOK
<1>2. CASE RecordHeartbeat(t)
  <2>1. task' \in [Task -> TaskState] /\ WorkingCopy'
    BY <1>2, AtWork, GotoType, TableAssumption DEF RecordHeartbeat, PC
  <2>2. newest' \in [Monitor -> Status] /\ disturbed' \subseteq Monitor
    BY <1>2, AtWork, WriteTypes DEF RecordHeartbeat
  <2> QED
    BY <1>2, <2>1, <2>2 DEF RecordHeartbeat, TypeInv, TypeOK
<1>3. CASE CompareHeartbeat(t)
  <2>1. task[t].id \in Monitor /\ task[t].row \in Row /\ task[t].status \in Status
    BY <1>3, AtWork DEF CompareHeartbeat
  <2>2. Stamp(task[t].row, task[t].status) \in Row
    BY <2>1, StampRow
  <2>3. task' \in [Task -> TaskState] /\ WorkingCopy'
    BY <1>3, <2>2, StampedType DEF CompareHeartbeat
  <2>4. /\ announced' \in [Monitor -> Status] /\ repeated' \subseteq Monitor
        /\ disturbed' \subseteq Monitor
    BY <1>3, <2>1, WriteTypes DEF CompareHeartbeat, TypeInv, TypeOK
  <2> QED
    BY <1>3, <2>3, <2>4 DEF CompareHeartbeat, TypeInv, TypeOK
<1>4. CASE SaveHeartbeat(t)
  <2>1. task' \in [Task -> TaskState] /\ WorkingCopy'
    BY <1>4, FinishType DEF SaveHeartbeat
  <2>2. monitors' \in [Monitor -> Row \cup {NoRow}] /\ disturbed' \subseteq Monitor
    BY <1>4, AtWork, WriteTypes DEF SaveHeartbeat
  <2> QED
    BY <1>4, <2>1, <2>2 DEF SaveHeartbeat, TypeInv, TypeOK
<1> QED
  BY <1>1, <1>2, <1>3, <1>4 DEF HeartbeatStep

LEMMA ApiTypes == TypeInv /\ ApiNext => TypeInv'
<1> SUFFICES ASSUME TypeInv, ApiNext PROVE TypeInv'
  OBVIOUS
<1> USE DEF alerts, pages, ghosts
<1> PICK t \in Edit :
      \/ \E m \in Monitor, c \in Config : CreateMonitor(t, m, c)
      \/ \E m \in Monitor, c \in Config, on \in BOOLEAN : ReadForUpdate(t, m, c, on)
      \/ \E m \in Monitor : DeleteMonitor(t, m)
      \/ EditStep(t)
  BY DEF ApiNext
<1> t \in Task
  BY DEF Task
<1> "" \in Status /\ "invalidate" \in PC \ {"idle"} /\ "save" \in PC \ {"idle"}
  BY DEF Status, PC
<1>1. CASE \E m \in Monitor, c \in Config : CreateMonitor(t, m, c)
  <2> PICK m \in Monitor, c \in Config : CreateMonitor(t, m, c)
    BY <1>1
  <2> DEFINE new == [deleted |-> FALSE, enabled |-> TRUE, cfg |-> Refill[c],
                     status |-> "", seen |-> Never]
  <2>1. new \in Row
    BY TableAssumption DEF Row
  <2>2. monitors' \in [Monitor -> Row \cup {NoRow}]
    BY <2>1 DEF CreateMonitor, TypeInv, TypeOK
  <2>3. task' \in [Task -> TaskState] /\ WorkingCopy'
    BY BeginType, TableAssumption DEF CreateMonitor
  <2>4. disturbed' \subseteq Monitor /\ blurred' \subseteq Monitor
    BY AcquireType DEF CreateMonitor
  <2> QED
    BY <2>2, <2>3, <2>4 DEF CreateMonitor, TypeInv, TypeOK
<1>2. CASE \E m \in Monitor, c \in Config, on \in BOOLEAN : ReadForUpdate(t, m, c, on)
  <2> PICK m \in Monitor, c \in Config, on \in BOOLEAN : ReadForUpdate(t, m, c, on)
    BY <1>2
  <2>1. [monitors[m] EXCEPT !.cfg = c, !.enabled = on] \in Row
    BY DEF ReadForUpdate, Live, TypeInv, TypeOK, Row
  <2>2. task' \in [Task -> TaskState] /\ WorkingCopy'
    BY <2>1, BeginType, TableAssumption DEF ReadForUpdate
  <2>3. disturbed' \subseteq Monitor /\ blurred' \subseteq Monitor
    BY AcquireType DEF ReadForUpdate
  <2> QED
    BY <2>2, <2>3 DEF ReadForUpdate, TypeInv, TypeOK
<1>3. CASE \E m \in Monitor : DeleteMonitor(t, m)
  <2> PICK m \in Monitor : DeleteMonitor(t, m)
    BY <1>3
  <2>1. [monitors[m] EXCEPT !.deleted = TRUE] \in Row
    BY DEF DeleteMonitor, TypeInv, TypeOK, Row
  <2>2. monitors' \in [Monitor -> Row \cup {NoRow}]
    BY <2>1 DEF DeleteMonitor, TypeInv, TypeOK
  <2>3. task' \in [Task -> TaskState] /\ WorkingCopy'
    BY BeginType, TableAssumption DEF DeleteMonitor
  <2>4. disturbed' \subseteq Monitor /\ blurred' \subseteq Monitor
    BY AcquireType DEF DeleteMonitor
  <2> QED
    BY <2>2, <2>3, <2>4 DEF DeleteMonitor, TypeInv, TypeOK
<1>4. CASE SaveUpdate(t)
  <2>1. task[t].id \in Monitor /\ task[t].row \in Row
    BY <1>4, AtWork DEF SaveUpdate
  <2>2. task' \in [Task -> TaskState] /\ WorkingCopy'
    BY <1>4, <2>1, GotoType, FinishType, TableAssumption DEF SaveUpdate
  <2>3. monitors' \in [Monitor -> Row \cup {NoRow}] /\ disturbed' \subseteq Monitor
    <3>1. Saved(task[t].id, task[t].row) \in Row
      BY <2>1, SavedRow
    <3> QED
      BY <1>4, <2>1, <3>1 DEF SaveUpdate, TypeInv, TypeOK
  <2> QED
    BY <1>4, <2>2, <2>3 DEF SaveUpdate, TypeInv, TypeOK
<1>5. CASE InvalidateAfterEdit(t)
  <2>1. task' \in [Task -> TaskState] /\ WorkingCopy'
    BY <1>5, FinishType DEF InvalidateAfterEdit
  <2>2. cache' \in PageView \cup {NoPage} /\ blurred' \subseteq Monitor
    BY <1>5, AtWork DEF InvalidateAfterEdit, InvalidatePage, TypeInv, TypeOK
  <2> QED
    BY <1>5, <2>1, <2>2 DEF InvalidateAfterEdit, TypeInv, TypeOK
<1> QED
  BY <1>1, <1>2, <1>3, <1>4, <1>5 DEF EditStep

LEMMA PageTypes == TypeInv /\ PageNext => TypeInv'
<1> SUFFICES ASSUME TypeInv, PageNext PROVE TypeInv'
  OBVIOUS
<1> USE DEF alerts, pages, ghosts
<1>1. CASE ExpirePage
  BY <1>1 DEF ExpirePage, TypeInv, TypeOK, WorkingCopy
<1>2. CASE \E p \in Page : ReadPage(p)
  <2> PICK p \in Page : ReadPage(p)
    BY <1>2
  <2>1. \A m \in Monitor : ShownOf(m) \in Shown \cup {NoRow}
    BY TableAssumption DEF ShownOf, Live, Shown, Row, TypeInv, TypeOK
  <2>2. \A listed : View(listed) \in PageView
    BY <2>1 DEF View, PageView
  <2>3. OnPage \subseteq Monitor
    BY TableAssumption
  <2>4. PICK listed :
          /\ page' = [page EXCEPT ![p] = View(listed)]
          /\ blurred' = blurred \cup {m \in OnPage : m \notin listed \/ Held(m)}
    BY DEF ReadPage
  <2> QED
    BY <2>2, <2>3, <2>4 DEF ReadPage, TypeInv, TypeOK, WorkingCopy
<1>3. CASE \E p \in Page : FillCache(p)
  BY <1>3 DEF FillCache, TypeInv, TypeOK, WorkingCopy
<1>4. CASE \E p \in Page : MissCache(p)
  BY <1>4 DEF MissCache, TypeInv, TypeOK, WorkingCopy
<1> QED
  BY <1>1, <1>2, <1>3, <1>4 DEF PageNext

LEMMA CrashTypes == TypeInv /\ Crash => TypeInv'
<1> SUFFICES ASSUME TypeInv, Crash PROVE TypeInv'
  OBVIOUS
<1>1. task' \in [Task -> TaskState] /\ WorkingCopy'
  BY TableAssumption DEF Crash, TaskState, PC, Status, WorkingCopy
<1> QED
  BY <1>1 DEF Crash, TypeInv, TypeOK

LEMMA TypeStep == TypeInv /\ [Next]_vars => TypeInv'
<1> SUFFICES ASSUME TypeInv, [Next]_vars PROVE TypeInv'
  OBVIOUS
<1>1. CASE UNCHANGED vars
  BY <1>1 DEF vars, TypeInv, TypeOK, WorkingCopy
<1> QED
  BY <1>1, SchedulerTypes, PushTypes, ApiTypes, PageTypes, CrashTypes DEF Next

\* Every variable keeps its type, and no goroutine of scheduler.go,
\* push_service.go or monitor_service.go works without a row in hand.
THEOREM TypeCorrect == Spec => [](TypeOK /\ WorkingCopy)
<1>1. Init => TypeInv
  BY InitTypeInv
<1>2. TypeInv /\ [Next]_vars => TypeInv'
  BY TypeStep
<1>3. TypeInv => TypeOK /\ WorkingCopy
  BY DEF TypeInv
<1> QED
  BY <1>1, <1>2, <1>3, PTL DEF Spec

\* No goroutine probes, compares or writes without a row in hand, whatever the
\* repository answered it (push_service.go:37-43, monitor_service.go:46-52).
THEOREM WorkingCopyHeld == Spec => []WorkingCopy
BY TypeCorrect, PTL

-----------------------------------------------------------------------------
(* The story of one undisturbed monitor *)

\* What ageing leaves of a row.
LEMMA OlderFields ==
  ASSUME NEW r \in Row
  PROVE  /\ Older(r) \in Row
         /\ Older(r).deleted = r.deleted /\ Older(r).enabled = r.enabled
         /\ Older(r).cfg = r.cfg /\ Older(r).status = r.status
         /\ Older(r).seen = Never <=> r.seen = Never
         /\ r.seen # Never =>
              Older(r).seen = IF r.seen < MaxAge THEN r.seen + 1 ELSE r.seen
BY TableAssumption DEF Older, Row, Never

LEMMA OlderSeen ==
  ASSUME NEW r \in Row, NEW q \in Row, r.seen = q.seen
  PROVE  Older(r).seen = Older(q).seen
<1>1. Older(r).seen = Never <=> Older(q).seen = Never
  BY OlderFields
<1> QED
  BY <1>1, OlderFields

\* A step that concerns no goroutine, row or alert of m keeps m coherent.
LEMMA Untouched ==
  ASSUME TypeInv, NEW m \in Monitor, Coherent(m),
         monitors'[m] = monitors[m], sweep'[m] = sweep[m],
         newest'[m] = newest[m], announced'[m] = announced[m],
         \A u \in Task : task'[u] = task[u] \/ (task[u].id # m /\ task'[u].id # m)
  PROVE  Coherent(m)'
<1> Check \subseteq Task /\ Heartbeat \subseteq Task /\ Edit \subseteq Task /\ Loop \in Task
  BY DEF Task
<1>1. Settled(m)' <=> Settled(m)
  BY DEF Settled, StatusOf
<1>2. Live(m)' <=> Live(m)
  BY DEF Live
<1>3. \A t, u \in Task : task'[t].id = m /\ task'[u].id = m => t = u
  BY DEF Coherent
<1>4. \A u \in Task : task'[u].id = m <=> task[u].id = m
  OBVIOUS
<1>5. sweep'[m] # NoRow =>
        /\ sweep'[m] = monitors'[m] /\ Live(m)' /\ monitors'[m].enabled
        /\ Settled(m)'
        /\ \A t \in Task : task'[t].id # m
  BY <1>1, <1>2, <1>4 DEF Coherent
<1>6. sweep'[m] = NoRow /\ (\A t \in Task : task'[t].id # m) => Settled(m)'
  BY <1>1, <1>4 DEF Coherent
<1>7. ASSUME NEW t \in Check \cup Heartbeat, task'[t].id = m
      PROVE  ObserverPhase(t, m)'
  <2>1. task'[t] = task[t] /\ task[t].id = m
    BY <1>7
  <2>2. ObserverPhase(t, m)
    BY <2>1 DEF Coherent
  <2>3. StatusOf(m)' = StatusOf(m)
    BY DEF StatusOf
  <2> QED
    BY <1>1, <1>2, <2>1, <2>2, <2>3 DEF ObserverPhase
<1>8. task'[Loop].id = m => VerdictPhase(m)'
  BY <1>2 DEF Coherent, VerdictPhase
<1>9. ASSUME NEW t \in Edit, task'[t].id = m PROVE EditPhase(t, m)'
  BY <1>1, <1>2, <1>9 DEF Coherent, EditPhase
<1> QED
  BY <1>3, <1>5, <1>6, <1>7, <1>8, <1>9 DEF Coherent

\* A goroutine that has m has it alone; after a step of its own m stays
\* coherent if the goroutine's new phase is right, or if it let go of m settled.
LEMMA Solo ==
  ASSUME NEW m \in Monitor, Coherent(m), NEW t \in Task, task[t].id = m
  PROVE  sweep[m] = NoRow /\ \A u \in Task \ {t} : task[u].id # m
BY DEF Coherent

LEMMA Moved ==
  ASSUME NEW m \in Monitor, NEW t \in Task,
         sweep'[m] = NoRow, \A u \in Task \ {t} : task'[u].id # m,
         \/ task'[t].id # m /\ Settled(m)'
         \/ /\ task'[t].id = m
            /\ t \in Check \cup Heartbeat => ObserverPhase(t, m)'
            /\ t = Loop => VerdictPhase(m)'
            /\ t \in Edit => EditPhase(t, m)'
  PROVE  Coherent(m)'
<1> Check \subseteq Task /\ Heartbeat \subseteq Task /\ Edit \subseteq Task /\ Loop \in Task
  BY DEF Task
<1> QED
  BY DEF Coherent

\* The clock makes the row and every copy of it older alike.
LEMMA ClockStory ==
  ASSUME TypeInv, NEW m \in Monitor, Coherent(m), Clock
  PROVE  Coherent(m)'
<1> USE DEF Clock, alerts, pages, ghosts
<1> Check \subseteq Task /\ Heartbeat \subseteq Task /\ Edit \subseteq Task /\ Loop \in Task
  BY DEF Task
<1>1. /\ monitors[m] \in Row \cup {NoRow} /\ sweep[m] \in Row \cup {NoRow}
      /\ monitors'[m] = Older(monitors[m]) /\ sweep'[m] = Older(sweep[m])
      /\ NoRow \notin Row
  BY TableAssumption DEF TypeInv, TypeOK
<1>2. \A t \in Task : /\ task[t].row \in Row \cup {NoRow}
                      /\ task'[t].row = Older(task[t].row)
                      /\ task'[t].pc = task[t].pc /\ task'[t].id = task[t].id
                      /\ task'[t].status = task[t].status
  BY DEF TypeInv, TypeOK, TaskState
<1>3. /\ monitors'[m] = NoRow <=> monitors[m] = NoRow
      /\ sweep'[m] = NoRow <=> sweep[m] = NoRow
  BY <1>1, OlderNoRow
<1>4. Live(m)' <=> Live(m)
  BY <1>1, <1>3, OlderFields DEF Live
<1>5. StatusOf(m)' = StatusOf(m)
  BY <1>1, <1>3, OlderFields DEF StatusOf
<1>6. Settled(m)' <=> Settled(m)
  BY <1>5 DEF Settled
<1>7. ASSUME NEW t \in Check \cup Heartbeat, task[t].id = m
      PROVE  ObserverPhase(t, m)'
  <2>1. ObserverPhase(t, m) /\ t \in Task
    BY <1>7 DEF Coherent
  <2>2. task[t].pc \in {"probe", "record", "notify", "save"} => Live(m)'
    BY <1>4, <2>1 DEF ObserverPhase
  <2>3. task[t].pc \in {"probe", "record"} => task'[t].row = monitors'[m] /\ Settled(m)'
    BY <1>1, <1>2, <1>6, <2>1 DEF ObserverPhase
  <2>4. task[t].pc = "notify" => /\ task'[t].row = monitors'[m]
                                 /\ announced'[m] = StatusOf(m)'
                                 /\ newest'[m] = task'[t].status
    BY <1>1, <1>2, <1>5, <2>1 DEF ObserverPhase
  <2>5. ASSUME task[t].pc = "save"
        PROVE  LET r == task'[t].row
               IN  /\ newest'[m] = r.status /\ announced'[m] = r.status
                   /\ r.enabled = monitors'[m].enabled /\ r.cfg = monitors'[m].cfg
                   /\ monitors'[m].seen # Never => r.seen \in 0 .. monitors'[m].seen
    <3>1. task[t].row \in Row /\ monitors[m] \in Row
      BY <1>1, <2>1, <2>5, AtWork DEF ObserverPhase, Live
    <3>2. /\ newest[m] = task[t].row.status /\ announced[m] = task[t].row.status
          /\ task[t].row.enabled = monitors[m].enabled
          /\ task[t].row.cfg = monitors[m].cfg
          /\ monitors[m].seen # Never => task[t].row.seen \in 0 .. monitors[m].seen
      BY <2>1, <2>5 DEF ObserverPhase
    <3>3. task'[t].row = Older(task[t].row)
      BY <1>2, <2>1
    <3>4. monitors'[m].seen # Never => task'[t].row.seen \in 0 .. monitors'[m].seen
      <4> SUFFICES ASSUME monitors'[m].seen # Never
                   PROVE  task'[t].row.seen \in 0 .. monitors'[m].seen
        OBVIOUS
      <4> DEFINE a == task[t].row.seen
                 b == monitors[m].seen
      <4>1. b # Never /\ a \in 0 .. b /\ b \in 0 .. MaxAge
        BY <1>1, <3>1, <3>2, OlderFields DEF Row
      <4>2. a # Never
        BY <4>1 DEF Never
      <4>3. /\ monitors'[m].seen = IF b < MaxAge THEN b + 1 ELSE b
            /\ task'[t].row.seen = IF a < MaxAge THEN a + 1 ELSE a
        BY <1>1, <3>1, <3>3, <4>1, <4>2, OlderFields
      <4> HIDE DEF a, b
      <4> QED
        BY <4>1, <4>3, TableAssumption
    <3> QED
      BY <1>1, <3>1, <3>2, <3>3, <3>4, OlderFields
  <2> QED
    BY <1>2, <2>1, <2>2, <2>3, <2>4, <2>5 DEF ObserverPhase
<1>8. ASSUME task[Loop].id = m PROVE VerdictPhase(m)'
  <2>1. VerdictPhase(m)
    BY <1>8 DEF Coherent
  <2>2. ASSUME task[Loop].pc = "save"
        PROVE  LET r == task'[Loop].row
               IN  /\ Live(m)' /\ monitors'[m].enabled /\ Overdue(monitors[m])'
                   /\ r.enabled = monitors'[m].enabled /\ r.cfg = monitors'[m].cfg
                   /\ r.status = "down" /\ r.seen = monitors'[m].seen
                   /\ announced'[m] # "down"
    <3>1. task[Loop].row \in Row /\ monitors[m] \in Row
      BY <1>1, <2>1, <2>2, AtWork DEF VerdictPhase, Live
    <3>2. task'[Loop].row = Older(task[Loop].row)
      BY <1>2
    <3>3. /\ Live(m) /\ monitors[m].enabled /\ Overdue(monitors[m])
          /\ task[Loop].row.enabled = monitors[m].enabled
          /\ task[Loop].row.cfg = monitors[m].cfg
          /\ task[Loop].row.status = "down" /\ task[Loop].row.seen = monitors[m].seen
          /\ announced[m] # "down"
      BY <2>1, <2>2 DEF VerdictPhase
    <3>4. monitors[m].seen \in 0 .. MaxAge /\ Grace[monitors[m].cfg] \in Nat
      BY <3>1, <3>3, TableAssumption DEF Row, Overdue
    <3>5. Overdue(monitors[m])'
      BY <1>1, <3>1, <3>3, <3>4, TableAssumption, OlderFields DEF Overdue, Never
    <3>6. task'[Loop].row.seen = monitors'[m].seen
      BY <1>1, <3>1, <3>2, <3>3, OlderSeen
    <3>7. /\ monitors'[m].enabled = monitors[m].enabled
          /\ monitors'[m].cfg = monitors[m].cfg
      BY <1>1, <3>1, OlderFields
    <3>8. /\ task'[Loop].row.enabled = task[Loop].row.enabled
          /\ task'[Loop].row.cfg = task[Loop].row.cfg
          /\ task'[Loop].row.status = task[Loop].row.status
      BY <3>1, <3>2, OlderFields
    <3> QED
      BY <1>4, <3>3, <3>5, <3>6, <3>7, <3>8
  <2>3. task[Loop].pc \in {"record", "notify"} =>
          Live(m)' /\ monitors'[m].status = "down" /\ announced'[m] # "down"
    BY <1>1, <1>4, <2>1, OlderFields DEF VerdictPhase, Live
  <2> QED
    BY <1>2, <2>1, <2>2, <2>3 DEF VerdictPhase
<1>9. ASSUME NEW t \in Edit, task[t].id = m PROVE EditPhase(t, m)'
  <2>1. EditPhase(t, m) /\ t \in Task
    BY <1>9 DEF Coherent
  <2>2. ASSUME task[t].pc = "save"
        PROVE  /\ Live(m)' /\ task'[t].row.status = monitors'[m].status
               /\ task'[t].row.seen = monitors'[m].seen /\ ~task'[t].row.deleted
    <3>1. task[t].row \in Row /\ monitors[m] \in Row
      BY <1>1, <2>1, <2>2, AtWork DEF EditPhase, Live
    <3>2. task'[t].row = Older(task[t].row)
      BY <1>2, <2>1
    <3>3. /\ Live(m) /\ task[t].row.status = monitors[m].status
          /\ task[t].row.seen = monitors[m].seen /\ ~task[t].row.deleted
      BY <2>1, <2>2 DEF EditPhase
    <3>4. task'[t].row.seen = monitors'[m].seen
      BY <1>1, <3>1, <3>2, <3>3, OlderSeen
    <3> QED
      BY <1>1, <1>4, <3>1, <3>2, <3>3, <3>4, OlderFields
  <2> QED
    BY <1>2, <1>6, <2>1, <2>2 DEF EditPhase
<1>10. sweep'[m] # NoRow =>
         /\ sweep'[m] = monitors'[m] /\ Live(m)' /\ monitors'[m].enabled
         /\ Settled(m)'
         /\ \A t \in Task : task'[t].id # m
  BY <1>1, <1>2, <1>3, <1>4, <1>6, OlderFields DEF Coherent
<1>11. sweep'[m] = NoRow /\ (\A t \in Task : task'[t].id # m) => Settled(m)'
  BY <1>2, <1>3, <1>6 DEF Coherent
<1>12. \A t, u \in Task : task'[t].id = m /\ task'[u].id = m => t = u
  BY <1>2 DEF Coherent
<1> QED
  BY <1>2, <1>7, <1>8, <1>9, <1>10, <1>11, <1>12 DEF Coherent

\* A monitor that is acquired and stays undisturbed was free and settled.
LEMMA Acquired ==
  ASSUME TypeInv, NEW ms, NEW m \in Monitor, m \in ms, Acquire(ms),
         m \notin disturbed', Coherent(m)
  PROVE  sweep[m] = NoRow /\ (\A t \in Task : task[t].id # m) /\ Settled(m)
BY DEF Acquire, Held, Coherent

LEMMA ScheduleStory ==
  ASSUME TypeInv, NEW m \in Monitor, m \notin disturbed', Coherent(m), ScheduleJobs
  PROVE  Coherent(m)'
<1> USE DEF ScheduleJobs, alerts, pages, ghosts
<1>1. CASE sweep'[m] = sweep[m]
  BY <1>1, Untouched
<1>2. CASE m \in Scheduled /\ sweep'[m] # sweep[m]
  <2>1. Acquire(Scheduled) /\ sweep'[m] = monitors[m]
    BY <1>2 DEF TypeInv, TypeOK
  <2>2. (\A t \in Task : task[t].id # m) /\ Settled(m)
    BY <1>2, <2>1, Acquired
  <2>3. Live(m) /\ monitors[m].enabled
    BY <1>2 DEF Scheduled
  <2> Check \subseteq Task /\ Heartbeat \subseteq Task /\ Edit \subseteq Task /\ Loop \in Task
    BY DEF Task
  <2>4. Live(m)' /\ Settled(m)'
    BY <2>2, <2>3 DEF Live, Settled, StatusOf
  <2> QED
    BY <2>1, <2>2, <2>3, <2>4 DEF Coherent
<1>3. CASE m \notin Scheduled /\ sweep'[m] # sweep[m]
  \* The loop was idle, so there was nothing in the sweep to lose.
  BY <1>3 DEF LoopIdle, TypeInv, TypeOK
<1> QED
  BY <1>1, <1>2, <1>3

\* What Begin, Finish and Goto do to the goroutines.
LEMMA StartCheckFrame ==
  ASSUME TypeInv, NEW t \in Check, NEW k \in Monitor, StartCheck(t, k)
  PROVE  /\ task'[t].pc = "probe" /\ task'[t].id = k /\ task'[t].row = sweep[k]
         /\ task[t].id = NoMonitor
         /\ \A u \in Task \ {t} : task'[u] = task[u]
BY DEF StartCheck, Begin, TypeInv, TypeOK, WorkingCopy, Task

LEMMA FailPushFrame ==
  ASSUME TypeInv, NEW k \in Monitor, FailPushMonitor(k)
  PROVE  /\ task'[Loop].pc = "save" /\ task'[Loop].id = k
         /\ task'[Loop].row = [sweep[k] EXCEPT !.status = "down"]
         /\ task[Loop].id = NoMonitor
         /\ \A u \in Task \ {Loop} : task'[u] = task[u]
BY DEF FailPushMonitor, Begin, TypeInv, TypeOK, WorkingCopy, Task

LEMMA FinishFrame ==
  ASSUME TypeInv, NEW t \in Task, Finish(t)
  PROVE  /\ task'[t].id = NoMonitor
         /\ \A u \in Task \ {t} : task'[u] = task[u]
BY DEF Finish, TypeInv, TypeOK

LEMMA GotoFrame ==
  ASSUME TypeInv, NEW t \in Task, NEW next \in PC, Goto(t, next)
  PROVE  /\ task'[t].pc = next /\ task'[t].id = task[t].id
         /\ task'[t].row = task[t].row /\ task'[t].status = task[t].status
         /\ \A u \in Task \ {t} : task'[u] = task[u]
BY DEF Goto, TypeInv, TypeOK, TaskState

\* The loop visits a row of its sweep: of another monitor, or of this one.
LEMMA VisitOther ==
  ASSUME TypeInv, NEW m \in Monitor, Coherent(m),
         NEW k \in Monitor, k # m, VisitMonitor(k)
  PROVE  Coherent(m)'
<1> USE DEF alerts, pages, ghosts
<1>1. /\ sweep'[m] = sweep[m]
      /\ monitors' = monitors /\ newest' = newest /\ announced' = announced
  BY DEF VisitMonitor, StartCheck, SkipUnknownType, PassPushMonitor, FailPushMonitor,
         TypeInv, TypeOK
<1>2. NoMonitor # m
  BY TableAssumption
<1>3. \A u \in Task : task'[u] = task[u] \/ (task[u].id # m /\ task'[u].id # m)
  <2>1. CASE SkipUnknownType(k) \/ PassPushMonitor(k)
    BY <2>1 DEF SkipUnknownType, PassPushMonitor
  <2>2. CASE FailPushMonitor(k)
    <3>1. /\ task[Loop].id = NoMonitor /\ task'[Loop].id = k
          /\ \A u \in Task \ {Loop} : task'[u] = task[u]
      BY <2>2, FailPushFrame
    <3> QED
      BY <1>2, <3>1
  <2>3. ASSUME NEW t \in Check, StartCheck(t, k)
        PROVE  \A u \in Task : task'[u] = task[u] \/ (task[u].id # m /\ task'[u].id # m)
    <3>1. /\ task[t].id = NoMonitor /\ task'[t].id = k
          /\ \A u \in Task \ {t} : task'[u] = task[u]
      BY <2>3, StartCheckFrame
    <3> QED
      BY <1>2, <3>1
  <2> QED
    BY <2>1, <2>2, <2>3 DEF VisitMonitor
<1> QED
  BY <1>1, <1>3, Untouched

LEMMA VisitSelf ==
  ASSUME TypeInv, NEW m \in Monitor, Coherent(m), VisitMonitor(m)
  PROVE  Coherent(m)'
<1> USE DEF alerts, pages, ghosts
<1>1. /\ sweep'[m] = NoRow /\ sweep[m] # NoRow
      /\ monitors' = monitors /\ newest' = newest /\ announced' = announced
  BY DEF VisitMonitor, StartCheck, SkipUnknownType, PassPushMonitor, FailPushMonitor,
         TypeInv, TypeOK
<1>2. /\ sweep[m] = monitors[m] /\ Live(m) /\ monitors[m].enabled
      /\ Settled(m) /\ \A t \in Task : task[t].id # m
  BY <1>1 DEF Coherent
<1>3. Live(m)' /\ Settled(m)' /\ StatusOf(m)' = StatusOf(m)
  BY <1>1, <1>2 DEF Live, Settled, StatusOf
<1>4. Loop \notin Check \cup Heartbeat \cup Edit /\ Check \cap Edit = {}
  BY TableAssumption
<1>5. Check \subseteq Task /\ Heartbeat \subseteq Task /\ Edit \subseteq Task /\ Loop \in Task
  BY DEF Task
<1>6. CASE SkipUnknownType(m) \/ PassPushMonitor(m)
  <2>1. task' = task
    BY <1>6 DEF SkipUnknownType, PassPushMonitor
  <2> QED
    BY <1>1, <1>2, <1>3, <1>5, <2>1 DEF Coherent
<1>7. ASSUME NEW t \in Check, StartCheck(t, m)
      PROVE  Coherent(m)'
  <2>1. /\ task'[t].pc = "probe" /\ task'[t].id = m /\ task'[t].row = sweep[m]
        /\ \A u \in Task \ {t} : task'[u] = task[u]
    BY <1>7, StartCheckFrame
  <2>2. ObserverPhase(t, m)'
    BY <1>1, <1>2, <1>3, <2>1 DEF ObserverPhase
  <2> QED
    BY <1>1, <1>2, <1>4, <1>5, <2>1, <2>2, Moved
<1>8. CASE FailPushMonitor(m)
  <2>1. /\ task'[Loop].pc = "save" /\ task'[Loop].id = m
        /\ task'[Loop].row = [sweep[m] EXCEPT !.status = "down"]
        /\ \A u \in Task \ {Loop} : task'[u] = task[u]
    BY <1>8, FailPushFrame
  <2>2. monitors[m] \in Row /\ monitors[m].status # "down" /\ Overdue(monitors[m])
    BY <1>2, <1>8 DEF FailPushMonitor, LateHeartbeat, TypeInv, TypeOK, Live
  <2>3. /\ task'[Loop].row.enabled = monitors'[m].enabled
        /\ task'[Loop].row.cfg = monitors'[m].cfg
        /\ task'[Loop].row.status = "down" /\ task'[Loop].row.seen = monitors'[m].seen
    <3>1. task'[Loop].row = [monitors[m] EXCEPT !.status = "down"]
      BY <1>2, <2>1
    <3>2. \A r \in Row : LET q == [r EXCEPT !.status = "down"]
                         IN  /\ q.enabled = r.enabled /\ q.cfg = r.cfg
                             /\ q.status = "down" /\ q.seen = r.seen
      BY DEF Row
    <3> QED
      BY <1>1, <2>2, <3>1, <3>2
  <2>4. announced'[m] # "down"
    BY <1>1, <1>2, <2>2 DEF Settled, StatusOf, Live
  <2>5. Overdue(monitors[m])'
    BY <1>1, <2>2 DEF Overdue
  <2>6. VerdictPhase(m)'
    BY <1>1, <1>2, <1>3, <2>1, <2>3, <2>4, <2>5 DEF VerdictPhase
  <2> QED
    BY <1>1, <1>2, <1>4, <1>5, <2>1, <2>6, Moved
<1> QED
  BY <1>6, <1>7, <1>8 DEF VisitMonitor

\* The steps of a check or a heartbeat up to its write.
LEMMA ProbeStory ==
  ASSUME TypeInv, NEW t \in Check, ProbeSucceeds(t) \/ ProbeFails(t),
         NEW m \in Monitor, Coherent(m)
  PROVE  Coherent(m)'
<1> USE DEF alerts, pages, ghosts
<1>1. /\ monitors' = monitors /\ sweep' = sweep
      /\ newest' = newest /\ announced' = announced
  BY DEF ProbeSucceeds, ProbeFails
<1>2. t \in Task /\ Loop \notin Check /\ Check \cap Edit = {}
  BY TableAssumption DEF Task
<1>3. /\ task[t].pc = "probe" /\ task'[t].pc \in {"probe", "record"}
      /\ task'[t].id = task[t].id /\ task'[t].row = task[t].row
      /\ \A u \in Task \ {t} : task'[u] = task[u]
  <2>1. task[t] \in TaskState /\ task \in [Task -> TaskState]
    BY <1>2 DEF TypeInv, TypeOK
  <2>2. CASE ProbeSucceeds(t)
    BY <1>2, <2>1, <2>2 DEF ProbeSucceeds, TaskState
  <2>3. CASE ProbeFails(t)
    <3> DEFINE more == task[t].tries < MaxRetries(task[t].row.cfg)
               next == IF more THEN "probe" ELSE "record"
               s == IF more THEN "" ELSE "down"
    <3>1. /\ task' = [task EXCEPT ![t].pc = next, ![t].status = s,
                                  ![t].tries = task[t].tries + 1]
          /\ task[t].pc = "probe" /\ next \in {"probe", "record"}
      BY <2>3 DEF ProbeFails
    <3> HIDE DEF more, next, s
    <3> QED
      BY <1>2, <2>1, <3>1 DEF TaskState
  <2> QED
    BY <2>2, <2>3
<1>4. CASE task[t].id # m
  BY <1>1, <1>2, <1>3, <1>4, Untouched
<1>5. CASE task[t].id = m
  <2>1. sweep[m] = NoRow /\ \A u \in Task \ {t} : task[u].id # m
    BY <1>2, <1>5, Solo
  <2>2. ObserverPhase(t, m)
    BY <1>5 DEF Coherent
  <2>3. ObserverPhase(t, m)'
    BY <1>1, <1>3, <2>2 DEF ObserverPhase, Live, Settled, StatusOf
  <2> QED
    BY <1>1, <1>2, <1>3, <1>5, <2>1, <2>3, Moved
<1> QED
  BY <1>4, <1>5

LEMMA RecordStory ==
  ASSUME TypeInv, NEW t \in Check \cup Heartbeat,
         (t \in Check /\ RecordCheck(t)) \/ (t \in Heartbeat /\ RecordHeartbeat(t)),
         NEW m \in Monitor, m \notin disturbed', Coherent(m)
  PROVE  Coherent(m)'
<1> USE DEF alerts, pages, ghosts
<1>1. /\ monitors' = monitors /\ sweep' = sweep /\ announced' = announced
      /\ task[t].pc = "record" /\ Goto(t, "notify")
      /\ SaveResult(task[t].id, task[t].status)
  BY DEF RecordCheck, RecordHeartbeat
<1>2. t \in Task /\ t # Loop /\ t \notin Edit
  BY TableAssumption DEF Task
<1>3. /\ task'[t].pc = "notify" /\ task'[t].id = task[t].id
      /\ task'[t].row = task[t].row /\ task'[t].status = task[t].status
      /\ \A u \in Task \ {t} : task'[u] = task[u]
  BY <1>1, <1>2, GotoFrame DEF PC
<1>4. CASE task[t].id # m
  <2>1. newest'[m] = newest[m]
    BY <1>1, <1>4 DEF SaveResult, TypeInv, TypeOK
  <2> QED
    BY <1>1, <1>2, <1>3, <1>4, <2>1, Untouched
<1>5. CASE task[t].id = m
  <2>1. sweep[m] = NoRow /\ \A u \in Task \ {t} : task[u].id # m
    BY <1>2, <1>5, Solo
  <2>2. ObserverPhase(t, m)
    BY <1>5 DEF Coherent
  <2>3. newest'[m] = task[t].status
    BY <1>1, <1>5 DEF SaveResult, TypeInv, TypeOK
  <2>4. Live(m)' /\ StatusOf(m)' = StatusOf(m)
    BY <1>1, <2>2 DEF ObserverPhase, Live, StatusOf
  <2>5. ObserverPhase(t, m)'
    BY <1>1, <1>3, <2>2, <2>3, <2>4 DEF ObserverPhase, Settled
  <2> QED
    BY <1>1, <1>2, <1>3, <1>5, <2>1, <2>5, Moved
<1> QED
  BY <1>4, <1>5

LEMMA CompareStory ==
  ASSUME TypeInv, NEW t \in Check \cup Heartbeat,
         (t \in Check /\ CompareCheck(t)) \/ (t \in Heartbeat /\ CompareHeartbeat(t)),
         NEW m \in Monitor, m \notin disturbed', Coherent(m)
  PROVE  /\ Coherent(m)'
         /\ m \notin repeated => m \notin repeated'
<1> USE DEF alerts, pages, ghosts
<1>1. /\ monitors' = monitors /\ sweep' = sweep /\ newest' = newest
      /\ task[t].pc = "notify"
      /\ task' = [task EXCEPT ![t].pc = "save",
                              ![t].row = Stamp(task[t].row, task[t].status)]
      /\ IF task[t].row.status # task[t].status
         THEN Notify(task[t].id, task[t].status)
         ELSE announced' = announced /\ repeated' = repeated
  BY DEF CompareCheck, CompareHeartbeat
<1>2. t \in Task /\ t # Loop /\ t \notin Edit
  BY TableAssumption DEF Task
<1>3. /\ task'[t].pc = "save" /\ task'[t].id = task[t].id
      /\ task'[t].row = Stamp(task[t].row, task[t].status)
      /\ \A u \in Task \ {t} : task'[u] = task[u]
  BY <1>1, <1>2 DEF TypeInv, TypeOK, TaskState
<1>4. CASE task[t].id # m
  <2>1. announced'[m] = announced[m] /\ (m \notin repeated => m \notin repeated')
    BY <1>1, <1>4 DEF Notify, TypeInv, TypeOK
  <2> QED
    BY <1>1, <1>2, <1>3, <1>4, <2>1, Untouched
<1>5. CASE task[t].id = m
  <2>1. sweep[m] = NoRow /\ \A u \in Task \ {t} : task[u].id # m
    BY <1>2, <1>5, Solo
  <2>2. /\ Live(m) /\ task[t].row = monitors[m] /\ announced[m] = StatusOf(m)
        /\ newest[m] = task[t].status
    BY <1>1, <1>5 DEF Coherent, ObserverPhase
  <2>3. announced[m] = task[t].row.status
    BY <2>2 DEF StatusOf, Live
  <2>4. announced'[m] = task[t].status /\ (m \notin repeated => m \notin repeated')
    BY <1>1, <1>5, <2>3 DEF Notify, TypeInv, TypeOK
  <2>5. monitors[m] \in Row
    BY <2>2 DEF Live, TypeInv, TypeOK
  <2>6. /\ task'[t].row.status = task[t].status /\ task'[t].row.seen = 0
        /\ task'[t].row.enabled = monitors[m].enabled
        /\ task'[t].row.cfg = monitors[m].cfg
    BY <1>3, <2>2, <2>5 DEF Stamp, Row
  <2>7. monitors[m].seen # Never => 0 \in 0 .. monitors[m].seen
    BY <2>5, TableAssumption DEF Row
  <2>8. Live(m)'
    BY <1>1, <2>2 DEF Live
  <2>9. ObserverPhase(t, m)'
    BY <1>1, <1>3, <2>2, <2>4, <2>6, <2>7, <2>8 DEF ObserverPhase
  <2>10. /\ sweep'[m] = NoRow /\ task'[t].id = m
         /\ \A u \in Task \ {t} : task'[u].id # m
    BY <1>1, <1>3, <1>5, <2>1
  <2>11. Coherent(m)'
    BY <1>2, <2>9, <2>10, Moved
  <2> QED
    BY <2>4, <2>11
<1> QED
  BY <1>4, <1>5

LEMMA SaveStory ==
  ASSUME TypeInv, NEW t \in Check \cup Heartbeat,
         (t \in Check /\ SaveCheck(t)) \/ (t \in Heartbeat /\ SaveHeartbeat(t)),
         NEW m \in Monitor, m \notin disturbed', Coherent(m)
  PROVE  Coherent(m)'
<1> USE DEF alerts, pages, ghosts
<1>1. /\ newest' = newest /\ sweep' = sweep /\ announced' = announced
      /\ task[t].pc = "save" /\ Finish(t)
      /\ SaveMonitor(task[t].id, task[t].row)
  BY DEF SaveCheck, SaveHeartbeat
<1>2. t \in Task /\ t # Loop /\ t \notin Edit /\ NoMonitor # m
  BY TableAssumption DEF Task
<1>3. task'[t].id = NoMonitor /\ \A u \in Task \ {t} : task'[u] = task[u]
  BY <1>1, <1>2, FinishFrame
<1>4. CASE task[t].id # m
  <2>1. monitors'[m] = monitors[m]
    BY <1>1, <1>4 DEF SaveMonitor, TypeInv, TypeOK
  <2> QED
    BY <1>1, <1>2, <1>3, <1>4, <2>1, Untouched
<1>5. CASE task[t].id = m
  <2>1. sweep[m] = NoRow /\ \A u \in Task \ {t} : task[u].id # m
    BY <1>2, <1>5, Solo
  <2>2. /\ newest[m] = task[t].row.status /\ announced[m] = task[t].row.status
    BY <1>1, <1>5 DEF Coherent, ObserverPhase
  <2>3. task[t].row \in Row
    BY <1>1, <1>2, AtWork
  <2>4. monitors'[m] = Saved(m, task[t].row)
    BY <1>1, <1>5 DEF SaveMonitor, TypeInv, TypeOK
  <2>5. monitors'[m] \in Row /\ monitors'[m].status = task[t].row.status
    BY <2>3, <2>4, SavedRow, SavedFields
  <2>6. Settled(m)'
    BY <1>1, <2>2, <2>5, TableAssumption DEF Settled, StatusOf
  <2> QED
    BY <1>1, <1>2, <1>3, <2>1, <2>6, Moved
<1> QED
  BY <1>4, <1>5

\* The verdict "overdue": one monitor, row first, then result, then alert.
LEMMA OverdueStory ==
  ASSUME TypeInv, OverdueStep, NEW m \in Monitor, m \notin disturbed', Coherent(m)
  PROVE  /\ Coherent(m)'
         /\ m \notin repeated => m \notin repeated'
<1> USE DEF alerts, pages, ghosts
<1>1. Loop \in Task /\ Loop \notin Check \cup Heartbeat \cup Edit /\ NoMonitor # m
  BY TableAssumption DEF Task
<1>2. sweep' = sweep
  BY DEF OverdueStep, SaveOverdue, RecordOverdue, NotifyOverdue
<1>3. \/ /\ task'[Loop].pc \in {"record", "notify"}
         /\ task'[Loop].id = task[Loop].id
      \/ task'[Loop].id = NoMonitor
  BY <1>1, GotoFrame, FinishFrame
  DEF OverdueStep, SaveOverdue, RecordOverdue, NotifyOverdue, PC
<1>4. \A u \in Task \ {Loop} : task'[u] = task[u]
  BY <1>1, GotoFrame, FinishFrame
  DEF OverdueStep, SaveOverdue, RecordOverdue, NotifyOverdue, PC
<1>5. CASE task[Loop].id # m
  <2>1. /\ monitors'[m] = monitors[m] /\ newest'[m] = newest[m]
        /\ announced'[m] = announced[m] /\ (m \notin repeated => m \notin repeated')
    BY <1>5 DEF OverdueStep, SaveOverdue, RecordOverdue, NotifyOverdue,
                SaveMonitor, SaveResult, Notify, TypeInv, TypeOK
  <2>2. Coherent(m)'
    BY <1>1, <1>2, <1>3, <1>4, <1>5, <2>1, Untouched
  <2> QED
    BY <2>1, <2>2
<1>6. CASE task[Loop].id = m
  <2>1. sweep[m] = NoRow /\ \A u \in Task \ {Loop} : task[u].id # m
    BY <1>1, <1>6, Solo
  <2>2. VerdictPhase(m)
    BY <1>6 DEF Coherent
  <2>3. CASE SaveOverdue
    <3>1. task[Loop].pc = "save" /\ task[Loop].row \in Row
      BY <1>1, <2>3, AtWork DEF SaveOverdue
    <3>2. monitors'[m] = Saved(m, task[Loop].row)
      BY <1>6, <2>3 DEF SaveOverdue, SaveMonitor, TypeInv, TypeOK
    <3>3. /\ monitors'[m] \in Row /\ ~monitors'[m].deleted
          /\ monitors'[m].status = "down"
      BY <2>2, <3>1, <3>2, SavedRow, SavedFields DEF VerdictPhase
    <3>4. Live(m)'
      BY <3>3, TableAssumption DEF Live
    <3>5. task'[Loop].pc = "record" /\ task'[Loop].id = m /\ announced' = announced
          /\ repeated' = repeated
      BY <1>1, <1>6, <2>3, GotoFrame DEF SaveOverdue, PC
    <3>6. VerdictPhase(m)'
      BY <2>2, <3>1, <3>3, <3>4, <3>5 DEF VerdictPhase
    <3>7. Coherent(m)'
      BY <1>1, <1>2, <1>4, <2>1, <3>5, <3>6, Moved
    <3> QED
      BY <3>5, <3>7
  <2>4. CASE RecordOverdue
    <3>1. task[Loop].pc = "record" /\ monitors' = monitors
      BY <2>4 DEF RecordOverdue
    <3>2. newest'[m] = "down"
      BY <1>6, <2>4 DEF RecordOverdue, SaveResult, TypeInv, TypeOK
    <3>3. task'[Loop].pc = "notify" /\ task'[Loop].id = m /\ announced' = announced
          /\ repeated' = repeated
      BY <1>1, <1>6, <2>4, GotoFrame DEF RecordOverdue, PC
    <3>4. VerdictPhase(m)'
      BY <2>2, <3>1, <3>2, <3>3 DEF VerdictPhase, Live
    <3>5. Coherent(m)'
      BY <1>1, <1>2, <1>4, <2>1, <3>3, <3>4, Moved
    <3> QED
      BY <3>3, <3>5
  <2>5. CASE NotifyOverdue
    <3>1. task[Loop].pc = "notify" /\ monitors' = monitors /\ newest' = newest
      BY <2>5 DEF NotifyOverdue
    <3>2. /\ Live(m) /\ monitors[m].status = "down" /\ announced[m] # "down"
          /\ newest[m] = "down"
      BY <2>2, <3>1 DEF VerdictPhase
    <3>3. announced'[m] = "down" /\ (m \notin repeated => m \notin repeated')
      BY <1>6, <2>5, <3>2 DEF NotifyOverdue, Notify, TypeInv, TypeOK
    <3>4. task'[Loop].id # m
      BY <1>1, <2>5, FinishFrame DEF NotifyOverdue
    <3>5. Settled(m)'
      BY <3>1, <3>2, <3>3 DEF Settled, StatusOf, Live
    <3>6. Coherent(m)'
      BY <1>1, <1>2, <1>4, <2>1, <3>4, <3>5, Moved
    <3> QED
      BY <3>3, <3>6
  <2> QED
    BY <2>3, <2>4, <2>5 DEF OverdueStep
<1> QED
  BY <1>5, <1>6

\* The requests of the monitor API.
LEMMA CreateStory ==
  ASSUME TypeInv, NEW t \in Edit, NEW k \in Monitor, NEW c \in Config,
         CreateMonitor(t, k, c), NEW m \in Monitor, m \notin disturbed', Coherent(m)
  PROVE  Coherent(m)'
<1> USE DEF alerts, pages, ghosts
<1>1. t \in Task /\ t # Loop /\ t \notin Check \cup Heartbeat /\ NoMonitor # m
  BY TableAssumption DEF Task
<1>2. /\ sweep' = sweep /\ newest' = newest /\ announced' = announced
      /\ monitors[k] = NoRow
      /\ monitors' = [monitors EXCEPT ![k] =
           [deleted |-> FALSE, enabled |-> TRUE, cfg |-> Refill[c],
            status |-> "", seen |-> Never]]
      /\ Acquire({k})
  BY DEF CreateMonitor
<1>3. /\ task'[t].pc = "invalidate" /\ task'[t].id = k /\ task[t].id = NoMonitor
      /\ \A u \in Task \ {t} : task'[u] = task[u]
  BY <1>1 DEF CreateMonitor, Begin, TypeInv, TypeOK, WorkingCopy
<1>4. CASE k # m
  <2>1. monitors'[m] = monitors[m]
    BY <1>2, <1>4 DEF TypeInv, TypeOK
  <2> QED
    BY <1>1, <1>2, <1>3, <1>4, <2>1, Untouched
<1>5. CASE k = m
  <2>1. sweep[m] = NoRow /\ (\A u \in Task : task[u].id # m) /\ Settled(m)
    BY <1>2, <1>5, Acquired
  <2>2. monitors'[m].status = "" /\ StatusOf(m) = ""
    BY <1>2, <1>5 DEF StatusOf, TypeInv, TypeOK
  <2>3. Settled(m)'
    BY <1>2, <2>1, <2>2 DEF Settled, StatusOf
  <2>4. EditPhase(t, m)'
    BY <1>3, <2>3 DEF EditPhase
  <2>5. /\ sweep'[m] = NoRow /\ task'[t].id = m
        /\ \A u \in Task \ {t} : task'[u].id # m
    BY <1>2, <1>3, <1>5, <2>1
  <2> QED
    BY <1>1, <2>4, <2>5, Moved
<1> QED
  BY <1>4, <1>5

LEMMA ReadStory ==
  ASSUME TypeInv, NEW t \in Edit, NEW k \in Monitor, NEW c \in Config,
         NEW on \in BOOLEAN, ReadForUpdate(t, k, c, on),
         NEW m \in Monitor, m \notin disturbed', Coherent(m)
  PROVE  Coherent(m)'
<1> USE DEF alerts, pages, ghosts
<1>1. t \in Task /\ t # Loop /\ t \notin Check \cup Heartbeat /\ NoMonitor # m
  BY TableAssumption DEF Task
<1>2. /\ sweep' = sweep /\ newest' = newest /\ announced' = announced
      /\ monitors' = monitors /\ Live(k) /\ Acquire({k})
  BY DEF ReadForUpdate
<1>3. /\ task'[t].pc = "save" /\ task'[t].id = k /\ task[t].id = NoMonitor
      /\ task'[t].row = [monitors[k] EXCEPT !.cfg = c, !.enabled = on]
      /\ \A u \in Task \ {t} : task'[u] = task[u]
  BY <1>1 DEF ReadForUpdate, Begin, TypeInv, TypeOK, WorkingCopy
<1>4. CASE k # m
  BY <1>1, <1>2, <1>3, <1>4, Untouched
<1>5. CASE k = m
  <2>1. sweep[m] = NoRow /\ (\A u \in Task : task[u].id # m) /\ Settled(m)
    BY <1>2, <1>5, Acquired
  <2>2. Settled(m)' /\ Live(m)'
    BY <1>2, <1>5, <2>1 DEF Settled, StatusOf, Live
  <2>3. monitors[m] \in Row /\ ~monitors[m].deleted
    BY <1>2, <1>5 DEF Live, TypeInv, TypeOK
  <2>4. LET r == task'[t].row
        IN  /\ r.status = monitors[m].status /\ r.seen = monitors[m].seen
            /\ ~r.deleted
    <3>1. \A r \in Row : LET q == [r EXCEPT !.cfg = c, !.enabled = on]
                         IN  /\ q.status = r.status /\ q.seen = r.seen
                             /\ q.deleted = r.deleted
      BY DEF Row
    <3> QED
      BY <1>3, <1>5, <2>3, <3>1
  <2>5. EditPhase(t, m)'
    BY <1>2, <1>3, <2>2, <2>4 DEF EditPhase
  <2> QED
    BY <1>1, <1>2, <1>3, <1>5, <2>1, <2>5, Moved
<1> QED
  BY <1>4, <1>5

LEMMA DeleteStory ==
  ASSUME TypeInv, NEW t \in Edit, NEW k \in Monitor, DeleteMonitor(t, k),
         NEW m \in Monitor, m \notin disturbed', Coherent(m)
  PROVE  Coherent(m)'
<1> USE DEF alerts, pages, ghosts
<1>1. t \in Task /\ t # Loop /\ t \notin Check \cup Heartbeat /\ NoMonitor # m
  BY TableAssumption DEF Task
<1>2. /\ sweep' = sweep /\ newest' = newest /\ announced' = announced
      /\ monitors[k] \in Row /\ NoRow \notin Row
      /\ monitors' = [monitors EXCEPT ![k].deleted = TRUE] /\ Acquire({k})
  BY TableAssumption DEF DeleteMonitor, TypeInv, TypeOK
<1>3. /\ task'[t].pc = "invalidate" /\ task'[t].id = k /\ task[t].id = NoMonitor
      /\ \A u \in Task \ {t} : task'[u] = task[u]
  BY <1>1 DEF DeleteMonitor, Begin, TypeInv, TypeOK, WorkingCopy
<1>4. CASE k # m
  <2>1. monitors'[m] = monitors[m]
    BY <1>2, <1>4 DEF TypeInv, TypeOK
  <2> QED
    BY <1>1, <1>2, <1>3, <1>4, <2>1, Untouched
<1>5. CASE k = m
  <2>1. sweep[m] = NoRow /\ (\A u \in Task : task[u].id # m) /\ Settled(m)
    BY <1>2, <1>5, Acquired
  <2>2. monitors'[m] \in Row /\ monitors'[m].status = monitors[m].status
    BY <1>2, <1>5 DEF TypeInv, TypeOK, Row
  <2>3. Settled(m)'
    BY <1>2, <1>5, <2>1, <2>2 DEF Settled, StatusOf
  <2>4. EditPhase(t, m)'
    BY <1>3, <2>3 DEF EditPhase
  <2>5. /\ sweep'[m] = NoRow /\ task'[t].id = m
        /\ \A u \in Task \ {t} : task'[u].id # m
    BY <1>2, <1>3, <1>5, <2>1
  <2> QED
    BY <1>1, <2>4, <2>5, Moved
<1> QED
  BY <1>4, <1>5

LEMMA EditStory ==
  ASSUME TypeInv, NEW t \in Edit, EditStep(t),
         NEW m \in Monitor, m \notin disturbed', Coherent(m)
  PROVE  Coherent(m)'
<1> USE DEF alerts, pages, ghosts
<1>1. t \in Task /\ t # Loop /\ t \notin Check \cup Heartbeat /\ NoMonitor # m
  BY TableAssumption DEF Task
<1>2. sweep' = sweep /\ newest' = newest /\ announced' = announced
  BY DEF EditStep, SaveUpdate, InvalidateAfterEdit
<1>3. /\ \/ task'[t].pc = "invalidate" /\ task'[t].id = task[t].id
         \/ task'[t].id = NoMonitor
      /\ \A u \in Task \ {t} : task'[u] = task[u]
  BY <1>1, GotoFrame, FinishFrame DEF EditStep, SaveUpdate, InvalidateAfterEdit, PC
<1>4. CASE task[t].id # m
  <2>1. monitors'[m] = monitors[m]
    BY <1>4 DEF EditStep, SaveUpdate, InvalidateAfterEdit, TypeInv, TypeOK
  <2> QED
    BY <1>1, <1>2, <1>3, <1>4, <2>1, Untouched
<1>5. CASE task[t].id = m
  <2>1. sweep[m] = NoRow /\ \A u \in Task \ {t} : task[u].id # m
    BY <1>1, <1>5, Solo
  <2>2. EditPhase(t, m)
    BY <1>5 DEF Coherent
  <2>3. Settled(m)'
    <3>1. CASE SaveUpdate(t)
      <4>1. task[t].pc = "save" /\ task[t].row \in Row
        BY <1>1, <3>1, AtWork DEF SaveUpdate
      <4>2. monitors'[m] = Saved(m, task[t].row)
        BY <1>5, <3>1 DEF SaveUpdate, TypeInv, TypeOK
      <4>3. monitors'[m] \in Row /\ monitors'[m].status = monitors[m].status
        BY <2>2, <4>1, <4>2, SavedRow, SavedFields DEF EditPhase
      <4> QED
        BY <1>2, <2>2, <4>1, <4>3, TableAssumption DEF EditPhase, Settled, StatusOf, Live
    <3>2. CASE InvalidateAfterEdit(t)
      BY <2>2, <3>2 DEF InvalidateAfterEdit, EditPhase, Settled, StatusOf
    <3> QED
      BY <3>1, <3>2 DEF EditStep
  <2>4. task'[t].id = m => EditPhase(t, m)'
    BY <1>1, <1>3, <2>3 DEF EditPhase
  <2> QED
    BY <1>1, <1>2, <1>3, <1>5, <2>1, <2>3, <2>4, Moved
<1> QED
  BY <1>4, <1>5

\* A heartbeat finds its monitor.
LEMMA ReceiveStory ==
  ASSUME TypeInv, NEW t \in Heartbeat, NEW k \in Monitor, NEW given \in HeartbeatStatus,
         ReceiveHeartbeat(t, k, given),
         NEW m \in Monitor, m \notin disturbed', Coherent(m)
  PROVE  Coherent(m)'
<1> USE DEF alerts, pages, ghosts
<1>1. t \in Task /\ t # Loop /\ t \notin Edit /\ NoMonitor # m
  BY TableAssumption DEF Task
<1>2. /\ sweep' = sweep /\ newest' = newest /\ announced' = announced
      /\ monitors' = monitors /\ Live(k) /\ Acquire({k})
  BY DEF ReceiveHeartbeat
<1>3. /\ task'[t].pc = "record" /\ task'[t].id = k /\ task[t].id = NoMonitor
      /\ task'[t].row = monitors[k]
      /\ \A u \in Task \ {t} : task'[u] = task[u]
  BY <1>1 DEF ReceiveHeartbeat, Begin, TypeInv, TypeOK, WorkingCopy
<1>4. CASE k # m
  BY <1>1, <1>2, <1>3, <1>4, Untouched
<1>5. CASE k = m
  <2>1. sweep[m] = NoRow /\ (\A u \in Task : task[u].id # m) /\ Settled(m)
    BY <1>2, <1>5, Acquired
  <2>2. Settled(m)' /\ Live(m)'
    BY <1>2, <1>5, <2>1 DEF Settled, StatusOf, Live
  <2>3. ObserverPhase(t, m)'
    BY <1>2, <1>3, <1>5, <2>2 DEF ObserverPhase
  <2> QED
    BY <1>1, <1>2, <1>3, <1>5, <2>1, <2>3, Moved
<1> QED
  BY <1>4, <1>5

LEMMA CrashStory ==
  ASSUME TypeInv, Crash, NEW m \in Monitor, m \notin disturbed', Coherent(m)
  PROVE  Coherent(m)'
<1>1. sweep[m] = NoRow /\ (\A t \in Task : task[t].id # m) /\ Settled(m)
  BY DEF Crash, Held, Coherent
<1>2. sweep'[m] = NoRow /\ \A t \in Task : task'[t].id # m
  BY TableAssumption DEF Crash
<1>3. Settled(m)'
  BY <1>1 DEF Crash, Settled, StatusOf
<1>4. Check \subseteq Task /\ Heartbeat \subseteq Task /\ Edit \subseteq Task /\ Loop \in Task
  BY DEF Task
<1> QED
  BY <1>2, <1>3, <1>4 DEF Coherent

-----------------------------------------------------------------------------
(* The invariant is inductive *)

\* Once disturbed, always disturbed.
LEMMA DisturbedGrows == TypeInv /\ [Next]_vars => disturbed \subseteq disturbed'
<1> SUFFICES ASSUME TypeInv, [Next]_vars PROVE disturbed \subseteq disturbed'
  OBVIOUS
<1> USE DEF alerts, pages, ghosts, Acquire, SaveMonitor, SaveResult, Notify
<1>1. CASE SchedulerNext
  BY <1>1 DEF SchedulerNext, Clock, ScheduleJobs, VisitMonitor, SkipUnknownType,
     PassPushMonitor, FailPushMonitor, StartCheck, CheckStep, ProbeSucceeds, ProbeFails,
     RecordCheck, CompareCheck, SaveCheck, OverdueStep, SaveOverdue, RecordOverdue,
     NotifyOverdue
<1>2. CASE PushNext
  BY <1>2 DEF PushNext, ReceiveHeartbeat, HeartbeatStep, RecordHeartbeat,
     CompareHeartbeat, SaveHeartbeat
<1>3. CASE ApiNext
  BY <1>3 DEF ApiNext, CreateMonitor, ReadForUpdate, DeleteMonitor, EditStep, SaveUpdate,
     InvalidateAfterEdit
<1>4. CASE PageNext
  BY <1>4 DEF PageNext, ExpirePage, MissCache, ReadPage, FillCache
<1>5. CASE Crash \/ UNCHANGED vars
  BY <1>5 DEF Crash, vars
<1> QED
  BY <1>1, <1>2, <1>3, <1>4, <1>5 DEF Next

\* A step that says nothing to the subscribers repeats nothing; the others are
\* CompareStory and OverdueStory.
LEMMA SilentSteps ==
  ASSUME \/ Clock \/ ScheduleJobs \/ ApiNext \/ PageNext \/ Crash
         \/ \E k \in Monitor : VisitMonitor(k)
         \/ \E t \in Check : ProbeSucceeds(t) \/ ProbeFails(t) \/ RecordCheck(t) \/ SaveCheck(t)
         \/ \E t \in Heartbeat :
              \/ \E k \in Monitor, given \in HeartbeatStatus : ReceiveHeartbeat(t, k, given)
              \/ RecordHeartbeat(t) \/ SaveHeartbeat(t)
  PROVE  repeated' = repeated
BY DEF alerts, Clock, ScheduleJobs, VisitMonitor, StartCheck, SkipUnknownType,
   PassPushMonitor, FailPushMonitor, ProbeSucceeds, ProbeFails, RecordCheck, SaveCheck,
   ReceiveHeartbeat, RecordHeartbeat, SaveHeartbeat, ApiNext, CreateMonitor,
   ReadForUpdate, DeleteMonitor, EditStep, SaveUpdate, InvalidateAfterEdit, PageNext,
   ExpirePage, MissCache, ReadPage, FillCache, Crash

LEMMA CoherentStep ==
  ASSUME TypeInv, Next, NEW m \in Monitor, m \notin disturbed', Coherent(m),
         m \notin repeated
  PROVE  Coherent(m)' /\ m \notin repeated'
<1>1. CASE Clock
  BY <1>1, ClockStory, SilentSteps
<1>2. CASE ScheduleJobs
  BY <1>2, ScheduleStory, SilentSteps
<1>3. ASSUME NEW k \in Monitor, VisitMonitor(k) PROVE Coherent(m)' /\ m \notin repeated'
  <2>1. repeated' = repeated
    BY <1>3, SilentSteps
  <2>2. Coherent(m)'
    BY <1>3, VisitOther, VisitSelf
  <2> QED
    BY <2>1, <2>2
<1>4. ASSUME NEW t \in Check, CheckStep(t) PROVE Coherent(m)' /\ m \notin repeated'
  <2>1. CASE ProbeSucceeds(t) \/ ProbeFails(t)
    BY <2>1, ProbeStory, SilentSteps
  <2>2. CASE RecordCheck(t)
    <3>1. repeated' = repeated
      BY <2>2, SilentSteps
    <3>2. Coherent(m)'
      BY <1>4, <2>2, RecordStory
    <3> QED
      BY <3>1, <3>2
  <2>3. CASE CompareCheck(t)
    <3>1. t \in Check \cup Heartbeat
      BY <1>4
    <3>2. (t \in Check /\ CompareCheck(t)) \/ (t \in Heartbeat /\ CompareHeartbeat(t))
      BY <1>4, <2>3
    <3>3. Coherent(m)' /\ (m \notin repeated => m \notin repeated')
      BY <3>1, <3>2, CompareStory, ZenonT(60)
    <3> QED
      BY <3>3
  <2>4. CASE SaveCheck(t)
    <3>1. repeated' = repeated
      BY <2>4, SilentSteps
    <3>2. Coherent(m)'
      BY <1>4, <2>4, SaveStory
    <3> QED
      BY <3>1, <3>2
  <2> QED
    BY <1>4, <2>1, <2>2, <2>3, <2>4 DEF CheckStep
<1>5. CASE OverdueStep
  BY <1>5, OverdueStory
<1>6. CASE PushNext
  <2> PICK t \in Heartbeat :
        \/ \E k \in Monitor, given \in HeartbeatStatus : ReceiveHeartbeat(t, k, given)
        \/ HeartbeatStep(t)
    BY <1>6 DEF PushNext
  <2>1. ASSUME NEW k \in Monitor, NEW given \in HeartbeatStatus,
               ReceiveHeartbeat(t, k, given)
        PROVE  Coherent(m)' /\ m \notin repeated'
    BY <2>1, ReceiveStory, SilentSteps
  <2>2. CASE RecordHeartbeat(t)
    BY <2>2, RecordStory, SilentSteps
  <2>3. CASE CompareHeartbeat(t)
    BY <2>3, CompareStory
  <2>4. CASE SaveHeartbeat(t)
    BY <2>4, SaveStory, SilentSteps
  <2> QED
    BY <2>1, <2>2, <2>3, <2>4 DEF HeartbeatStep
<1>7. CASE ApiNext
  <2>1. Coherent(m)'
    BY <1>7, CreateStory, ReadStory, DeleteStory, EditStory DEF ApiNext
  <2> QED
    BY <1>7, <2>1, SilentSteps
<1>8. CASE PageNext
  <2>1. /\ monitors' = monitors /\ sweep' = sweep /\ task' = task
        /\ newest' = newest /\ announced' = announced
    BY <1>8 DEF PageNext, ExpirePage, MissCache, ReadPage, FillCache, alerts
  <2> QED
    BY <1>8, <2>1, Untouched, SilentSteps
<1>9. CASE Crash
  BY <1>9, CrashStory, SilentSteps
<1> QED
  BY <1>1, <1>2, <1>3, <1>4, <1>5, <1>6, <1>7, <1>8, <1>9 DEF Next, SchedulerNext

LEMMA InitStory == Init => Story
<1> SUFFICES ASSUME Init, NEW m \in Monitor PROVE Coherent(m)
  BY DEF Init, Story
<1>1. Settled(m)
  BY DEF Init, Settled, StatusOf
<1>2. Check \subseteq Task /\ Heartbeat \subseteq Task /\ Edit \subseteq Task /\ Loop \in Task
  BY DEF Task
<1>3. sweep[m] = NoRow /\ \A t \in Task : task[t].id # m
  BY TableAssumption DEF Init
<1> QED
  BY <1>1, <1>2, <1>3 DEF Coherent

LEMMA IInvStep == IInv /\ [Next]_vars => IInv'
<1> SUFFICES ASSUME IInv, [Next]_vars PROVE IInv'
  OBVIOUS
<1>1. TypeInv /\ TypeInv'
  BY TypeStep DEF IInv, TypeInv
<1>2. CASE UNCHANGED vars
  <2>1. ASSUME NEW m \in Monitor, m \notin disturbed PROVE Coherent(m)'
    BY <1>1, <1>2, <2>1, Untouched DEF vars, IInv, Story
  <2>2. Story'
    BY <1>2, <2>1 DEF vars, IInv, Story
  <2> QED
    BY <1>1, <2>2 DEF IInv, TypeInv
<1>3. CASE Next
  <2>1. ASSUME NEW m \in Monitor, m \notin disturbed'
        PROVE  Coherent(m)' /\ m \notin repeated'
    <3>1. m \notin disturbed
      BY <1>1, <2>1, DisturbedGrows
    <3>2. Coherent(m) /\ m \notin repeated
      BY <3>1 DEF IInv, Story
    <3> QED
      BY <1>1, <1>3, <2>1, <3>2, CoherentStep
  <2>2. repeated' \subseteq Monitor
    BY <1>1 DEF TypeInv, TypeOK
  <2>3. Story'
    BY <2>1, <2>2 DEF Story
  <2> QED
    BY <1>1, <2>3 DEF IInv, TypeInv
<1> QED
  BY <1>2, <1>3

\* The invariant holds throughout every behaviour.
THEOREM InvariantHolds == Spec => []IInv
<1>1. Init => IInv
  BY InitTypeInv, InitStory DEF IInv, TypeInv
<1>2. IInv /\ [Next]_vars => IInv'
  BY IInvStep
<1> QED
  BY <1>1, <1>2, PTL DEF Spec

\* Whenever no handler works on an undisturbed monitor, its row, its newest
\* result and its newest alert agree (scheduler.go:191-236,
\* push_service.go:49-77, scheduler.go:120-144).
THEOREM OneStoryHolds == Spec => []OneStory
<1>1. IInv => OneStory
  BY DEF IInv, Story, Coherent, OneStory, Held, Settled
<1> QED
  BY <1>1, InvariantHolds, PTL

\* An undisturbed monitor never sends the same alert twice in a row
\* (scheduler.go:121, scheduler.go:209, push_service.go:63).
THEOREM AlertsDoNotRepeat == Spec => []NoRepeatedAlert
<1>1. IInv => NoRepeatedAlert
  BY DEF IInv, Story, NoRepeatedAlert
<1> QED
  BY <1>1, InvariantHolds, PTL

\* The verdict "Heartbeat overdue" on an undisturbed monitor is still true when
\* it is written (scheduler.go:110-128).
THEOREM VerdictIsCurrent == Spec => []OverdueVerdictIsCurrent
<1>1. ASSUME IInv PROVE OverdueVerdictIsCurrent
  <2> SUFFICES ASSUME task[Loop].pc = "save", task[Loop].id \notin disturbed
               PROVE  LET m == task[Loop].id
                      IN  Live(m) /\ monitors[m].enabled /\ Overdue(monitors[m])
    BY DEF OverdueVerdictIsCurrent
  <2>1. task[Loop].id \in Monitor
    BY <1>1, AtWork DEF IInv, TypeInv, Task
  <2> QED
    BY <1>1, <2>1 DEF IInv, Story, Coherent, VerdictPhase
<1> QED
  BY <1>1, InvariantHolds, PTL
=============================================================================
