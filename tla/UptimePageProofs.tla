-------------------------- MODULE UptimePageProofs --------------------------
(***************************************************************************)
(* Proofs, for every value of the constants, of what a check concludes     *)
(* from its attempts and of what the cached page of the backend shows.     *)
(***************************************************************************)
EXTENDS UptimeProofs

(* The attempts of a check *)

Attempts(t) ==
  LET most == MaxRetries(task[t].row.cfg)
  IN  /\ task[t].pc # "invalidate"
      /\ task[t].pc = "probe" => task[t].tries <= most
      /\ task[t].pc \in {"record", "notify"} =>
           /\ task[t].status = "down" => task[t].tries = most + 1
           /\ task[t].status = "up" => task[t].tries <= most

LEMMA MaxRetriesType ==
  ASSUME NEW c \in Config
  PROVE  /\ MaxRetries(c) \in Nat
         /\ MaxRetries(c) = IF Retries[c] >= 0 THEN Retries[c] ELSE 0
BY TableAssumption DEF MaxRetries

\* A check that is left alone, or goes on to its alert, or has ended, or begins.
LEMMA AttemptsKept ==
  ASSUME TypeInv, NEW t \in Check, Attempts(t),
         \/ task'[t] = task[t]
         \/ task'[t] = [task[t] EXCEPT !.row = Older(task[t].row)]
         \/ task[t].pc = "record" /\ task'[t] = [task[t] EXCEPT !.pc = "notify"]
         \/ task'[t].pc \in {"idle", "save"}
         \/ /\ task'[t].pc = "probe" /\ task'[t].tries = 0
            /\ task'[t].row \in Row
  PROVE  Attempts(t)'
<1>1. t \in Task /\ task[t] \in TaskState
  BY DEF TypeInv, TypeOK, Task
<1>2. CASE task'[t] = [task[t] EXCEPT !.row = Older(task[t].row)]
  <2>1. /\ task'[t].pc = task[t].pc /\ task'[t].tries = task[t].tries
        /\ task'[t].status = task[t].status /\ task'[t].row = Older(task[t].row)
    BY <1>1, <1>2 DEF TaskState
  <2>2. task[t].pc \in {"probe", "record", "notify"} => task'[t].row.cfg = task[t].row.cfg
    BY <1>1, <2>1, AtWork, OlderFields
  <2>3. QED
    BY <2>1, <2>2 DEF Attempts, MaxRetries
<1>3. CASE task[t].pc = "record" /\ task'[t] = [task[t] EXCEPT !.pc = "notify"]
  <2>1. /\ task'[t].pc = "notify" /\ task'[t].tries = task[t].tries
        /\ task'[t].status = task[t].status /\ task'[t].row = task[t].row
    BY <1>1, <1>3 DEF TaskState
  <2>2. QED
    BY <1>3, <2>1 DEF Attempts, MaxRetries
<1>4. CASE task'[t].pc \in {"idle", "save"}
  BY <1>4 DEF Attempts
<1>5. CASE task'[t].pc = "probe" /\ task'[t].tries = 0 /\ task'[t].row \in Row
  <2>1. task'[t].row.cfg \in Config
    BY <1>5 DEF Row
  <2>2. QED
    BY <1>5, <2>1, MaxRetriesType DEF Attempts
<1>6. CASE task'[t] = task[t]
  BY <1>6 DEF Attempts, MaxRetries
<1>7. QED
  BY <1>2, <1>3, <1>4, <1>5, <1>6

\* One more attempt, or the last one: the count is what the verdict says.
LEMMA AttemptsProbe ==
  ASSUME TypeInv, NEW t \in Check, Attempts(t), ProbeSucceeds(t) \/ ProbeFails(t)
  PROVE  Attempts(t)'
<1> DEFINE most == MaxRetries(task[t].row.cfg)
           more == task[t].tries < most
<1>1. /\ t \in Task /\ task[t] \in TaskState /\ task \in [Task -> TaskState]
      /\ task[t].pc = "probe"
  BY DEF TypeInv, TypeOK, Task, ProbeSucceeds, ProbeFails
<1>2. task[t].row \in Row /\ task[t].tries \in Nat
  BY <1>1, AtWork
<1>3. most \in Nat /\ task[t].tries <= most
  BY <1>1, <1>2, MaxRetriesType DEF Row, Attempts
<1>4. CASE ProbeSucceeds(t)
  <2>1. /\ task'[t].pc = "record" /\ task'[t].status = "up"
        /\ task'[t].tries = task[t].tries /\ task'[t].row = task[t].row
    BY <1>1, <1>4 DEF ProbeSucceeds, TaskState
  <2>2. QED
    BY <1>3, <2>1 DEF Attempts, MaxRetries
<1>5. CASE ProbeFails(t)
  <2>1. /\ task'[t].pc = IF more THEN "probe" ELSE "record"
        /\ task'[t].status = IF more THEN "" ELSE "down"
        /\ task'[t].tries = task[t].tries + 1 /\ task'[t].row = task[t].row
    BY <1>1, <1>5 DEF ProbeFails, TaskState
  <2>2. more => task[t].tries + 1 <= most
    BY <1>2, <1>3
  <2>3. ~more => task[t].tries + 1 = most + 1
    BY <1>2, <1>3
  <2> HIDE DEF more
  <2>4.   /\ task'[t].pc = "probe" => task'[t].tries <= most
          /\ task'[t].pc \in {"record", "notify"} =>
               /\ task'[t].status = "down" => task'[t].tries = most + 1
               /\ task'[t].status = "up" => task'[t].tries <= most
    BY <2>1, <2>2, <2>3
  <2>5. QED
    BY <2>1, <2>4 DEF Attempts, MaxRetries
<1>6. QED
  BY <1>4, <1>5

\* Goroutines are disjoint, so only its own steps count for a check.
LEMMA AttemptsStep ==
  ASSUME TypeInv, [Next]_vars, NEW t \in Check, Attempts(t)
  PROVE  Attempts(t)'
<1>1. t \in Task /\ t # Loop /\ t \notin Heartbeat /\ t \notin Edit
      /\ task \in [Task -> TaskState] /\ task[t] \in TaskState
  BY TableAssumption DEF TypeInv, TypeOK, Task
<1>2. CASE task'[t] = task[t]
  BY <1>2, AttemptsKept
<1>3. CASE Clock
  BY <1>1, <1>3, AttemptsKept DEF Clock
<1>4. ASSUME NEW m \in Monitor, NEW u \in Check, StartCheck(u, m) PROVE Attempts(t)'
  <2>1. CASE u = t
    <3>1. sweep[m] \in Row
      BY <1>4 DEF StartCheck, TypeInv, TypeOK
    <3>2. task'[t].pc = "probe" /\ task'[t].tries = 0 /\ task'[t].row = sweep[m]
      BY <1>1, <1>4, <2>1 DEF StartCheck, Begin
    <3>3. QED
      BY <3>1, <3>2, AttemptsKept
  <2>2. CASE u # t
    BY <1>1, <1>2, <1>4, <2>2 DEF StartCheck, Begin
  <2>3. QED
    BY <2>1, <2>2
<1>5. ASSUME NEW m \in Monitor, VisitMonitor(m) PROVE Attempts(t)'
  BY <1>1, <1>2, <1>4, <1>5
     DEF VisitMonitor, SkipUnknownType, PassPushMonitor, FailPushMonitor, Begin
<1>6. ASSUME NEW u \in Check, CheckStep(u) PROVE Attempts(t)'
  <2>1. CASE u # t
    BY <1>1, <1>2, <1>6, <2>1 DEF CheckStep, ProbeSucceeds, ProbeFails, RecordCheck,
       CompareCheck, SaveCheck, Goto, Finish
  <2>2. CASE u = t /\ (ProbeSucceeds(t) \/ ProbeFails(t))
    BY <2>2, AttemptsProbe
  <2>3. CASE u = t /\ RecordCheck(t)
    <3>1. task[t].pc = "record" /\ task'[t] = [task[t] EXCEPT !.pc = "notify"]
      BY <1>1, <2>3 DEF RecordCheck, Goto
    <3>2. QED
      BY <3>1, AttemptsKept
  <2>4. CASE u = t /\ CompareCheck(t)
    <3>1. task'[t].pc = "save"
      BY <1>1, <2>4 DEF CompareCheck
    <3>2. QED
      BY <3>1, AttemptsKept
  <2>5. CASE u = t /\ SaveCheck(t)
    <3>1. Finish(t)
      BY <2>5 DEF SaveCheck
    <3>2. task'[t].pc = "idle"
      BY <1>1, <3>1 DEF Finish
    <3>3. QED
      BY <3>2, AttemptsKept
  <2>6. QED
    BY <1>6, <2>1, <2>2, <2>3, <2>4, <2>5 DEF CheckStep
<1>7. CASE ScheduleJobs \/ OverdueStep \/ PageNext
  BY <1>1, <1>2, <1>7 DEF ScheduleJobs, OverdueStep, SaveOverdue, RecordOverdue,
     NotifyOverdue, PageNext, ExpirePage, MissCache, ReadPage, FillCache, Goto, Finish
<1>8. CASE PushNext
  BY <1>1, <1>2, <1>8 DEF PushNext, ReceiveHeartbeat, HeartbeatStep, RecordHeartbeat,
     CompareHeartbeat, SaveHeartbeat, Begin, Goto, Finish
<1>9. CASE ApiNext
  BY <1>1, <1>2, <1>9 DEF ApiNext, CreateMonitor, ReadForUpdate, DeleteMonitor, EditStep,
     SaveUpdate, InvalidateAfterEdit, Begin, Goto, Finish
<1>10. CASE Crash
  <2>1. task'[t].pc = "idle"
    BY <1>1, <1>10 DEF Crash
  <2>2. QED
    BY <2>1, AttemptsKept
<1>11. CASE UNCHANGED vars
  BY <1>2, <1>11 DEF vars
<1>12. QED
  BY <1>3, <1>5, <1>6, <1>7, <1>8, <1>9, <1>10, <1>11 DEF Next, SchedulerNext

LEMMA AttemptsHold == Spec => [](TypeInv /\ \A t \in Check : Attempts(t))
<1> DEFINE I == TypeInv /\ \A t \in Check : Attempts(t)
<1>1. Init => I
  <2> SUFFICES ASSUME Init, NEW t \in Check PROVE Attempts(t)
    BY InitTypeInv
  <2>1. task[t].pc = "idle"
    BY DEF Init, Task
  <2>2. QED
    BY <2>1 DEF Attempts
<1>2. I /\ [Next]_vars => I'
  BY TypeStep, AttemptsStep
<1>3. QED
  BY <1>1, <1>2, PTL DEF Spec

\* A check says "down" after its last attempt and never before, "up" only while
\* attempts were left, for every max_retries (scheduler.go:161-189).
THEOREM DownTakesAllRetries == Spec => []DownNeedsAllRetries
<1> DEFINE I == TypeInv /\ \A t \in Check : Attempts(t)
<1>1. I => DownNeedsAllRetries
  <2> SUFFICES ASSUME I, NEW t \in Check, task[t].pc \in {"record", "notify"}
               PROVE  LET most == IF Retries[task[t].row.cfg] >= 0
                                  THEN Retries[task[t].row.cfg] ELSE 0
                      IN  /\ task[t].status = "down" => task[t].tries = most + 1
                          /\ task[t].status = "up" => task[t].tries <= most
    BY DEF DownNeedsAllRetries
  <2>1. task[t].row.cfg \in Config
    BY AtWork DEF Task, Row
  <2>2. QED
    BY <2>1, MaxRetriesType DEF Attempts
<1>2. QED
  BY <1>1, AttemptsHold, PTL

-----------------------------------------------------------------------------
(* The end of a check *)

LEMMA StepsLeftIs ==
  ASSUME TypeInv, NEW t \in Check, Attempts(t), task[t].pc # "idle"
  PROVE  /\ task[t].pc \in {"probe", "record", "notify", "save"}
         /\ StepsLeft(t) \in Nat /\ StepsLeft(t) > 0
         /\ task[t].pc = "probe" => StepsLeft(t) >= 4
         /\ task[t].pc = "record" => StepsLeft(t) = 3
         /\ task[t].pc = "notify" => StepsLeft(t) = 2
<1>1. t \in Task /\ task[t].pc \in PC \ {"idle", "invalidate"}
  BY DEF TypeInv, TypeOK, Task, TaskState, Attempts
<1>2. task[t].tries \in Nat /\ task[t].row.cfg \in Config
  BY <1>1, AtWork DEF Row
<1>3. MaxRetries(task[t].row.cfg) \in Nat
  BY <1>2, MaxRetriesType
<1>4. CASE task[t].pc = "probe"
  <2>1. StepsLeft(t) = 4 + MaxRetries(task[t].row.cfg) - task[t].tries
    BY <1>4 DEF StepsLeft
  <2>2. task[t].tries <= MaxRetries(task[t].row.cfg)
    BY <1>4 DEF Attempts
  <2>3. QED
    BY <1>2, <1>3, <1>4, <2>1, <2>2
<1>5. CASE task[t].pc # "probe"
  BY <1>1, <1>5 DEF StepsLeft, PC
<1>6. QED
  BY <1>1, <1>4, <1>5 DEF PC

\* One more attempt leaves one attempt less, the last one leaves the verdict.
LEMMA ProbeWinds ==
  ASSUME TypeInv, NEW t \in Check, Attempts(t), ProbeSucceeds(t) \/ ProbeFails(t)
  PROVE  StepsLeft(t)' \in 0 .. StepsLeft(t) - 1
<1> DEFINE most == MaxRetries(task[t].row.cfg)
           more == task[t].tries < most
<1>1. /\ t \in Task /\ task[t] \in TaskState /\ task \in [Task -> TaskState]
      /\ task[t].pc = "probe"
  BY DEF TypeInv, TypeOK, Task, ProbeSucceeds, ProbeFails
<1>2. StepsLeft(t) \in Nat /\ StepsLeft(t) >= 4
  BY <1>1, StepsLeftIs
<1>3. CASE task'[t].pc = "record"
  <2>1. StepsLeft(t)' = 3
    BY <1>3 DEF StepsLeft
  <2>2. QED
    BY <1>2, <2>1
<1>4. CASE ProbeFails(t) /\ more
  <2>1. task'[t].pc = "probe" /\ task'[t].tries = task[t].tries + 1 /\ task'[t].row = task[t].row
    BY <1>1, <1>4 DEF ProbeFails, TaskState
  <2>2. StepsLeft(t)' = 4 + most - (task[t].tries + 1) /\ StepsLeft(t) = 4 + most - task[t].tries
    BY <1>1, <2>1 DEF StepsLeft, MaxRetries
  <2>3. task[t].tries \in Nat /\ most \in Nat
    BY <1>1, AtWork, MaxRetriesType DEF Row
  <2>4. QED
    BY <1>4, <2>2, <2>3
<1>5. CASE ProbeSucceeds(t)
  <2>1. task'[t].pc = "record"
    BY <1>1, <1>5 DEF ProbeSucceeds, TaskState
  <2>2. QED
    BY <1>3, <2>1
<1>6. CASE ProbeFails(t) /\ ~more
  <2>1. task'[t].pc = "record"
    BY <1>1, <1>6 DEF ProbeFails, TaskState
  <2>2. QED
    BY <1>3, <2>1
<1>7. QED
  BY <1>4, <1>5, <1>6

LEMMA CheckWinds ==
  ASSUME TypeInv, NEW t \in Check, Attempts(t), CheckStep(t)
  PROVE  StepsLeft(t)' \in 0 .. StepsLeft(t) - 1
<1>1. t \in Task /\ task[t] \in TaskState /\ task \in [Task -> TaskState]
  BY DEF TypeInv, TypeOK, Task
<1>2. CASE RecordCheck(t)
  <2>1. task[t].pc = "record" /\ task'[t].pc = "notify"
    BY <1>1, <1>2 DEF RecordCheck, Goto, TaskState
  <2>2. QED
    BY <2>1 DEF StepsLeft
<1>3. CASE CompareCheck(t)
  <2>1. task[t].pc = "notify" /\ task'[t].pc = "save"
    BY <1>1, <1>3 DEF CompareCheck, TaskState
  <2>2. QED
    BY <2>1 DEF StepsLeft
<1>4. CASE SaveCheck(t)
  <2>1. task[t].pc = "save" /\ task'[t].pc = "idle"
    BY <1>1, <1>4 DEF SaveCheck, Finish
  <2>2. QED
    BY <2>1 DEF StepsLeft
<1>5. QED
  BY <1>2, <1>3, <1>4, ProbeWinds DEF CheckStep

\* A check that is at work moves by its own steps only, besides growing older
\* and the crash of the process.
LEMMA WindStep ==
  ASSUME TypeInv, [Next]_vars, NEW t \in Check, Attempts(t), task[t].pc # "idle"
  PROVE  /\ StepsLeft(t) > 0
         /\ StepsLeft(t)' \in 0 .. StepsLeft(t) - 1 \/ OnlyAges(t)
<1>1. t \in Task /\ t # Loop /\ t \notin Heartbeat /\ t \notin Edit
      /\ task \in [Task -> TaskState] /\ task[t] \in TaskState
  BY TableAssumption DEF TypeInv, TypeOK, Task
<1>2. StepsLeft(t) \in Nat /\ StepsLeft(t) > 0
  BY StepsLeftIs
<1>3. task'[t] = task[t] => OnlyAges(t)
  <2>1. [task[t] EXCEPT !.row = task[t].row] = task[t]
    BY <1>1 DEF TaskState
  <2>2. QED
    BY <2>1 DEF OnlyAges
<1>4. CASE Clock
  <2>1. task'[t] = [task[t] EXCEPT !.row = Older(task[t].row)]
    BY <1>1, <1>4 DEF Clock
  <2>2. OnlyAges(t)
    <3>1. Older(task[t].row) \in {task[t].row, Older(task[t].row)}
      OBVIOUS
    <3>2. QED
      BY <2>1, <3>1, Zenon DEF OnlyAges
  <2>3. QED
    BY <1>2, <2>2
<1>5. ASSUME NEW m \in Monitor, VisitMonitor(m) PROVE task'[t] = task[t]
  BY <1>1, <1>5
     DEF VisitMonitor, StartCheck, SkipUnknownType, PassPushMonitor, FailPushMonitor, Begin
<1>6. ASSUME NEW u \in Check, u # t, CheckStep(u) PROVE task'[t] = task[t]
  BY <1>1, <1>6 DEF CheckStep, ProbeSucceeds, ProbeFails, RecordCheck, CompareCheck, SaveCheck,
     Goto, Finish
<1>7. ASSUME ScheduleJobs \/ OverdueStep \/ PageNext PROVE task'[t] = task[t]
  BY <1>1, <1>7 DEF ScheduleJobs, OverdueStep, SaveOverdue, RecordOverdue,
     NotifyOverdue, PageNext, ExpirePage, MissCache, ReadPage, FillCache, Goto, Finish
<1>8. ASSUME PushNext PROVE task'[t] = task[t]
  BY <1>1, <1>8 DEF PushNext, ReceiveHeartbeat, HeartbeatStep, RecordHeartbeat,
     CompareHeartbeat, SaveHeartbeat, Begin, Goto, Finish
<1>9. ASSUME ApiNext PROVE task'[t] = task[t]
  BY <1>1, <1>9 DEF ApiNext, CreateMonitor, ReadForUpdate, DeleteMonitor, EditStep,
     SaveUpdate, InvalidateAfterEdit, Begin, Goto, Finish
<1>10. CASE Crash
  <2>1. task'[t].pc = "idle"
    BY <1>1, <1>10 DEF Crash
  <2>2. StepsLeft(t)' = 0
    BY <2>1 DEF StepsLeft
  <2>3. QED
    BY <1>2, <2>2
<1>11. CASE UNCHANGED vars
  BY <1>3, <1>2, <1>11 DEF vars
<1>12. CASE \E u \in Check : CheckStep(u)
  BY <1>2, <1>3, <1>6, <1>12, CheckWinds
<1>13. QED
  BY <1>2, <1>3, <1>4, <1>5, <1>7, <1>8, <1>9, <1>10, <1>11, <1>12 DEF Next, SchedulerNext

\* Every check has at most max_retries + 4 steps in it, whatever the value of
\* max_retries, and nothing adds to them: with a fair scheduler it ends
\* (scheduler.go:149-237).
THEOREM ChecksAlwaysWindDown == Spec => ChecksWindDown
<1> DEFINE I == TypeInv /\ \A t \in Check : Attempts(t)
<1>1. I /\ [Next]_vars =>
        [\A t \in Check : task[t].pc # "idle" =>
           /\ StepsLeft(t) > 0
           /\ StepsLeft(t)' \in 0 .. StepsLeft(t) - 1 \/ OnlyAges(t)]_vars
  BY WindStep
<1>2. QED
  BY <1>1, AttemptsHold, PTL DEF Spec, ChecksWindDown

-----------------------------------------------------------------------------
(* The cached page *)

\* A step that takes nothing of m from the table to the page or back.
LEMMA PageKept ==
  ASSUME TypeInv, NEW m \in OnPage, PageMatches(m), ShownOf(m)' = ShownOf(m),
         cache' = cache \/ cache' = NoPage,
         \A p \in Page : page'[p] \in PageView => page'[p] = page[p] /\ ~Held(m)',
         cache' # NoPage => \A t \in Task :
           task[t].id = m /\ Dropping(t) => task'[t].id = m /\ Dropping(t)',
         cache' # NoPage => \A t \in Check :
           task'[t].id = m /\ task'[t].pc = "save"
             => task'[t].row.status = monitors'[m].status
  PROVE  PageMatches(m)'
<1>1. ASSUME NEW p \in Page, page'[p] \in PageView
      PROVE  ~Held(m)' /\ page'[p][m] = ShownOf(m)'
  BY <1>1 DEF PageMatches
<1>2. ASSUME cache' # NoPage, \A t \in Task : task'[t].id = m => ~Dropping(t)'
      PROVE  cache'[m] = ShownOf(m)'
  BY <1>2 DEF PageMatches
<1>3. QED
  BY <1>1, <1>2 DEF PageMatches

\* While a page is being built, nobody handles m.
LEMMA HeldNoView ==
  ASSUME NEW m, PageMatches(m), Held(m)
  PROVE  \A p \in Page : page[p] \notin PageView
BY DEF PageMatches

\* One goroutine moves and the row of m stays.
LEMMA PageTask ==
  ASSUME TypeInv, NEW m \in OnPage, PageMatches(m), NEW t \in Task,
         monitors'[m] = monitors[m], UNCHANGED page, cache' = cache \/ cache' = NoPage,
         \A u \in Task \ {t} : task'[u] = task[u],
         sweep'[m] = sweep[m] \/ sweep'[m] = NoRow,
         task'[t].id = m => Held(m) \/ \A p \in Page : page[p] \notin PageView,
         cache' # NoPage /\ task[t].id = m => ~Dropping(t),
         cache' # NoPage /\ t \in Check /\ task'[t].id = m /\ task'[t].pc = "save"
           => task'[t].row.status = monitors[m].status
  PROVE  PageMatches(m)'
<1>1. ShownOf(m)' = ShownOf(m)
  BY DEF ShownOf, Live
<1>2. ASSUME NEW p \in Page, page'[p] \in PageView PROVE page'[p] = page[p] /\ ~Held(m)'
  <2>1. page'[p] = page[p] /\ page[p] \in PageView
    BY <1>2
  <2>2. ~Held(m)
    BY <2>1, HeldNoView
  <2>3. task'[t].id # m
    BY <2>1, <2>2
  <2>4. QED
    BY <2>1, <2>2, <2>3 DEF Held
<1>3. ASSUME cache' # NoPage, NEW u \in Task, task[u].id = m, Dropping(u)
      PROVE  task'[u].id = m /\ Dropping(u)'
  BY <1>3 DEF Dropping
<1>4. ASSUME cache' # NoPage, NEW u \in Check, task'[u].id = m, task'[u].pc = "save"
      PROVE  task'[u].row.status = monitors'[m].status
  <2>1. cache # NoPage /\ u \in Task
    BY <1>4 DEF Task
  <2>2. QED
    BY <1>4, <2>1 DEF PageMatches
<1>5. QED
  BY <1>1, <1>2, <1>3, <1>4, PageKept

\* The same, for a goroutine at another monitor.
LEMMA PageElsewhere ==
  ASSUME TypeInv, NEW m \in OnPage, PageMatches(m), NEW t \in Task,
         task[t].id # m, task'[t].id # m,
         monitors'[m] = monitors[m], UNCHANGED page, cache' = cache \/ cache' = NoPage,
         \A u \in Task \ {t} : task'[u] = task[u],
         sweep'[m] = sweep[m] \/ sweep'[m] = NoRow
  PROVE  PageMatches(m)'
BY PageTask

\* The only holder of m ends or goes on: nobody else is there to have a say.
LEMMA PageSolo ==
  ASSUME TypeInv, NEW m \in OnPage, PageMatches(m), NEW t \in Task, task[t].id = m,
         Coherent(m), UNCHANGED page, \A u \in Task \ {t} : task'[u] = task[u],
         t \in Check => task'[t].pc # "save" \/ task'[t].id # m,
         cache' = NoPage \/ (task'[t].id = m /\ Dropping(t)')
           \/ (cache' = cache /\ cache[m] = ShownOf(m)')
  PROVE  PageMatches(m)'
<1>1. m \in Monitor
  BY TableAssumption
<1>2. \A u \in Task \ {t} : task'[u].id # m
  BY <1>1, Solo
<1>3. \A p \in Page : page'[p] \notin PageView
  BY HeldNoView DEF Held
<1>4. cache' # NoPage => \A u \in Check :
        task'[u].id = m /\ task'[u].pc = "save" => task'[u].row.status = monitors'[m].status
  BY <1>2 DEF Task
<1>5. ASSUME cache' # NoPage, \A u \in Task : task'[u].id = m => ~Dropping(u)'
      PROVE  cache'[m] = ShownOf(m)'
  BY <1>5
<1>6. QED
  BY <1>3, <1>4, <1>5 DEF PageMatches

LEMMA PageClock ==
  ASSUME TypeInv, NEW m \in OnPage, PageMatches(m), Clock PROVE PageMatches(m)'
<1>1. m \in Monitor /\ NoRow \notin Row
  BY TableAssumption
<1>2. /\ \A t \in Task : /\ task'[t].id = task[t].id /\ task'[t].pc = task[t].pc
                         /\ task'[t].row = Older(task[t].row)
      /\ monitors'[m] = Older(monitors[m]) /\ sweep'[m] = Older(sweep[m])
      /\ UNCHANGED <<cache, page>>
  BY <1>1 DEF Clock, pages, TypeInv, TypeOK, TaskState
<1>3. ShownOf(m)' = ShownOf(m) /\ (monitors[m] \in Row => monitors'[m].status = monitors[m].status)
  <2>1. CASE monitors[m] = NoRow
    BY <1>1, <1>2, <2>1 DEF ShownOf, Live, Older
  <2>2. CASE monitors[m] \in Row
    BY <1>1, <1>2, <2>2, OlderFields DEF ShownOf, Live
  <2>3. QED
    BY <1>1, <2>1, <2>2 DEF TypeInv, TypeOK
<1>4. Held(m)' => Held(m)
  <2>1. sweep[m] = NoRow => sweep'[m] = NoRow
    BY <1>2 DEF Older
  <2>2. QED
    BY <1>2, <2>1 DEF Held
<1>5. ASSUME NEW t \in Check, task'[t].id = m, task'[t].pc = "save", cache' # NoPage
      PROVE  task'[t].row.status = monitors'[m].status
  <2>1. t \in Task /\ task[t].id = m /\ task[t].pc = "save"
    BY <1>2, <1>5 DEF Task
  <2>2. task[t].row \in Row /\ task[t].row.status = monitors[m].status
    BY <1>2, <1>5, <2>1, AtWork DEF PageMatches
  <2>3. task'[t].row.status = task[t].row.status
    BY <1>2, <2>1, <2>2, OlderFields
  <2>4. monitors'[m].status = monitors[m].status
    BY <1>1, <1>2, <1>3 DEF Older, TypeInv, TypeOK
  <2>5. QED
    BY <2>2, <2>3, <2>4
<1>6. \A p \in Page : page'[p] \in PageView => page'[p] = page[p] /\ ~Held(m)'
  BY <1>2, <1>4 DEF PageMatches
<1>7. \A t \in Task : task[t].id = m /\ Dropping(t) => task'[t].id = m /\ Dropping(t)'
  BY <1>2 DEF Dropping
<1>8. QED
  BY <1>2, <1>3, <1>5, <1>6, <1>7, PageKept

\* Whoever takes m does so while no page is being built.
LEMMA Fresh ==
  ASSUME NEW ms, NEW m \in ms, Acquire(ms), m \notin blurred'
  PROVE  \A p \in Page : page[p] \notin PageView
BY DEF Acquire

LEMMA PageSchedule ==
  ASSUME TypeInv, NEW m \in OnPage, PageMatches(m), m \notin blurred', ScheduleJobs
  PROVE  PageMatches(m)'
<1>1. UNCHANGED <<monitors, task, cache, page>>
  BY DEF ScheduleJobs, pages
<1>2. ASSUME NEW p \in Page, page[p] \in PageView PROVE ~Held(m)'
  <2>1. sweep'[m] # NoRow => sweep' = sweep
    BY <1>2, TableAssumption, Fresh DEF ScheduleJobs
  <2>2. QED
    BY <1>1, <1>2, <2>1 DEF Held, PageMatches
<1>3. ShownOf(m)' = ShownOf(m)
  BY <1>1 DEF ShownOf, Live
<1>4. \A t \in Task : Dropping(t)' = Dropping(t)
  BY <1>1 DEF Dropping
<1>5. cache' # NoPage => \A t \in Check :
        task'[t].id = m /\ task'[t].pc = "save" => task'[t].row.status = monitors'[m].status
  BY <1>1 DEF PageMatches
<1>6. QED
  BY <1>1, <1>2, <1>3, <1>4, <1>5, PageKept

LEMMA PageVisit ==
  ASSUME TypeInv, NEW m \in OnPage, PageMatches(m), NEW k \in Monitor, VisitMonitor(k)
  PROVE  PageMatches(m)'
<1>1. /\ m \in Monitor /\ Loop \in Task /\ Check \subseteq Task /\ Loop \notin Check
      /\ Loop \notin Edit /\ Check \cap Edit = {}
  BY TableAssumption DEF Task
<1>2. /\ UNCHANGED <<monitors, cache, page>> /\ sweep[k] # NoRow
      /\ sweep'[m] = sweep[m] \/ sweep'[m] = NoRow
  BY <1>1 DEF VisitMonitor, SkipUnknownType, PassPushMonitor, FailPushMonitor, StartCheck,
     pages, TypeInv, TypeOK
<1>3. CASE SkipUnknownType(k) \/ PassPushMonitor(k)
  <2>1. task' = task
    BY <1>3 DEF SkipUnknownType, PassPushMonitor
  <2>2. task[Loop].pc = "idle"
    BY <1>3 DEF SkipUnknownType, PassPushMonitor
  <2>3. task[Loop].id # m
    BY <1>1, <2>2, TableAssumption DEF TypeInv, WorkingCopy
  <2>4. QED
    BY <1>1, <1>2, <2>1, <2>3, PageElsewhere
<1>4. CASE FailPushMonitor(k)
  <2>1. /\ task'[Loop].pc = "save" /\ task'[Loop].id = k /\ task[Loop].id = NoMonitor
        /\ \A u \in Task \ {Loop} : task'[u] = task[u]
    BY <1>4, FailPushFrame
  <2>2. task[Loop].id # m
    BY <1>1, <2>1, TableAssumption
  <2>3. task'[Loop].id = m => Held(m)
    BY <1>2, <2>1 DEF Held
  <2>4. QED
    BY <1>1, <1>2, <2>1, <2>2, <2>3, PageTask
<1>5. ASSUME NEW t \in Check, StartCheck(t, k) PROVE PageMatches(m)'
  <2>1. /\ task'[t].pc = "probe" /\ task'[t].id = k /\ task[t].id = NoMonitor
        /\ \A u \in Task \ {t} : task'[u] = task[u]
    BY <1>5, StartCheckFrame
  <2>2. task[t].id # m
    BY <1>1, <2>1, TableAssumption
  <2>3. task'[t].id = m => Held(m)
    BY <1>2, <2>1 DEF Held
  <2>4. QED
    BY <1>1, <1>2, <2>1, <2>2, <2>3, PageTask
<1>6. QED
  BY <1>3, <1>4, <1>5 DEF VisitMonitor

LEMMA PageProbe ==
  ASSUME TypeInv, NEW m \in OnPage, PageMatches(m), NEW t \in Check,
         ProbeSucceeds(t) \/ ProbeFails(t) \/ RecordCheck(t)
  PROVE  PageMatches(m)'
<1>1. t \in Task /\ task \in [Task -> TaskState] /\ task[t] \in TaskState
      /\ t # Loop /\ t \notin Edit
  BY TableAssumption DEF TypeInv, TypeOK, Task
<1>2. UNCHANGED <<monitors, sweep, cache, page>>
  BY DEF ProbeSucceeds, ProbeFails, RecordCheck, pages
<1>3. /\ task'[t].id = task[t].id /\ task'[t].pc # "save"
      /\ \A u \in Task \ {t} : task'[u] = task[u]
  <2>1. CASE ProbeSucceeds(t)
    BY <1>1, <2>1 DEF ProbeSucceeds, TaskState
  <2>2. CASE ProbeFails(t)
    BY <1>1, <2>2 DEF ProbeFails, TaskState
  <2>3. CASE RecordCheck(t)
    BY <1>1, <2>3 DEF RecordCheck, Goto, TaskState
  <2>4. QED
    BY <2>1, <2>2, <2>3
<1>4. task'[t].id = m => Held(m)
  BY <1>1, <1>3 DEF Held
<1>5. ~Dropping(t)
  BY <1>1 DEF Dropping
<1>6. QED
  BY <1>1, <1>2, <1>3, <1>4, <1>5, PageTask

\* A check drops the page before it writes, unless it changes nothing there.
LEMMA PageCompare ==
  ASSUME TypeInv, NEW m \in OnPage, PageMatches(m), Coherent(m), m \notin blurred',
         NEW t \in Check, CompareCheck(t)
  PROVE  PageMatches(m)'
<1>1. t \in Task /\ task[t].pc = "notify" /\ t # Loop /\ t \notin Edit
      /\ task \in [Task -> TaskState] /\ task[t] \in TaskState
  BY TableAssumption DEF TypeInv, TypeOK, Task, CompareCheck
<1>2. task[t].row \in Row /\ task[t].status \in Status
  BY <1>1, AtWork
<1>3. UNCHANGED <<monitors, sweep, page>>
  BY DEF CompareCheck
<1>4. /\ task'[t].id = task[t].id /\ task'[t].row = Stamp(task[t].row, task[t].status)
      /\ \A u \in Task \ {t} : task'[u] = task[u]
  BY <1>1 DEF CompareCheck, TaskState
<1>5. task'[t].row.status = task[t].status
  BY <1>2, <1>4 DEF Stamp, Row
<1>6. cache' = cache \/ cache' = NoPage
  BY DEF CompareCheck, InvalidatePage
<1>7. ASSUME task[t].id = m, cache' # NoPage
      PROVE  task'[t].row.status = monitors[m].status
  <2>1. task[t].row.status = task[t].status
    BY <1>7 DEF CompareCheck, InvalidatePage
  <2>2. task[t].row = monitors[m]
    BY <1>1, <1>7 DEF Coherent, ObserverPhase
  <2>3. QED
    BY <1>5, <2>1, <2>2
<1>8. ~Dropping(t)
  BY <1>1 DEF Dropping
<1>9. task'[t].id = m => Held(m)
  BY <1>1, <1>4 DEF Held
<1>10. QED
  BY <1>1, <1>3, <1>4, <1>6, <1>7, <1>8, <1>9, PageTask

\* ... so the write changes nothing of what the page shows.
LEMMA PageSaveCheck ==
  ASSUME TypeInv, NEW m \in OnPage, PageMatches(m), Coherent(m), m \notin disturbed',
         NEW t \in Check, SaveCheck(t)
  PROVE  PageMatches(m)'
<1>1. /\ t \in Task /\ task[t].pc = "save" /\ t # Loop /\ t \notin Edit
      /\ m \in Monitor /\ NoMonitor # m
  BY TableAssumption DEF Task, SaveCheck
<1>2. task[t].row \in Row
  BY <1>1, AtWork
<1>3. UNCHANGED <<sweep, page, cache>> /\ SaveMonitor(task[t].id, task[t].row) /\ Finish(t)
  BY DEF SaveCheck, pages
<1>4. task'[t].id = NoMonitor /\ \A u \in Task \ {t} : task'[u] = task[u]
  BY <1>1, <1>3, FinishFrame
<1>5. CASE task[t].id # m
  <2>1. monitors'[m] = monitors[m]
    BY <1>1, <1>3, <1>5 DEF SaveMonitor, TypeInv, TypeOK
  <2>2. QED
    BY <1>1, <1>3, <1>4, <1>5, <2>1, PageElsewhere
<1>6. CASE task[t].id = m
  <2>1. monitors'[m] = Saved(m, task[t].row)
    BY <1>1, <1>3, <1>6 DEF SaveMonitor, TypeInv, TypeOK
  <2>2. ObserverPhase(t, m)
    BY <1>6 DEF Coherent
  <2>3. /\ Live(m) /\ task[t].row.enabled = monitors[m].enabled
        /\ task[t].row.cfg = monitors[m].cfg
    BY <1>1, <2>2 DEF ObserverPhase
  <2>4. Saved(m, task[t].row) \in Row /\ NoRow \notin Row
    BY <1>2, SavedRow, TableAssumption
  <2>5. task[t].row.status = monitors[m].status => ShownOf(m)' = ShownOf(m)
    BY <1>2, <2>1, <2>3, <2>4, SavedFields DEF ShownOf, Live
  <2>6. ASSUME cache # NoPage PROVE cache[m] = ShownOf(m)'
    <3>1. \A u \in Task : task[u].id = m => ~Dropping(u)
      BY <1>1, <1>6, Solo DEF Dropping
    <3>2. QED
      BY <1>1, <1>6, <2>5, <2>6, <3>1 DEF PageMatches
  <2>7. QED
    BY <1>1, <1>3, <1>4, <1>6, <2>6, PageSolo
<1>7. QED
  BY <1>5, <1>6

\* A heartbeat is of a monitor with a token.
LEMMA PageHeartbeat ==
  ASSUME TypeInv, NEW m \in OnPage, m \notin Token, PageMatches(m), NEW t \in Heartbeat,
         task[t].id \in Token \cup {NoMonitor},
         HeartbeatStep(t) \/ \E k \in Monitor, given \in HeartbeatStatus :
                               ReceiveHeartbeat(t, k, given)
  PROVE  PageMatches(m)' /\ task'[t].id \in Token \cup {NoMonitor}
<1>1. /\ t \in Task /\ task \in [Task -> TaskState] /\ task[t] \in TaskState
      /\ m \in Monitor /\ NoMonitor # m
  BY TableAssumption DEF TypeInv, TypeOK, Task
<1>2. task[t].id # m
  BY <1>1
<1>3. CASE HeartbeatStep(t)
  <2>1. /\ task'[t].id \in {task[t].id, NoMonitor}
        /\ \A u \in Task \ {t} : task'[u] = task[u]
    <3>1. CASE Goto(t, "notify")
      BY <1>1, <3>1, GotoFrame DEF PC
    <3>2. CASE CompareHeartbeat(t)
      BY <1>1, <3>2 DEF CompareHeartbeat, TaskState
    <3>3. CASE Finish(t)
      BY <1>1, <3>3, FinishFrame
    <3>4. QED
      BY <1>3, <3>1, <3>2, <3>3 DEF HeartbeatStep, RecordHeartbeat, SaveHeartbeat
  <2>2. UNCHANGED <<sweep, cache, page>>
    BY <1>3 DEF HeartbeatStep, RecordHeartbeat, CompareHeartbeat, SaveHeartbeat, pages
  <2>3. monitors'[m] = monitors[m]
    BY <1>1, <1>2, <1>3 DEF HeartbeatStep, RecordHeartbeat, CompareHeartbeat, SaveHeartbeat,
       SaveMonitor, TypeInv, TypeOK
  <2>4. QED
    BY <1>1, <1>2, <2>1, <2>2, <2>3, PageElsewhere
<1>4. ASSUME NEW k \in Monitor, NEW given \in HeartbeatStatus, ReceiveHeartbeat(t, k, given)
      PROVE  PageMatches(m)' /\ task'[t].id \in Token \cup {NoMonitor}
  <2>1. k \in Token /\ task'[t].id = k /\ \A u \in Task \ {t} : task'[u] = task[u]
    BY <1>1, <1>4 DEF ReceiveHeartbeat, Begin
  <2>2. UNCHANGED <<monitors, sweep, cache, page>>
    BY <1>4 DEF ReceiveHeartbeat, pages
  <2>3. QED
    BY <1>1, <1>2, <2>1, <2>2, PageElsewhere
<1>5. QED
  BY <1>3, <1>4

\* The verdict of the loop: the row changes first and the page is dropped last.
LEMMA PageOverdue ==
  ASSUME TypeInv, NEW m \in OnPage, PageMatches(m), Coherent(m), m \notin disturbed',
         m \notin blurred', OverdueStep
  PROVE  PageMatches(m)'
<1>1. /\ Loop \in Task /\ Loop \notin Check /\ m \in Monitor /\ NoMonitor # m
      /\ task \in [Task -> TaskState] /\ task[Loop] \in TaskState
  BY TableAssumption DEF Task, TypeInv, TypeOK
<1>2. CASE SaveOverdue \/ RecordOverdue
  <2>1. /\ task'[Loop].id = task[Loop].id /\ task'[Loop].pc \in {"record", "notify"}
        /\ \A u \in Task \ {Loop} : task'[u] = task[u]
    BY <1>1, <1>2 DEF SaveOverdue, RecordOverdue, Goto, TaskState
  <2>2. UNCHANGED <<sweep, cache, page>>
    BY <1>2 DEF SaveOverdue, RecordOverdue, pages
  <2>3. CASE task[Loop].id # m
    <3>1. monitors'[m] = monitors[m]
      BY <1>1, <1>2, <2>3 DEF SaveOverdue, RecordOverdue, SaveMonitor, TypeInv, TypeOK
    <3>2. QED
      BY <1>1, <2>1, <2>2, <2>3, <3>1, PageElsewhere
  <2>4. CASE task[Loop].id = m
    <3>1. task'[Loop].id = m /\ Dropping(Loop)'
      BY <2>1, <2>4 DEF Dropping
    <3>2. QED
      BY <1>1, <2>1, <2>2, <2>4, <3>1, PageSolo
  <2>5. QED
    BY <2>3, <2>4
<1>3. CASE NotifyOverdue
  <2>1. UNCHANGED <<monitors, sweep, page>> /\ Finish(Loop) /\ InvalidatePage(task[Loop].id)
    BY <1>3 DEF NotifyOverdue
  <2>2. task'[Loop].id = NoMonitor /\ \A u \in Task \ {Loop} : task'[u] = task[u]
    BY <1>1, <2>1, FinishFrame
  <2>3. cache' = NoPage \/ (cache' = cache /\ task[Loop].id # m)
    BY <2>1 DEF InvalidatePage
  <2>4. QED
    BY <1>1, <2>1, <2>2, <2>3, PageTask
<1>4. QED
  BY <1>2, <1>3 DEF OverdueStep

\* Create and delete write at once and hold the monitor until the drop.
LEMMA PageWrite ==
  ASSUME TypeInv, NEW m \in OnPage, PageMatches(m), m \notin disturbed', m \notin blurred',
         NEW t \in Edit, NEW k \in Monitor,
         (\E c \in Config : CreateMonitor(t, k, c)) \/ DeleteMonitor(t, k)
  PROVE  PageMatches(m)'
<1>1. /\ t \in Task /\ t # Loop /\ t \notin Check /\ m \in Monitor /\ NoMonitor # m
      /\ task \in [Task -> TaskState]
  BY TableAssumption DEF TypeInv, TypeOK, Task
<1>2. /\ UNCHANGED <<sweep, cache, page>> /\ Acquire({k})
      /\ task[t].pc = "idle" /\ task'[t].id = k /\ task'[t].pc = "invalidate"
      /\ \A u \in Task \ {t} : task'[u] = task[u]
  <2>1. CASE DeleteMonitor(t, k)
    BY <1>1, <2>1 DEF DeleteMonitor, Begin, pages
  <2>2. ASSUME NEW c \in Config, CreateMonitor(t, k, c)
        PROVE  /\ UNCHANGED <<sweep, cache, page>> /\ Acquire({k})
               /\ Begin(t, "invalidate", k, NoRow, "")
    BY <2>2 DEF CreateMonitor, pages
  <2>3. CASE \E c \in Config : CreateMonitor(t, k, c)
    <3>1. /\ UNCHANGED <<sweep, cache, page>> /\ Acquire({k})
          /\ Begin(t, "invalidate", k, NoRow, "")
      BY <2>2, <2>3
    <3>2. QED
      BY <1>1, <3>1 DEF Begin
  <2>4. QED
    BY <2>1, <2>3
<1>3. task[t].id # m
  BY <1>1, <1>2 DEF TypeInv, WorkingCopy
<1>4. CASE k # m
  <2>1. monitors'[m] = monitors[m]
    BY <1>1, <1>4 DEF CreateMonitor, DeleteMonitor, TypeInv, TypeOK
  <2>2. QED
    BY <1>1, <1>2, <1>3, <1>4, <2>1, PageElsewhere
<1>5. CASE k = m
  <2>1. ~Held(m) /\ \A p \in Page : page'[p] \notin PageView
    BY <1>2, <1>5, Fresh DEF Acquire
  <2>2. \A u \in Check : task'[u].id # m
    BY <1>1, <1>2, <2>1 DEF Held, Task
  <2>3. task'[t].id = m /\ Dropping(t)'
    BY <1>2, <1>5 DEF Dropping
  <2>4. QED
    BY <1>1, <2>1, <2>2, <2>3 DEF PageMatches
<1>6. QED
  BY <1>4, <1>5

LEMMA PageRead ==
  ASSUME TypeInv, NEW m \in OnPage, PageMatches(m), m \notin blurred',
         NEW t \in Edit, NEW k \in Monitor, NEW c \in Config, NEW on \in BOOLEAN,
         ReadForUpdate(t, k, c, on)
  PROVE  PageMatches(m)'
<1>1. /\ t \in Task /\ t # Loop /\ t \notin Check /\ m \in Monitor /\ NoMonitor # m
      /\ task \in [Task -> TaskState]
  BY TableAssumption DEF TypeInv, TypeOK, Task
<1>2. /\ UNCHANGED <<monitors, sweep, cache, page>> /\ Acquire({k})
      /\ task[t].pc = "idle" /\ task'[t].id = k
      /\ \A u \in Task \ {t} : task'[u] = task[u]
  BY <1>1 DEF ReadForUpdate, Begin, pages
<1>3. task[t].id # m
  BY <1>1, <1>2 DEF TypeInv, WorkingCopy
<1>4. task'[t].id = m => \A p \in Page : page[p] \notin PageView
  BY <1>2, Fresh
<1>5. QED
  BY <1>1, <1>2, <1>3, <1>4, PageTask

LEMMA PageEdit ==
  ASSUME TypeInv, NEW m \in OnPage, PageMatches(m), Coherent(m), m \notin disturbed',
         m \notin blurred', NEW t \in Edit, EditStep(t)
  PROVE  PageMatches(m)'
<1>1. /\ t \in Task /\ t # Loop /\ t \notin Check /\ m \in Monitor /\ NoMonitor # m
      /\ task \in [Task -> TaskState] /\ task[t] \in TaskState
  BY TableAssumption DEF TypeInv, TypeOK, Task
<1>2. CASE SaveUpdate(t)
  <2>1. UNCHANGED <<sweep, cache, page>> /\ task[t].pc = "save"
    BY <1>2 DEF SaveUpdate, pages
  <2>2. CASE task[t].id # m
    <3>1. monitors'[m] = monitors[m]
      BY <1>1, <1>2, <2>2 DEF SaveUpdate, TypeInv, TypeOK
    <3>2. task'[t].id # m /\ \A u \in Task \ {t} : task'[u] = task[u]
      <4>1. CASE Goto(t, "invalidate")
        BY <1>1, <2>2, <4>1, GotoFrame DEF PC
      <4>2. CASE Finish(t)
        BY <1>1, <4>2, FinishFrame
      <4>3. QED
        BY <1>2, <4>1, <4>2 DEF SaveUpdate
    <3>3. QED
      BY <1>1, <2>1, <2>2, <3>1, <3>2, PageElsewhere
  <2>3. CASE task[t].id = m
    <3>1. Goto(t, "invalidate")
      BY <1>2, <2>3 DEF SaveUpdate
    <3>2. /\ task'[t].id = m /\ task'[t].pc = "invalidate"
          /\ \A u \in Task \ {t} : task'[u] = task[u]
      BY <1>1, <2>3, <3>1 DEF Goto, TaskState
    <3>3. Dropping(t)'
      BY <3>2 DEF Dropping
    <3>4. QED
      BY <1>1, <2>1, <2>3, <3>2, <3>3, PageSolo
  <2>4. QED
    BY <2>2, <2>3
<1>3. CASE InvalidateAfterEdit(t)
  <2>1. UNCHANGED <<monitors, sweep, page>> /\ Finish(t) /\ InvalidatePage(task[t].id)
    BY <1>3 DEF InvalidateAfterEdit
  <2>2. task'[t].id = NoMonitor /\ \A u \in Task \ {t} : task'[u] = task[u]
    BY <1>1, <2>1, FinishFrame
  <2>3. cache' = NoPage \/ (cache' = cache /\ task[t].id # m)
    BY <2>1 DEF InvalidatePage
  <2>4. QED
    BY <1>1, <2>1, <2>2, <2>3, PageTask
<1>4. QED
  BY <1>2, <1>3 DEF EditStep

\* What is cached was read while nobody handled m, and nobody has begun since.
LEMMA PageRoute ==
  ASSUME TypeInv, NEW m \in OnPage, PageMatches(m), m \notin blurred', PageNext
  PROVE  PageMatches(m)'
<1>1. UNCHANGED <<monitors, sweep, task>>
  BY DEF PageNext, ExpirePage, MissCache, ReadPage, FillCache
<1>2. /\ Held(m)' = Held(m) /\ ShownOf(m)' = ShownOf(m)
      /\ \A t \in Task : Dropping(t)' = Dropping(t)
  BY <1>1 DEF Held, ShownOf, Live, Dropping
<1>3. NoPage \notin PageView /\ Missed \notin PageView
  BY TableAssumption
<1>4. ASSUME cache' = cache \/ cache' = NoPage,
             \A p \in Page : page'[p] \in PageView =>
               \/ page'[p] = page[p]
               \/ ~Held(m) /\ page'[p][m] = ShownOf(m)
      PROVE  PageMatches(m)'
  <2>1. \A p \in Page : page'[p] \in PageView => ~Held(m)' /\ page'[p][m] = ShownOf(m)'
    BY <1>2, <1>4 DEF PageMatches
  <2>2. cache' # NoPage => cache' = cache /\ cache # NoPage
    BY <1>4
  <2>3. QED
    BY <1>1, <1>2, <2>1, <2>2 DEF PageMatches
<1>5. CASE ExpirePage
  BY <1>4, <1>5 DEF ExpirePage
<1>6. ASSUME NEW p \in Page, MissCache(p) PROVE PageMatches(m)'
  BY <1>3, <1>4, <1>6 DEF MissCache, TypeInv, TypeOK
<1>7. ASSUME NEW p \in Page, ReadPage(p) PROVE PageMatches(m)'
  <2>1. PICK listed : /\ page' = [page EXCEPT ![p] = View(listed)]
                      /\ m \in listed /\ ~Held(m) /\ cache' = cache
    BY <1>7 DEF ReadPage
  <2>2. View(listed)[m] = ShownOf(m)
    BY <2>1, TableAssumption DEF View
  <2>3. QED
    BY <1>4, <2>1, <2>2 DEF TypeInv, TypeOK
<1>8. ASSUME NEW p \in Page, FillCache(p) PROVE PageMatches(m)'
  <2>1. /\ page[p] \in PageView /\ page' = [page EXCEPT ![p] = NoPage]
        /\ cache' = page[p] \/ cache' = cache
    BY <1>8 DEF FillCache
  <2>2. ~Held(m) /\ page[p][m] = ShownOf(m)
    BY <2>1 DEF PageMatches
  <2>3. \A q \in Page : page'[q] \in PageView => page'[q] = page[q]
    BY <1>3, <2>1 DEF TypeInv, TypeOK
  <2>4. CASE cache' = cache
    BY <1>4, <2>3, <2>4
  <2>5. CASE cache' = page[p]
    <3>1. \A t \in Check : task'[t].id # m
      BY <1>1, <2>2 DEF Held, Task
    <3>2. QED
      BY <1>2, <2>2, <2>3, <2>5, <3>1 DEF PageMatches
  <2>6. QED
    BY <2>1, <2>4, <2>5
<1>9. QED
  BY <1>5, <1>6, <1>7, <1>8 DEF PageNext

LEMMA PageCrash ==
  ASSUME TypeInv, NEW m \in OnPage, PageMatches(m), m \notin disturbed', Crash
  PROVE  PageMatches(m)'
<1>1. m \in Monitor /\ NoMonitor # m /\ NoPage \notin PageView
  BY TableAssumption
<1>2. ~Held(m) /\ UNCHANGED <<monitors, cache>> /\ \A p \in Page : page'[p] = NoPage
  BY <1>1 DEF Crash
<1>3. \A t \in Task : task'[t].id = NoMonitor
  BY DEF Crash
<1>4. ShownOf(m)' = ShownOf(m)
  BY <1>2 DEF ShownOf, Live
<1>5. \A t \in Task : task[t].id # m
  BY <1>2 DEF Held
<1>6. \A t \in Check : task'[t].id # m
  BY <1>1, <1>3 DEF Task
<1>7. QED
  BY <1>1, <1>2, <1>4, <1>5, <1>6, PageKept

-----------------------------------------------------------------------------
(* The invariant of the page is inductive *)

\* Once blurred, always blurred.
LEMMA BlurredGrows == TypeInv /\ [Next]_vars => blurred \subseteq blurred'
<1> SUFFICES ASSUME TypeInv, [Next]_vars PROVE blurred \subseteq blurred'
  OBVIOUS
<1> USE DEF alerts, pages, ghosts, Acquire, InvalidatePage
<1>1. CASE SchedulerNext
  BY <1>1 DEF SchedulerNext, Clock, ScheduleJobs, VisitMonitor, SkipUnknownType,
     PassPushMonitor, FailPushMonitor, StartCheck, CheckStep, ProbeSucceeds, ProbeFails,
     RecordCheck, CompareCheck, SaveCheck, OverdueStep, SaveOverdue, RecordOverdue,
     NotifyOverdue
<1>2. CASE PushNext
  BY <1>2 DEF PushNext, ReceiveHeartbeat, HeartbeatStep, RecordHeartbeat,
     CompareHeartbeat, SaveHeartbeat
<1>3. CASE ApiNext
  BY <1>3 DEF ApiNext, CreateMonitor, ReadForUpdate, DeleteMonitor, EditStep, SaveUpdate,
     InvalidateAfterEdit
<1>4. CASE PageNext
  BY <1>4 DEF PageNext, ExpirePage, MissCache, ReadPage, FillCache
<1>5. CASE Crash \/ UNCHANGED vars
  BY <1>5 DEF Crash, vars
<1>6. QED
  BY <1>1, <1>2, <1>3, <1>4, <1>5 DEF Next

\* A heartbeat stays with the monitor whose token it brought.
LEMMA TokenStep ==
  ASSUME TypeInv, [Next]_vars, NEW t \in Heartbeat, task[t].id \in Token \cup {NoMonitor}
  PROVE  task'[t].id \in Token \cup {NoMonitor}
<1>1. t \in Task /\ t # Loop /\ t \notin Check /\ t \notin Edit
      /\ task \in [Task -> TaskState] /\ task[t] \in TaskState
  BY TableAssumption DEF TypeInv, TypeOK, Task
<1>2. CASE Clock \/ Crash \/ UNCHANGED vars
  <2>1. CASE Clock
    BY <1>1, <2>1 DEF Clock, TaskState
  <2>2. CASE Crash
    BY <1>1, <2>2 DEF Crash
  <2>3. QED
    BY <1>2, <2>1, <2>2 DEF vars
<1>3. ASSUME NEW u \in Heartbeat, NEW k \in Monitor, NEW given \in HeartbeatStatus,
             ReceiveHeartbeat(u, k, given)
      PROVE  task'[t].id \in Token \cup {NoMonitor}
  BY <1>1, <1>3 DEF ReceiveHeartbeat, Begin, Task
<1>4. ASSUME NEW u \in Heartbeat, HeartbeatStep(u)
      PROVE  task'[t].id \in Token \cup {NoMonitor}
  <2>1. u \in Task
    BY DEF Task
  <2>2. CASE Goto(u, "notify")
    BY <1>1, <2>1, <2>2, GotoFrame DEF PC
  <2>3. CASE CompareHeartbeat(u)
    BY <1>1, <2>1, <2>3 DEF CompareHeartbeat, TaskState
  <2>4. CASE Finish(u)
    BY <1>1, <2>1, <2>4, FinishFrame
  <2>5. QED
    BY <1>4, <2>2, <2>3, <2>4 DEF HeartbeatStep, RecordHeartbeat, SaveHeartbeat
<1>5. CASE PushNext
  BY <1>3, <1>4, <1>5 DEF PushNext
<1>6. ASSUME NEW u \in Check, CheckStep(u) PROVE task'[t].id \in Token \cup {NoMonitor}
  BY <1>1, <1>6 DEF CheckStep, ProbeSucceeds, ProbeFails, RecordCheck, CompareCheck,
     SaveCheck, Goto, Finish
<1>7. CASE ScheduleJobs \/ OverdueStep \/ PageNext
  BY <1>1, <1>7 DEF ScheduleJobs, OverdueStep, SaveOverdue, RecordOverdue,
     NotifyOverdue, PageNext, ExpirePage, MissCache, ReadPage, FillCache, Goto, Finish
<1>8. ASSUME NEW k \in Monitor, VisitMonitor(k) PROVE task'[t].id \in Token \cup {NoMonitor}
  BY <1>1, <1>8 DEF VisitMonitor, SkipUnknownType, PassPushMonitor, FailPushMonitor,
     StartCheck, Begin
<1>9. CASE ApiNext
  BY <1>1, <1>9 DEF ApiNext, CreateMonitor, ReadForUpdate, DeleteMonitor, EditStep,
     SaveUpdate, InvalidateAfterEdit, Begin, Goto, Finish
<1>10. QED
  BY <1>2, <1>5, <1>6, <1>7, <1>8, <1>9 DEF Next, SchedulerNext

LEMMA PageStep ==
  ASSUME TypeInv, Next, \A t \in Heartbeat : task[t].id \in Token \cup {NoMonitor},
         NEW m \in OnPage, m \notin Token, m \notin disturbed', m \notin blurred',
         PageMatches(m), Coherent(m)
  PROVE  PageMatches(m)'
<1>1. CASE Clock \/ ScheduleJobs
  BY <1>1, PageClock, PageSchedule
<1>2. ASSUME NEW k \in Monitor, VisitMonitor(k) PROVE PageMatches(m)'
  BY <1>2, PageVisit
<1>3. ASSUME NEW t \in Check, CheckStep(t) PROVE PageMatches(m)'
  BY <1>3, PageProbe, PageCompare, PageSaveCheck DEF CheckStep
<1>4. CASE OverdueStep
  BY <1>4, PageOverdue
<1>5. CASE PushNext
  BY <1>5, PageHeartbeat DEF PushNext
<1>6. CASE ApiNext
  <2>1. ASSUME NEW t \in Edit, NEW k \in Monitor,
               (\E c \in Config : CreateMonitor(t, k, c)) \/ DeleteMonitor(t, k)
        PROVE  PageMatches(m)'
    BY <2>1, PageWrite
  <2>2. ASSUME NEW t \in Edit, NEW k \in Monitor, NEW c \in Config, NEW on \in BOOLEAN,
               ReadForUpdate(t, k, c, on)
        PROVE  PageMatches(m)'
    BY <2>2, PageRead
  <2>3. ASSUME NEW t \in Edit, EditStep(t) PROVE PageMatches(m)'
    BY <2>3, PageEdit
  <2>4. QED
    BY <1>6, <2>1, <2>2, <2>3 DEF ApiNext
<1>7. CASE PageNext
  BY <1>7, PageRoute
<1>8. CASE Crash
  BY <1>8, PageCrash
<1>9. QED
  BY <1>1, <1>2, <1>3, <1>4, <1>5, <1>6, <1>7, <1>8 DEF Next, SchedulerNext

LEMMA PagesMatchStep == IInv /\ PagesMatch /\ [Next]_vars => PagesMatch'
<1> SUFFICES ASSUME IInv, PagesMatch, [Next]_vars PROVE PagesMatch'
  OBVIOUS
<1>1. TypeInv /\ disturbed \subseteq disturbed' /\ blurred \subseteq blurred'
  BY DisturbedGrows, BlurredGrows DEF IInv, TypeInv
<1>2. \A t \in Heartbeat : task'[t].id \in Token \cup {NoMonitor}
  BY <1>1, TokenStep DEF PagesMatch
<1>3. ASSUME NEW m \in OnPage \ (Token \cup disturbed' \cup blurred') PROVE PageMatches(m)'
  <2>1. m \in Monitor /\ m \notin disturbed /\ m \notin blurred
    BY <1>1, TableAssumption
  <2>2. PageMatches(m) /\ Coherent(m)
    BY <2>1 DEF PagesMatch, IInv, Story
  <2>3. CASE UNCHANGED vars
    BY <2>2, <2>3 DEF vars, PageMatches, Held, ShownOf, Live, Dropping
  <2>4. CASE Next
    <3>1. \A t \in Heartbeat : task[t].id \in Token \cup {NoMonitor}
      BY DEF PagesMatch
    <3>2. QED
      BY <1>1, <2>2, <2>4, <3>1, PageStep
  <2>5. QED
    BY <2>3, <2>4
<1>4. QED
  BY <1>2, <1>3 DEF PagesMatch

\* For any number of visitors, writers and monitors: the page in Redis and every
\* page that is being built agree with the table.
THEOREM PagesAlwaysMatch == Spec => []PagesMatch
<1>1. Init => PagesMatch
  <2> SUFFICES ASSUME Init PROVE PagesMatch
    OBVIOUS
  <2>1. \A t \in Heartbeat : task[t].id = NoMonitor
    BY DEF Init, Task
  <2>2. cache = NoPage /\ \A p \in Page : page[p] \notin PageView
    BY TableAssumption DEF Init
  <2>3. QED
    BY <2>1, <2>2 DEF PagesMatch, PageMatches
<1>2. IInv /\ PagesMatch /\ [Next]_vars => PagesMatch'
  BY PagesMatchStep
<1>3. Init => IInv
  BY InitTypeInv, InitStory DEF IInv, TypeInv
<1>4. IInv /\ [Next]_vars => IInv'
  BY IInvStep
<1>5. QED
  BY <1>1, <1>2, <1>3, <1>4, PTL DEF Spec

\* What the cached page shows of a monitor whose handling is over is what the
\* table holds (status_page_handler.go:107-185, scheduler.go:218).
THEOREM CachedPageAlwaysCurrent == Spec => []CachedPageIsCurrent
<1>1. PagesMatch => CachedPageIsCurrent
  <2> SUFFICES ASSUME PagesMatch, cache # NoPage,
                      NEW m \in OnPage \ (Token \cup disturbed \cup blurred), ~Held(m)
               PROVE  cache[m] = ShownOf(m)
    BY DEF CachedPageIsCurrent
  <2>1. \A t \in Task : task[t].id # m
    BY DEF Held
  <2>2. QED
    BY <2>1 DEF PagesMatch, PageMatches
<1>2. QED
  BY <1>1, PagesAlwaysMatch, PTL
=============================================================================
