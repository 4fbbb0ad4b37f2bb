---------------------------- MODULE MonitorsPage ----------------------------
(* The monitors page and the monitor routes as its forms meet them.  `name'  *)
(* stands for all the fields that are copied as they are.                    *)
EXTENDS AdminPage

MonitorForms == [name : Text, target : {"", "t"},
                 group : Id \cup {NoGroup, Unset}, enabled : BOOLEAN]

BlankMonitor == [name |-> "", target |-> "", group |-> Unset,
                 enabled |-> TRUE]

\* Variant: the switch is not set from the row.
FormOfMonitorOn(r) == [r EXCEPT !.enabled = TRUE]

\* handleOpen(monitor): a group_id of null stays null.
FormOfMonitor(r) == r

\* The schema accepts a missing group_id and refuses null.
ValidMonitor(f) == f.name # "" /\ f.group # NoGroup

\* The valid forms that can be made of f in the dialog.  An empty group select shows "None"
\* already, so null turns into undefined only by way of another group.
FilledMonitor(t, f) ==
  LET offered == IF cached[t]["groups"] = NoList THEN {}
                 ELSE {g \in Id : cached[t]["groups"][g] # NoRow}
      cleared == IF f.group # NoGroup \/ offered # {} THEN {Unset} ELSE {}
  IN  {g \in MonitorForms : /\ ValidMonitor(g) /\ g.name \in {f.name, "b"}
                              /\ g.group \in {f.group} \cup offered \cup cleared}

MonitorsPageStep(t) ==
  LET start == IF tab[t].base = NoRow THEN BlankMonitor ELSE FormOfMonitor(tab[t].base)
  IN  \/ OpenNew(t, "monitors", BlankMonitor)
      \/ \E i \in Id : OpenEdit(t, "monitors", i, FormOfMonitor(cached[t]["monitors"][i]))
      \/ Fill(t, "monitors", start, FilledMonitor(t, start))
      \/ \E c \in Call : Submit(t, c, "monitors", ValidMonitor(tab[t].form))
      \/ \E c \in Call, i \in Id : PressRow(t, c, "monitors", "delete", i)

-----------------------------------------------------------------------------
GroupId(g) == IF g = Unset THEN NoGroup ELSE g

\* No target, no monitor; a false `enabled' is a zero value, so the default true
\* goes into the row.
PostMonitor(c) ==
  /\ Serves(c, "monitors", "post")
  /\ LET f == call[c].form
     IN  \/ f.target = "" /\ Refuse(c)
         \/ /\ f.target # ""
            /\ Insert(c, [f EXCEPT !.group = GroupId(f.group), !.enabled = TRUE])
         \/ MayFail(c)

\* Preload: the group of the row as far as it is there.
Preloaded(i) ==
  LET g == table["monitors"][i].group
  IN  IF g # NoGroup /\ Exists("groups", g) THEN g ELSE NoGroup

ReadMonitor(c) == Read(c, "monitors", Preloaded(call[c].id))

\* The row with the fields of the form.  Save takes group_id from the group that
\* was preloaded, also if it is deleted by now, and only without one from the
\* form.
MonitorSaved(c) ==
  LET f == call[c].form
  IN  [f EXCEPT !.group = IF call[c].read # NoGroup THEN call[c].read ELSE GroupId(f.group),
                !.enabled = Flag(c, f.enabled)]

\* Variant: the flag is not copied.
SaveMonitorUnflagged(c) ==
  /\ HasRead(c, "monitors")
  /\ Save(c, [MonitorSaved(c) EXCEPT !.enabled = table["monitors"][call[c].id].enabled])

SaveMonitor(c) == HasRead(c, "monitors") /\ Save(c, MonitorSaved(c))

DeleteMonitor(c) ==
  /\ Serves(c, "monitors", "delete")
  /\ SoftDelete(c) \/ MayFail(c)

MonitorRoutes(c) ==
  PostMonitor(c) \/ ReadMonitor(c) \/ SaveMonitor(c) \/ DeleteMonitor(c)

-----------------------------------------------------------------------------
(* The other writers of the table: a check of the scheduler and a heartbeat  *)
(* read a row, stamp it and save all of it.  Bound: they begin while there   *)
(* are mutations left to send.                                               *)

HoldRow(w) ==
  /\ "checks" \in tour.faults /\ CallsLeft /\ held[w] = NothingHeld
  /\ \E i \in Id :
       /\ Exists("monitors", i)
       /\ held' = [held EXCEPT ![w] = [id |-> i, row |-> table["monitors"][i]]]
  /\ UNCHANGED <<table, gone, foreign, refilled>>

\* Save, or its failure, which is only logged.
SaveHeld(w) ==
  /\ held[w] # NothingHeld
  /\ held' = [held EXCEPT ![w] = NothingHeld]
  /\ \/ LET i == held[w].id
            r == [held[w].row EXCEPT !.enabled = @ \/ ~Exists("monitors", i)]
        IN  /\ table' = [table EXCEPT !["monitors"][i] = r]
            /\ gone' = [gone EXCEPT !["monitors"] = @ \ {i}]
            /\ foreign' = [t \in Tab |-> foreign[t] \cup {"monitors"}]
            /\ Refills(i, r)
     \/ "db" \in tour.faults /\ UNCHANGED <<table, gone, foreign, refilled>>
=============================================================================
