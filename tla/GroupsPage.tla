----------------------------- MODULE GroupsPage -----------------------------
(* The monitor groups page and its routes.                                   *)
EXTENDS AdminPage

GroupForms == [name : Text, order : {0, 1}]

BlankGroup == [name |-> "", order |-> 0]

\* handleOpen(group), and what the schema asks for.
FormOfGroup(r) == r
ValidGroup(f) == f.name # ""

GroupsPageStep(t) ==
  LET start == IF tab[t].base = NoRow THEN BlankGroup ELSE FormOfGroup(tab[t].base)
  IN  \/ OpenNew(t, "groups", BlankGroup)
      \/ \E i \in Id : OpenEdit(t, "groups", i, FormOfGroup(cached[t]["groups"][i]))
      \/ Fill(t, "groups", start, {f \in GroupForms : ValidGroup(f)})
      \/ \E c \in Call : Submit(t, c, "groups", ValidGroup(tab[t].form))
      \/ \E c \in Call, i \in Id : PressRow(t, c, "groups", "delete", i)

-----------------------------------------------------------------------------
PostGroup(c) ==
  /\ Serves(c, "groups", "post")
  /\ Insert(c, call[c].form) \/ MayFail(c)

ReadGroup(c) == Read(c, "groups", {})

SaveGroup(c) == HasRead(c, "groups") /\ Save(c, call[c].form)

\* Variant: the monitors are left as they are.
UngroupNobody(c) ==
  /\ Serves(c, "groups", "delete")
  /\ refilled' = refilled \ {call[c].id}
  /\ Goto(c, "half")
  /\ UNCHANGED <<table, gone, foreign>>

\* Delete, first statement: the monitors leave the group.  Its error is ignored.
UngroupMonitors(c) ==
  /\ Serves(c, "groups", "delete")
  /\ Goto(c, "half")
  /\ \/ /\ table' = [table EXCEPT !["monitors"] = [m \in Id |->
                       IF Exists("monitors", m) /\ @[m].group = call[c].id
                       THEN [@[m] EXCEPT !.group = NoGroup] ELSE @[m]]]
        /\ refilled' = refilled \ {call[c].id}
        /\ Written(c, {"monitors"})
     \/ /\ "half" \in tour.faults
        /\ refilled' = refilled \cup {call[c].id}
        /\ UNCHANGED <<table, foreign>>
  /\ UNCHANGED gone

DeleteGroup(c) ==
  /\ call[c].pc = "half" /\ call[c].page = "groups"
  /\ SoftDelete(c) \/ HalfMayFail(c)

GroupRoutes(c) ==
  \/ PostGroup(c) \/ ReadGroup(c) \/ SaveGroup(c)
  \/ UngroupMonitors(c) \/ DeleteGroup(c)
=============================================================================
