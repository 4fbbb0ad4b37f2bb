--------------------------- MODULE IncidentsPage ---------------------------
(* The incidents page and its routes: what is created is ongoing, what is    *)
(* resolved leaves the list.                                                 *)
EXTENDS AdminPage

IncidentForms == [title : Text, impact : {"minor", "major"}]

BlankIncident == [title |-> "", impact |-> "minor"]

ValidIncident(f) == f.title # ""

IncidentRow(f, s) == [title |-> f.title, impact |-> f.impact, status |-> s]

\* The list comes from the public route: the ongoing ones.
OngoingIncidents ==
  [i \in Id |-> IF Exists("incidents", i) /\ table["incidents"][i].status = "ongoing"
                THEN table["incidents"][i] ELSE NoRow]

IncidentsPageStep(t) ==
  \/ OpenNew(t, "incidents", BlankIncident)
  \/ Fill(t, "incidents", BlankIncident, {f \in IncidentForms : ValidIncident(f)})
  \/ \E c \in Call : Submit(t, c, "incidents", ValidIncident(tab[t].form))
  \/ \E c \in Call, i \in Id : PressRow(t, c, "incidents", "resolve", i)

-----------------------------------------------------------------------------
PostIncident(c) ==
  /\ Serves(c, "incidents", "post")
  /\ Insert(c, IncidentRow(call[c].form, "ongoing")) \/ MayFail(c)

\* An incident that is resolved already is resolved again.  One step: the other
\* columns never change, incidents are never deleted.
ResolveIncident(c) ==
  /\ Serves(c, "incidents", "resolve")
  /\ LET r == table["incidents"][call[c].id]
     IN  \/ /\ Exists("incidents", call[c].id)
            /\ Store(c, call[c].id, [r EXCEPT !.status = "resolved"])
            /\ UNCHANGED gone
         \/ ~Exists("incidents", call[c].id) /\ Refuse(c)
         \/ MayFail(c)

IncidentRoutes(c) == PostIncident(c) \/ ResolveIncident(c)
=============================================================================
