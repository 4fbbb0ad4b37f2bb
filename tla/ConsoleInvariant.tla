------------------------- MODULE ConsoleInvariant -------------------------
(***************************************************************************)
(* The strengthening that makes the properties of the console inductive.   *)
(***************************************************************************)
EXTENDS Console

\* What the schema of each form lets through.
Valid(k, f) ==
  CASE k = "monitors" -> ValidMonitor(f)
    [] k = "groups" -> ValidGroup(f)
    [] k = "pages" -> ValidPage(f)
    [] k = "channels" -> ValidChannel(f)
    [] k = "incidents" -> ValidIncident(f)

\* An open dialog holds a form of its page.
DialogFine(t) ==
  tab[t].open => tab[t].page \in Key /\ tab[t].form \in FormsOf(tab[t].page)

\* A mutation carries a valid form or the id of a row.  Half served are only an
\* edit, the deletion of a group, and the writing of a page, whose row is in the
\* table by then.
CallFine(c) ==
  LET q == call[c]
  IN  q.pc \notin {"unsent", "answered"} =>
        /\ q.tab \in Tab /\ q.page \in Key
        /\ q.op \in {"post", "put"} => q.form \in FormsOf(q.page) /\ Valid(q.page, q.form)
        /\ q.op # "post" => q.id \in Id
        /\ q.pc = "sent" => q.read = {}
        /\ q.pc \in {"created", "read", "half"} =>
             \/ q.page = "groups" /\ q.op = "delete" /\ q.pc = "half"
             \/ q.page = "monitors" /\ q.op = "put" /\ q.pc = "read"
                /\ q.read \in Id \cup {NoGroup}
             \/ q.page \in {"groups", "channels"} /\ q.op = "put" /\ q.pc = "read"
             \/ /\ q.page = "pages" /\ q.op \in {"post", "put"}
                /\ q.id \in Id /\ table["pages"][q.id] \in RowOf("pages")
                /\ q.read \subseteq Id

\* Tab t has changed table k and has not yet reacted to the answer.
Unread(t, k) ==
  \E c \in Call :
    /\ call[c].tab = t /\ call[c].page = k
    /\ \/ call[c].pc = "ok"
       \/ call[c].op = "post" /\ call[c].pc \in {"created", "read", "half"}

\* Unless others or the tab itself changed the table since, a list that is not
\* being asked for, or whose answer is on its way, is what the route would say.
CopyFine(t, k) ==
  k \notin foreign[t] /\ ~Unread(t, k) =>
    /\ fetch[t][k].state = "none" /\ cached[t][k] # NoList => cached[t][k] = Listed(k)
    /\ fetch[t][k].state = "served" => fetch[t][k].rows = Listed(k)

\* Between the two statements that delete a group it is empty, or refilled.
HalfFine(c) ==
  call[c].page = "groups" /\ call[c].pc = "half" =>
    \A m \in Id : Exists("monitors", m) /\ table["monitors"][m].group = call[c].id
                  => call[c].id \in refilled

\* What makes TypeOK, ListIsCurrent and DeletedGroupIsEmpty inductive: forms and
\* requests are well formed, every copy of a list is accounted for, and a group
\* under deletion was emptied
\* (Monitors.tsx:91-148, monitor_group_repo.go:48-52, status_page_repo.go:64-70).
ConsoleInv ==
  /\ \A t \in Tab : DialogFine(t)
  /\ \A c \in Call : CallFine(c)
  /\ \A t \in Tab, k \in Key : CopyFine(t, k)
  /\ \A c \in Call : HalfFine(c)
=============================================================================
