------------------------------ MODULE Console ------------------------------
(***************************************************************************)
(* The administration console: the pages of the dashboard layout in every  *)
(* tab, over the tables their routes read and write.                       *)
(***************************************************************************)
EXTENDS MonitorsPage, GroupsPage, StatusPagesPage, ChannelsPage, IncidentsPage

\* What the list routes return.
Listed(k) ==
  CASE k = "pages" -> ListedPages
    [] k = "incidents" -> OngoingIncidents
    [] OTHER -> [i \in Id |-> IF Exists(k, i) THEN table[k][i] ELSE NoRow]

\* What the dialog of page p makes of a row of the list.
FormOf(p, r) ==
  CASE p = "monitors" -> FormOfMonitor(r)
    [] p = "groups" -> FormOfGroup(r)
    [] p = "pages" -> FormOfPage(r)
    [] p = "channels" -> FormOfChannel(r)

-----------------------------------------------------------------------------
\* The tables a behaviour is about.
Known(x) == UNION {Lists(p) : p \in x.pages} \cup
            (IF "checks" \in x.faults THEN {"monitors"} ELSE {})

\* Bound: the rows there are before the behaviour starts, made by earlier ones,
\* have these values.
SeedRow(k, i) ==
  CASE k = "monitors" -> [name |-> "a", target |-> "t",
                          group |-> IF "groups" \in Known(tour) THEN i ELSE NoGroup,
                          enabled |-> TRUE]
    [] k = "groups" -> [name |-> "a", order |-> 0]
    [] k = "pages" -> [title |-> "a", slug |-> "s1", public |-> TRUE, monitors |-> {i}]
    [] k = "channels" -> [name |-> "a", type |-> "webhook", config |-> "json",
                          enabled |-> TRUE]
    [] k = "incidents" -> [title |-> "a", impact |-> "minor", status |-> "ongoing"]

Init ==
  /\ tour \in Tours
  /\ \E first \in Id :
       table = [k \in Key |-> [i \in Id |->
                  IF k \in Known(tour) /\ i = first THEN SeedRow(k, i) ELSE NoRow]]
  /\ gone = [k \in Key |-> {}]
  /\ call = [c \in Call |-> Unsent]
  /\ held = [w \in Worker |-> NothingHeld]
  /\ tab \in [Tab -> {Closed(p) : p \in tour.pages}]
  /\ cached = [t \in Tab |-> [k \in Key |-> NoList]]
  /\ fetch = [t \in Tab |-> [k \in Key |-> IF k \in Lists(tab[t].page) THEN Asked
                                           ELSE NotFetching]]
  /\ foreign = [t \in Tab |-> {}]
  /\ refilled = {}

QueryStep(t, k) ==
  \/ Serve(t, k, Listed(k)) \/ Deliver(t, k) \/ LoseFetch(t, k) \/ Refresh(t, k)

PageStep(t) ==
  \/ MonitorsPageStep(t) \/ GroupsPageStep(t) \/ PagesPageStep(t)
  \/ ChannelsPageStep(t) \/ IncidentsPageStep(t)

Route(c) ==
  /\ \/ MonitorRoutes(c) \/ GroupRoutes(c) \/ PageRoutes(c)
     \/ ChannelRoutes(c) \/ IncidentRoutes(c)
  /\ UNCHANGED <<held, tab, cached, fetch, tour>>

WorkerStep(w) == (HoldRow(w) \/ SaveHeld(w)) /\ UNCHANGED <<call, tab, cached, fetch, tour>>

Next ==
  \/ \E t \in Tab, k \in Key : QueryStep(t, k)
  \/ \E t \in Tab, p \in AdminPages : Visit(t, p)
  \/ \E t \in Tab : PageStep(t) \/ CloseDialog(t)
  \/ \E c \in Call : Route(c) \/ Succeed(c) \/ Fail(c) \/ LoseAnswer(c)
  \/ \E w \in Worker : WorkerStep(w)

Spec == Init /\ [][Next]_vars

-----------------------------------------------------------------------------
\* The rows of each table, and what its list shows of them.
RowOf(k) ==
  CASE k = "monitors" -> [name : Text \ {""}, target : {"", "t"},
                          group : Id \cup {NoGroup}, enabled : BOOLEAN]
    [] k = "groups" -> [name : Text \ {""}, order : {0, 1}]
    [] k = "pages" -> [title : Text \ {""}, slug : Slug \ {""}, public : BOOLEAN,
                       monitors : SUBSET Id]
    [] k = "channels" -> [name : Text \ {""}, type : {"webhook", "email"},
                          config : {"json"}, enabled : BOOLEAN]
    [] k = "incidents" -> [title : Text \ {""}, impact : {"minor", "major"},
                           status : {"ongoing", "resolved"}]

EntryOf(k) ==
  IF k = "pages" THEN [title : Text \ {""}, slug : Slug \ {""}, public : BOOLEAN]
  ELSE RowOf(k)

FormsOf(k) ==
  CASE k = "monitors" -> MonitorForms
    [] k = "groups" -> GroupForms
    [] k = "pages" -> PageForms
    [] k = "channels" -> ChannelForms
    [] k = "incidents" -> IncidentForms

AnyRow == {NoRow} \cup RowOf("monitors") \cup RowOf("groups") \cup RowOf("pages")
          \cup RowOf("channels") \cup RowOf("incidents")
AnyEntry == AnyRow \cup EntryOf("pages")
AnyList == {NoList} \cup [Id -> AnyEntry]
AnyForm == {NoForm} \cup MonitorForms \cup GroupForms \cup PageForms
           \cup ChannelForms \cup IncidentForms

\* The markers for "none" are no values.
ASSUME ConsoleAssumption ==
  /\ \A x \in Tours : x.pages \subseteq AdminPages
  /\ \A k \in Key : NoRow \notin RowOf(k) /\ NoRow \notin EntryOf(k)
  /\ NoForm \notin MonitorForms

CallState == [pc : {"unsent", "sent", "created", "read", "half", "ok", "failed", "answered"},
              tab : Tab \cup {NoId}, here : BOOLEAN, page : AdminPages,
              op : {"post", "put", "delete", "resolve"}, id : Id \cup {NoId},
              form : AnyForm, base : AnyEntry,
              read : Id \cup {NoGroup} \cup SUBSET Id]

HeldState == {NothingHeld} \cup [id : Id, row : RowOf("monitors")]

TabState == [page : AdminPages, open : BOOLEAN, id : Id \cup {NoId}, form : AnyForm,
             base : AnyEntry]

FetchState == [state : {"none", "asked", "served"}, rows : AnyList]

\* Types, and what the forms keep out of the tables and lists: no row lacks a
\* name, a slug or a parsable config, and a monitor is in a group or in none.
TypeOK ==
  /\ table \in [Key -> [Id -> AnyRow]]
  /\ \A k \in Key, i \in Id : table[k][i] \in RowOf(k) \cup {NoRow}
  /\ gone \in [Key -> SUBSET Id]
  /\ call \in [Call -> CallState]
  /\ held \in [Worker -> HeldState]
  /\ tab \in [Tab -> TabState] /\ \A t \in Tab : tab[t].page \in tour.pages
  /\ cached \in [Tab -> [Key -> AnyList]]
  /\ fetch \in [Tab -> [Key -> FetchState]]
  /\ \A t \in Tab, k \in Key : \A l \in {cached[t][k], fetch[t][k].rows} \ {NoList} :
       \A i \in Id : l[i] \in EntryOf(k) \cup {NoRow}
  /\ foreign \in [Tab -> SUBSET Key]
  /\ refilled \subseteq Id
  /\ tour \in Tours

Answered(c) == call[c].pc \in {"unsent", "answered"}

\* Once no list request and no mutation of a tab is under way, the list on its
\* screen shows what its own mutations did, also where the list was being read
\* while they were served: later changes of others aside, it is the table
\* (Monitors.tsx:91-107 and the same lines of the other pages).
ListIsCurrent ==
  \A t \in Tab : \A k \in Lists(tab[t].page) \ foreign[t] :
    /\ cached[t][k] # NoList /\ fetch[t][k].state = "none"
    /\ \A c \in Call : call[c].tab = t => Answered(c)
    => cached[t][k] = Listed(k)

\* "Monitors in this group will be ungrouped" (MonitorGroups.tsx:94): the
\* monitors that refer to a deleted group came there after it was emptied, by a
\* form from an older list or by a row read before and saved after (then nobody
\* says so), or emptying it failed unnoticed.  None is simply left behind.
DeletedGroupIsEmpty ==
  \A m \in Id : Exists("monitors", m) =>
    LET g == table["monitors"][m].group
    IN  g = NoGroup \/ Exists("groups", g) \/ g \in refilled

-----------------------------------------------------------------------------
(* What an edit may never do *)

\* Call c is an edit, and this step answers it with success.
EditSaved(c, p) ==
  call[c].page = p /\ call[c].op = "put" /\ call[c].pc # "ok" /\ call'[c].pc = "ok"

\* The columns of a row the operator did not touch in the dialog of call c.
Untouched(c) ==
  LET r == table[call[c].page][call[c].id]
      f == FormOf(call[c].page, call[c].base)
  IN  {x \in DOMAIN r : x \in DOMAIN f => call[c].form[x] = f[x]}

\* Since the dialog opened nobody else has written the row, or only with the
\* same values, and the handler has read it as it is.
StillAsShown(c) ==
  /\ Exists(call[c].page, call[c].id) /\ Listed(call[c].page)[call[c].id] = call[c].base
  /\ call[c].page = "monitors" => call[c].read = Preloaded(call[c].id)

KeepsUntouched(c) ==
  LET k == call[c].page
      i == call[c].id
  IN  \A x \in Untouched(c) : table'[k][i][x] = table[k][i][x]

\* Saving a dialog leaves the columns as they are that were not touched in it,
\* through the conversions from row to form to request to row
\* (Monitors.tsx:131-148, monitor_service.go:45-73 and the like).
EditKeepsTheRest ==
  [][\A c \in Call, p \in {"monitors", "groups", "channels"} :
       EditSaved(c, p) /\ StillAsShown(c) => KeepsUntouched(c)]_vars

\* ... and every column that was touched arrives in the row, unless the row was
\* deleted meanwhile.  One does not: the group of a monitor that was in a group
\* when its handler read it (monitor_service.go:46, monitor_service.go:70).
EditArrives ==
  [][\A c \in Call, p \in {"monitors", "groups", "channels"} :
       EditSaved(c, p) /\ Exists(p, call[c].id) =>
         LET old == table[p][call[c].id]
             new == table'[p][call[c].id]
         IN  \A x \in DOMAIN old \ Untouched(c) :
               \/ new[x] = call[c].form[x]
               \/ call[c].form[x] = Unset /\ new[x] = NoGroup
               \/ p = "monitors" /\ x = "group" /\ call[c].read # NoGroup]_vars

\* The same for a status page: its dialog asks for the monitors as they are, it
\* "setValue('monitor_ids', page.monitors?.map(m => m.id) || [])"
\* (StatusPages.tsx:103), so that an edit of the title does not change them.
PageEditKeepsTheRest ==
  [][\A c \in Call :
       /\ call[c].page = "pages" /\ call[c].op = "put"
       /\ call[c].pc = "read" /\ call'[c].pc = "half" /\ StillAsShown(c)
       /\ "monitors" \in Untouched(c)
       => table'["pages"][call[c].id].monitors = table["pages"][call[c].id].monitors]_vars
=============================================================================
