--------------------------- MODULE ConsoleProofs ---------------------------
(***************************************************************************)
(* Types of the console, for any ids, tabs, mutations and tours: what the  *)
(* forms accept, what the requests carry and what gets into the tables.    *)
(***************************************************************************)
EXTENDS ConsoleInvariant, TLAPS

Fine ==
  /\ TypeOK
  /\ \A t \in Tab : DialogFine(t)
  /\ \A c \in Call : CallFine(c)

-----------------------------------------------------------------------------
(* The sets of rows, entries and forms *)

LEMMA KeyCases ==
  ASSUME NEW k \in Key
  PROVE  k \in AdminPages /\ k # "dashboard"
         /\ k \in {"monitors", "groups", "pages", "channels", "incidents"}
BY DEF Key, AdminPages

LEMMA RowIsAny ==
  ASSUME NEW k \in Key
  PROVE  RowOf(k) \subseteq AnyRow /\ RowOf(k) \subseteq AnyEntry
         /\ EntryOf(k) \subseteq AnyEntry /\ NoRow \in AnyRow /\ NoRow \in AnyEntry
<1>1. RowOf(k) \subseteq AnyRow
  <2>1. CASE k = "monitors" BY <2>1 DEF AnyRow
  <2>2. CASE k = "groups" BY <2>2 DEF AnyRow
  <2>3. CASE k = "pages" BY <2>3 DEF AnyRow
  <2>4. CASE k = "channels" BY <2>4 DEF AnyRow
  <2>5. CASE k = "incidents" BY <2>5 DEF AnyRow
  <2>6. QED
    BY <2>1, <2>2, <2>3, <2>4, <2>5 DEF Key
<1>2. NoRow \in AnyRow /\ AnyRow \subseteq AnyEntry
  BY DEF AnyRow, AnyEntry
<1>3. EntryOf(k) \subseteq AnyEntry
  <2>1. CASE k = "pages" BY <2>1 DEF AnyEntry
  <2>2. CASE k # "pages"
    <3>1. EntryOf(k) = RowOf(k)
      BY <2>2 DEF EntryOf
    <3>2. QED
      BY <1>1, <1>2, <3>1
  <2>3. QED
    BY <2>1, <2>2
<1>4. QED
  BY <1>1, <1>2, <1>3

LEMMA FormIsAny ==
  ASSUME NEW k \in Key
  PROVE  FormsOf(k) \subseteq AnyForm /\ NoForm \in AnyForm
<1>1. CASE k = "monitors" BY <1>1 DEF AnyForm, FormsOf
<1>2. CASE k = "groups" BY <1>2 DEF AnyForm, FormsOf
<1>3. CASE k = "pages" BY <1>3 DEF AnyForm, FormsOf
<1>4. CASE k = "channels" BY <1>4 DEF AnyForm, FormsOf
<1>5. CASE k = "incidents" BY <1>5 DEF AnyForm, FormsOf
<1>6. QED
  BY <1>1, <1>2, <1>3, <1>4, <1>5 DEF Key

\* A form of each page that its schema accepts, and the row made of it.
LEMMA MonitorForm ==
  ASSUME NEW f \in FormsOf("monitors"), ValidMonitor(f)
  PROVE  /\ f \in MonitorForms /\ f.group \in Id \cup {Unset}
         /\ \A g \in Id \cup {NoGroup}, b \in BOOLEAN :
              /\ [f EXCEPT !.group = g] \in RowOf("monitors")
              /\ [f EXCEPT !.group = g, !.enabled = b] \in RowOf("monitors")
<1>1. f \in MonitorForms
  BY DEF FormsOf
<1>2. f \in [name : Text \ {""}, target : {"", "t"}, group : Id \cup {Unset}, enabled : BOOLEAN]
  BY <1>1 DEF MonitorForms, ValidMonitor
<1>3. RowOf("monitors") = [name : Text \ {""}, target : {"", "t"},
                           group : Id \cup {NoGroup}, enabled : BOOLEAN]
  BY DEF RowOf
<1>4. QED
  BY <1>1, <1>2, <1>3

LEMMA GroupForm ==
  ASSUME NEW f \in FormsOf("groups"), ValidGroup(f)
  PROVE  f \in RowOf("groups")
<1>1. f \in [name : Text \ {""}, order : {0, 1}]
  BY DEF FormsOf, GroupForms, ValidGroup
<1>2. QED
  BY <1>1 DEF RowOf

LEMMA ChannelForm ==
  ASSUME NEW f \in FormsOf("channels"), ValidChannel(f)
  PROVE  f \in RowOf("channels")
<1>1. f \in [name : Text \ {""}, type : {"webhook", "email"}, config : {"json"},
             enabled : BOOLEAN]
  BY DEF FormsOf, ChannelForms, ValidChannel
<1>2. QED
  BY <1>1 DEF RowOf

LEMMA IncidentForm ==
  ASSUME NEW f \in FormsOf("incidents"), ValidIncident(f)
  PROVE  IncidentRow(f, "ongoing") \in RowOf("incidents")
<1>1. f \in [title : Text \ {""}, impact : {"minor", "major"}]
  BY DEF FormsOf, IncidentForms, ValidIncident
<1>2. RowOf("incidents") = [title : Text \ {""}, impact : {"minor", "major"},
                            status : {"ongoing", "resolved"}]
  BY DEF RowOf
<1>3. QED
  BY <1>1, <1>2 DEF IncidentRow

LEMMA PageForm ==
  ASSUME NEW f \in FormsOf("pages"), ValidPage(f)
  PROVE  f \in [title : Text \ {""}, slug : Slug \ {""}, monitors : SUBSET Id]
BY DEF FormsOf, PageForms, ValidPage

LEMMA PageRows ==
  /\ RowOf("pages") = [title : Text \ {""}, slug : Slug \ {""}, public : BOOLEAN,
                       monitors : SUBSET Id]
  /\ \A r \in RowOf("pages") :
       /\ r.title \in Text \ {""} /\ r.slug \in Slug \ {""} /\ r.public \in BOOLEAN
       /\ r.monitors \in SUBSET Id
       /\ \A ms \in SUBSET Id : LET n == [r EXCEPT !.monitors = ms]
                              IN  /\ n \in RowOf("pages") /\ n.title = r.title
                                  /\ n.slug = r.slug /\ n.public = r.public
BY DEF RowOf

LEMMA PageEntries ==
  EntryOf("pages") = [title : Text \ {""}, slug : Slug \ {""}, public : BOOLEAN]
BY DEF EntryOf

-----------------------------------------------------------------------------
(* Lists *)

\* What a list route returns are entries of its list.
LEMMA ListedFine ==
  ASSUME TypeOK, NEW k \in Key
  PROVE  /\ Listed(k) \in [Id -> AnyEntry] /\ Listed(k) \in AnyList
         /\ \A i \in Id : Listed(k)[i] \in EntryOf(k) \cup {NoRow}
<1>1. \A i \in Id : table[k][i] \in RowOf(k) \cup {NoRow}
  BY DEF TypeOK
<1>2. CASE k = "pages"
  <2>1. Listed(k) = ListedPages
    BY <1>2 DEF Listed
  <2>2. ASSUME NEW i \in Id
        PROVE  ListedPages[i] \in EntryOf(k) \cup {NoRow}
    <3>1. CASE Exists("pages", i)
      <4>1. table["pages"][i] \in RowOf("pages")
        BY <1>1, <1>2, <3>1 DEF Exists
      <4>2. ListedPages[i] = [title |-> table["pages"][i].title,
                              slug |-> table["pages"][i].slug,
                              public |-> table["pages"][i].public]
        BY <3>1 DEF ListedPages
      <4>3. /\ table["pages"][i].title \in Text \ {""}
            /\ table["pages"][i].slug \in Slug \ {""}
            /\ table["pages"][i].public \in BOOLEAN
        BY <4>1, PageRows
      <4>4. ListedPages[i] \in EntryOf("pages")
        BY <4>2, <4>3, PageEntries
      <4>5. QED
        BY <1>2, <4>4
    <3>2. CASE ~Exists("pages", i)
      BY <3>2 DEF ListedPages
    <3>3. QED
      BY <3>1, <3>2
  <2>3. \E f : ListedPages = [i \in Id |-> f[i]]
    <3>1. ListedPages = [i \in Id |-> ListedPages[i]]
      BY DEF ListedPages
    <3>2. QED
      BY <3>1
  <2>4. ListedPages \in [Id -> AnyEntry]
    BY <2>2, <2>3, RowIsAny
  <2>5. QED
    BY <2>1, <2>2, <2>4 DEF AnyList
<1>3. CASE k = "incidents"
  <2>1. Listed(k) = OngoingIncidents
    BY <1>3 DEF Listed
  <2>2. EntryOf(k) = RowOf(k)
    BY <1>3 DEF EntryOf
  <2>3. \A i \in Id : OngoingIncidents[i] \in EntryOf(k) \cup {NoRow}
    BY <1>1, <1>3, <2>2 DEF OngoingIncidents
  <2>4. OngoingIncidents \in [Id -> AnyEntry]
    BY <2>3, RowIsAny DEF OngoingIncidents
  <2>5. QED
    BY <2>1, <2>3, <2>4 DEF AnyList
<1>4. CASE k \notin {"pages", "incidents"}
  <2>1. Listed(k) = [i \in Id |-> IF Exists(k, i) THEN table[k][i] ELSE NoRow]
    BY <1>4 DEF Listed
  <2>2. EntryOf(k) = RowOf(k)
    BY <1>4 DEF EntryOf
  <2>3. \A i \in Id : Listed(k)[i] \in EntryOf(k) \cup {NoRow}
    BY <1>1, <2>1, <2>2
  <2>4. Listed(k) \in [Id -> AnyEntry]
    BY <2>1, <2>3, RowIsAny
  <2>5. QED
    BY <2>3, <2>4 DEF AnyList
<1>5. QED
  BY <1>2, <1>3, <1>4

\* A step of the queries.
LEMMA QueriesTyped ==
  ASSUME Fine, NEW t \in Tab, NEW k \in Key,
         UNCHANGED <<table, gone, call, held, tab, refilled, tour>>,
         foreign' \in [Tab -> SUBSET Key],
         \/ UNCHANGED cached
         \/ cached' = [cached EXCEPT ![t][k] = fetch[t][k].rows],
         NEW f \in FetchState, fetch' = [fetch EXCEPT ![t][k] = f],
         f.rows # NoList => \A i \in Id : f.rows[i] \in EntryOf(k) \cup {NoRow}
  PROVE  Fine'
<1>1. /\ fetch' \in [Tab -> [Key -> FetchState]]
      /\ \A u \in Tab, l \in Key : fetch'[u][l] = IF u = t /\ l = k THEN f ELSE fetch[u][l]
  BY DEF Fine, TypeOK
<1>2. fetch[t][k].rows \in AnyList
  BY DEF Fine, TypeOK, FetchState
<1>3. /\ cached' \in [Tab -> [Key -> AnyList]]
      /\ \A u \in Tab, l \in Key :
           cached'[u][l] \in {cached[u][l]} \cup {fetch[u][l].rows}
  <2>1. cached \in [Tab -> [Key -> AnyList]]
    BY DEF Fine, TypeOK
  <2>2. CASE UNCHANGED cached
    BY <2>1, <2>2
  <2>3. CASE cached' = [cached EXCEPT ![t][k] = fetch[t][k].rows]
    BY <1>2, <2>1, <2>3
  <2>4. QED
    BY <2>2, <2>3
<1>4. \A u \in Tab, l \in Key :
        \A r \in {cached'[u][l], fetch'[u][l].rows} \ {NoList} :
          \A i \in Id : r[i] \in EntryOf(l) \cup {NoRow}
  BY <1>1, <1>3 DEF Fine, TypeOK
<1>5. TypeOK'
  BY <1>1, <1>3, <1>4 DEF Fine, TypeOK
<1>6. QED
  BY <1>5 DEF Fine, DialogFine, CallFine

LEMMA NoRequest ==
  Asked \in FetchState /\ NotFetching \in FetchState /\ Asked.rows = NoList
  /\ NotFetching.rows = NoList
BY DEF Asked, NotFetching, FetchState, AnyList

LEMMA QueryTyped ==
  ASSUME Fine, NEW t \in Tab, NEW k \in Key, QueryStep(t, k)
  PROVE  Fine'
<1> USE DEF server
<1>1. foreign \in [Tab -> SUBSET Key]
  BY DEF Fine, TypeOK
<1>2. CASE Serve(t, k, Listed(k))
  <2> DEFINE f == [state |-> "served", rows |-> Listed(k)]
  <2>1. /\ UNCHANGED <<table, gone, call, held, tab, refilled, tour>> /\ cached' = cached
        /\ fetch' = [fetch EXCEPT ![t][k] = f]
        /\ foreign' = [foreign EXCEPT ![t] = @ \ {k}]
    BY <1>2 DEF Serve
  <2>2. /\ Listed(k) \in AnyList
        /\ \A i \in Id : Listed(k)[i] \in EntryOf(k) \cup {NoRow}
    BY ListedFine DEF Fine
  <2>3. f \in FetchState /\ f.rows = Listed(k)
    BY <2>2 DEF FetchState
  <2>4. foreign' \in [Tab -> SUBSET Key]
    BY <1>1, <2>1
  <2> HIDE DEF f
  <2>5. QED
    BY <2>1, <2>2, <2>3, <2>4, QueriesTyped
<1>3. CASE Deliver(t, k)
  BY <1>1, <1>3, QueriesTyped, NoRequest DEF Deliver
<1>4. CASE LoseFetch(t, k)
  <2>1. foreign' \in [Tab -> SUBSET Key]
    BY <1>1, <1>4 DEF LoseFetch
  <2>2. QED
    BY <1>4, <2>1, QueriesTyped, NoRequest DEF LoseFetch
<1>5. CASE Refresh(t, k)
  BY <1>1, <1>5, QueriesTyped, NoRequest DEF Refresh
<1>6. QED
  BY <1>2, <1>3, <1>4, <1>5 DEF QueryStep

-----------------------------------------------------------------------------
(* The dialog *)

LEMMA TabTyped ==
  ASSUME Fine, NEW t \in Tab
  PROVE  /\ tab[t] \in TabState /\ tab[t].page \in tour.pages
         /\ tab[t].page \in AdminPages /\ DialogFine(t)
BY DEF Fine, TypeOK, TabState

LEMMA ClosedFine ==
  ASSUME NEW p \in AdminPages
  PROVE  Closed(p) \in TabState /\ Closed(p).page = p /\ ~Closed(p).open
<1>1. NoForm \in AnyForm /\ NoRow \in AnyEntry
  BY DEF AnyForm, AnyEntry, AnyRow
<1>2. QED
  BY <1>1 DEF Closed, TabState

\* A step that only changes one tab.
LEMMA DialogTyped ==
  ASSUME Fine, NEW t \in Tab, NEW d \in TabState,
         d.page \in tour.pages,
         d.open => d.page \in Key /\ d.form \in FormsOf(d.page),
         tab' = [tab EXCEPT ![t] = d], UNCHANGED <<server, queries, tour>>
  PROVE  Fine'
<1> USE DEF server, queries
<1>1. /\ tab' \in [Tab -> TabState]
      /\ \A u \in Tab : tab'[u] = IF u = t THEN d ELSE tab[u]
  BY DEF Fine, TypeOK
<1>2. TypeOK'
  BY <1>1 DEF Fine, TypeOK
<1>3. \A u \in Tab : DialogFine(u)'
  BY <1>1 DEF Fine, DialogFine
<1>4. QED
  BY <1>2, <1>3 DEF Fine, CallFine

LEMMA OpenNewTyped ==
  ASSUME Fine, NEW t \in Tab, NEW p \in Key, NEW f \in FormsOf(p), OpenNew(t, p, f)
  PROVE  Fine'
<1> DEFINE d == [tab[t] EXCEPT !.open = TRUE, !.form = f]
<1>1. f \in AnyForm
  BY FormIsAny
<1>2. tab[t] \in TabState /\ tab[t].page = p /\ p \in tour.pages
  BY TabTyped DEF OpenNew, Shows
<1>3. d \in TabState /\ d.page = p /\ d.form = f
  BY <1>1, <1>2 DEF TabState
<1>4. tab' = [tab EXCEPT ![t] = d]
  BY DEF OpenNew, Fine, TypeOK
<1>5. UNCHANGED <<server, queries, tour>>
  BY DEF OpenNew
<1> HIDE DEF d
<1>6. QED
  BY <1>2, <1>3, <1>4, <1>5, DialogTyped

\* The dialog of an entry of the list.
LEMMA EntryShown ==
  ASSUME Fine, NEW t \in Tab, NEW p \in Key, NEW i \in Id, RowShown(t, p, i)
  PROVE  cached[t][p][i] \in EntryOf(p) /\ cached[t][p][i] \in AnyEntry
<1>1. cached[t][p][i] \in EntryOf(p) \cup {NoRow}
  BY DEF RowShown, Fine, TypeOK
<1>2. QED
  BY <1>1, RowIsAny DEF RowShown

LEMMA OpenEditTyped ==
  ASSUME Fine, NEW t \in Tab, NEW p \in Key, NEW i \in Id, NEW f,
         cached[t][p][i] \in EntryOf(p) => f \in FormsOf(p), OpenEdit(t, p, i, f)
  PROVE  Fine'
<1> DEFINE d == [page |-> p, open |-> TRUE, id |-> i, form |-> f, base |-> cached[t][p][i]]
<1>1. cached[t][p][i] \in EntryOf(p) /\ cached[t][p][i] \in AnyEntry
  BY EntryShown DEF OpenEdit
<1>2. f \in FormsOf(p) /\ f \in AnyForm
  BY <1>1, FormIsAny
<1>3. p \in tour.pages /\ p \in AdminPages
  BY TabTyped DEF OpenEdit, Shows
<1>4. d \in TabState /\ d.page = p /\ d.form = f
  BY <1>1, <1>2, <1>3 DEF TabState
<1>5. tab' = [tab EXCEPT ![t] = d] /\ UNCHANGED <<server, queries, tour>>
  BY DEF OpenEdit
<1> HIDE DEF d
<1>6. QED
  BY <1>2, <1>3, <1>4, <1>5, DialogTyped

LEMMA FillTyped ==
  ASSUME Fine, NEW t \in Tab, NEW p \in Key, NEW s, NEW F \in SUBSET FormsOf(p),
         Fill(t, p, s, F)
  PROVE  Fine'
<1>1. PICK f \in F : tab' = [tab EXCEPT ![t].form = f]
  BY DEF Fill
<1> DEFINE d == [tab[t] EXCEPT !.form = f]
<1>2. f \in FormsOf(p) /\ f \in AnyForm
  BY FormIsAny
<1>3. tab[t] \in TabState /\ tab[t].page = p /\ p \in tour.pages
  BY TabTyped DEF Fill, Shows
<1>4. d \in TabState /\ d.page = p /\ d.form = f
  BY <1>2, <1>3 DEF TabState
<1>5. tab' = [tab EXCEPT ![t] = d]
  BY <1>1 DEF Fine, TypeOK
<1>6. UNCHANGED <<server, queries, tour>>
  BY DEF Fill
<1> HIDE DEF d
<1>7. QED
  BY <1>2, <1>3, <1>4, <1>5, <1>6, DialogTyped

LEMMA CloseTyped ==
  ASSUME Fine, NEW t \in Tab, CloseDialog(t)
  PROVE  Fine'
BY TabTyped, ClosedFine, DialogTyped DEF CloseDialog

-----------------------------------------------------------------------------
(* Mutations *)

LEMMA CallTyped ==
  ASSUME Fine, NEW c \in Call
  PROVE  call[c] \in CallState /\ CallFine(c)
BY DEF Fine, TypeOK

\* A step that changes one mutation, and tables and tabs where they stay typed.
LEMMA CallStepTyped ==
  ASSUME Fine, NEW c \in Call, NEW q \in CallState,
         call' = [call EXCEPT ![c] = q], CallFine(c)',
         UNCHANGED tour,
         TypeOK /\ call' \in [Call -> CallState] => TypeOK',
         \A i \in Id : table["pages"][i] \in RowOf("pages")
                       => table'["pages"][i] \in RowOf("pages"),
         \A t \in Tab : DialogFine(t)'
  PROVE  Fine'
<1>1. /\ call' \in [Call -> CallState]
      /\ \A d \in Call : d # c => call'[d] = call[d]
  BY DEF Fine, TypeOK
<1>2. TypeOK'
  BY <1>1 DEF Fine
<1>3. \A d \in Call : d # c => CallFine(d)'
  BY <1>1 DEF Fine, CallFine
<1>4. QED
  BY <1>2, <1>3 DEF Fine

\* A mutation that is sent is well formed.
LEMMA SendTyped ==
  ASSUME Fine, NEW t \in Tab, NEW c \in Call, NEW p \in Key,
         NEW op \in {"post", "put", "delete", "resolve"},
         NEW i \in Id \cup {NoId}, NEW f \in AnyForm, NEW b \in AnyEntry,
         op \in {"post", "put"} => f \in FormsOf(p) /\ Valid(p, f),
         op # "post" => i \in Id,
         Send(t, c, p, op, i, f, b)
  PROVE  Fine'
<1> USE DEF queries
<1> DEFINE q == [pc |-> "sent", tab |-> t, here |-> TRUE, page |-> p, op |-> op, id |-> i,
                 form |-> f, base |-> b, read |-> {}]
<1>1. q \in CallState
  BY KeyCases DEF CallState
<1>2. call' = [call EXCEPT ![c] = q] /\ UNCHANGED <<table, gone, held, tab, queries, refilled, tour>>
  BY DEF Send
<1>3. call'[c] = q
  BY <1>2 DEF Fine, TypeOK
<1>4. CallFine(c)'
  BY <1>3 DEF CallFine
<1>5. TypeOK /\ call' \in [Call -> CallState] => TypeOK'
  BY <1>2 DEF TypeOK
<1>6. \A u \in Tab : DialogFine(u)'
  BY <1>2 DEF Fine, DialogFine
<1> HIDE DEF q
<1>7. QED
  BY <1>1, <1>2, <1>4, <1>5, <1>6, CallStepTyped

LEMMA SubmitTyped ==
  ASSUME Fine, NEW t \in Tab, NEW c \in Call, NEW p \in Key, NEW v \in BOOLEAN,
         v => Valid(p, tab[t].form), Submit(t, c, p, v)
  PROVE  Fine'
<1> DEFINE op == IF tab[t].id = NoId THEN "post" ELSE "put"
<1>1. /\ tab[t].id \in Id \cup {NoId} /\ tab[t].form \in AnyForm /\ tab[t].base \in AnyEntry
      /\ tab[t].open /\ tab[t].page = p
  BY TabTyped DEF TabState, Submit, Shows
<1>2. tab[t].form \in FormsOf(p) /\ Valid(p, tab[t].form)
  BY <1>1, TabTyped DEF DialogFine, Submit
<1>3. op \in {"post", "put", "delete", "resolve"} /\ (op # "post" => tab[t].id \in Id)
  BY <1>1
<1>4. Send(t, c, p, op, tab[t].id, tab[t].form, tab[t].base)
  BY DEF Submit
<1> HIDE DEF op
<1>5. QED
  BY <1>1, <1>2, <1>3, <1>4, SendTyped

LEMMA PressTyped ==
  ASSUME Fine, NEW t \in Tab, NEW c \in Call, NEW p \in Key, NEW i \in Id,
         NEW op \in {"delete", "resolve"}, PressRow(t, c, p, op, i)
  PROVE  Fine'
<1>1. cached[t][p][i] \in AnyEntry /\ NoForm \in AnyForm
  BY EntryShown, FormIsAny DEF PressRow
<1>2. QED
  BY <1>1, SendTyped DEF PressRow

-----------------------------------------------------------------------------
(* The pages *)

LEMMA MonitorsPageTyped ==
  ASSUME Fine, NEW t \in Tab, MonitorsPageStep(t)
  PROVE  Fine'
<1> DEFINE start == IF tab[t].base = NoRow THEN BlankMonitor ELSE FormOfMonitor(tab[t].base)
<1>0. "monitors" \in Key /\ BlankMonitor \in FormsOf("monitors")
  BY DEF Key, FormsOf, BlankMonitor, MonitorForms, Text
<1>1. CASE OpenNew(t, "monitors", BlankMonitor)
  BY <1>0, <1>1, OpenNewTyped
<1>2. ASSUME NEW i \in Id,
             OpenEdit(t, "monitors", i, FormOfMonitor(cached[t]["monitors"][i]))
      PROVE  Fine'
  <2>1. EntryOf("monitors") \subseteq FormsOf("monitors")
    BY DEF EntryOf, RowOf, FormsOf, MonitorForms
  <2>2. QED
    BY <1>0, <1>2, <2>1, OpenEditTyped DEF FormOfMonitor
<1>3. CASE Fill(t, "monitors", start, FilledMonitor(t, start))
  <2>1. FilledMonitor(t, start) \subseteq FormsOf("monitors")
    BY DEF FilledMonitor, FormsOf
  <2> HIDE DEF start
  <2>2. QED
    BY <1>0, <1>3, <2>1, FillTyped
<1>4. ASSUME NEW c \in Call, Submit(t, c, "monitors", ValidMonitor(tab[t].form))
      PROVE  Fine'
  BY <1>0, <1>4, SubmitTyped DEF ValidMonitor, Valid
<1>5. ASSUME NEW c \in Call, NEW i \in Id, PressRow(t, c, "monitors", "delete", i)
      PROVE  Fine'
  BY <1>0, <1>5, PressTyped
<1>6. QED
  BY <1>1, <1>2, <1>3, <1>4, <1>5 DEF MonitorsPageStep

LEMMA GroupsPageTyped ==
  ASSUME Fine, NEW t \in Tab, GroupsPageStep(t)
  PROVE  Fine'
<1> DEFINE start == IF tab[t].base = NoRow THEN BlankGroup ELSE FormOfGroup(tab[t].base)
           fills == {f \in GroupForms : ValidGroup(f)}
<1>0. "groups" \in Key /\ BlankGroup \in FormsOf("groups")
  BY DEF Key, FormsOf, BlankGroup, GroupForms, Text
<1>1. CASE OpenNew(t, "groups", BlankGroup)
  BY <1>0, <1>1, OpenNewTyped
<1>2. ASSUME NEW i \in Id, OpenEdit(t, "groups", i, FormOfGroup(cached[t]["groups"][i]))
      PROVE  Fine'
  <2>1. EntryOf("groups") \subseteq FormsOf("groups")
    BY DEF EntryOf, RowOf, FormsOf, GroupForms
  <2>2. QED
    BY <1>0, <1>2, <2>1, OpenEditTyped DEF FormOfGroup
<1>3. CASE Fill(t, "groups", start, fills)
  <2>1. fills \subseteq FormsOf("groups")
    BY DEF FormsOf
  <2> HIDE DEF start, fills
  <2>2. QED
    BY <1>0, <1>3, <2>1, FillTyped
<1>4. ASSUME NEW c \in Call, Submit(t, c, "groups", ValidGroup(tab[t].form))
      PROVE  Fine'
  BY <1>0, <1>4, SubmitTyped DEF ValidGroup, Valid
<1>5. ASSUME NEW c \in Call, NEW i \in Id, PressRow(t, c, "groups", "delete", i)
      PROVE  Fine'
  BY <1>0, <1>5, PressTyped
<1>6. QED
  BY <1>1, <1>2, <1>3, <1>4, <1>5 DEF GroupsPageStep

LEMMA ChannelsPageTyped ==
  ASSUME Fine, NEW t \in Tab, ChannelsPageStep(t)
  PROVE  Fine'
<1> DEFINE start == IF tab[t].base = NoRow THEN BlankChannel ELSE FormOfChannel(tab[t].base)
<1>0. "channels" \in Key /\ BlankChannel \in FormsOf("channels")
  BY DEF Key, FormsOf, BlankChannel, ChannelForms, Text
<1>1. CASE OpenNew(t, "channels", BlankChannel)
  BY <1>0, <1>1, OpenNewTyped
<1>2. ASSUME NEW i \in Id,
             OpenEdit(t, "channels", i, FormOfChannel(cached[t]["channels"][i]))
      PROVE  Fine'
  <2>1. EntryOf("channels") \subseteq FormsOf("channels")
    BY DEF EntryOf, RowOf, FormsOf, ChannelForms
  <2>2. QED
    BY <1>0, <1>2, <2>1, OpenEditTyped DEF FormOfChannel
<1>3. CASE Fill(t, "channels", start, FilledChannel(start))
  <2>1. FilledChannel(start) \subseteq FormsOf("channels")
    BY DEF FilledChannel, FormsOf
  <2> HIDE DEF start
  <2>2. QED
    BY <1>0, <1>3, <2>1, FillTyped
<1>4. ASSUME NEW c \in Call, Submit(t, c, "channels", ValidChannel(tab[t].form))
      PROVE  Fine'
  BY <1>0, <1>4, SubmitTyped DEF ValidChannel, Valid
<1>5. ASSUME NEW c \in Call, NEW i \in Id, PressRow(t, c, "channels", "delete", i)
      PROVE  Fine'
  BY <1>0, <1>5, PressTyped
<1>6. QED
  BY <1>1, <1>2, <1>3, <1>4, <1>5 DEF ChannelsPageStep

LEMMA IncidentsPageTyped ==
  ASSUME Fine, NEW t \in Tab, IncidentsPageStep(t)
  PROVE  Fine'
<1> DEFINE fills == {f \in IncidentForms : ValidIncident(f)}
<1>0. "incidents" \in Key /\ BlankIncident \in FormsOf("incidents")
  BY DEF Key, FormsOf, BlankIncident, IncidentForms, Text
<1>1. CASE OpenNew(t, "incidents", BlankIncident)
  BY <1>0, <1>1, OpenNewTyped
<1>2. CASE Fill(t, "incidents", BlankIncident, fills)
  <2>1. fills \subseteq FormsOf("incidents")
    BY DEF FormsOf
  <2> HIDE DEF fills
  <2>2. QED
    BY <1>0, <1>2, <2>1, FillTyped
<1>3. ASSUME NEW c \in Call, Submit(t, c, "incidents", ValidIncident(tab[t].form))
      PROVE  Fine'
  BY <1>0, <1>3, SubmitTyped DEF ValidIncident, Valid
<1>4. ASSUME NEW c \in Call, NEW i \in Id, PressRow(t, c, "incidents", "resolve", i)
      PROVE  Fine'
  BY <1>0, <1>4, PressTyped
<1>5. QED
  BY <1>1, <1>2, <1>3, <1>4 DEF IncidentsPageStep

LEMMA PagesPageTyped ==
  ASSUME Fine, NEW t \in Tab, PagesPageStep(t)
  PROVE  Fine'
<1> DEFINE start == IF tab[t].base = NoRow THEN BlankPage ELSE FormOfPage(tab[t].base)
<1>0. "pages" \in Key /\ BlankPage \in FormsOf("pages")
  BY DEF Key, FormsOf, BlankPage, PageForms, Text, Slug
<1>1. CASE OpenNew(t, "pages", BlankPage)
  BY <1>0, <1>1, OpenNewTyped
<1>2. ASSUME NEW i \in Id, OpenEdit(t, "pages", i, FormOfPage(cached[t]["pages"][i]))
      PROVE  Fine'
  <2>1. ASSUME NEW e \in EntryOf("pages") PROVE FormOfPage(e) \in FormsOf("pages")
    <3>1. e.title \in Text /\ e.slug \in Slug
      BY DEF EntryOf
    <3>2. FormOfPage(e) \in PageForms
      BY <3>1 DEF FormOfPage, PageForms
    <3>3. QED
      BY <3>2 DEF FormsOf
  <2>2. QED
    BY <1>0, <1>2, <2>1, OpenEditTyped
<1>3. CASE Fill(t, "pages", start, FilledPage(t, start))
  <2>1. FilledPage(t, start) \subseteq FormsOf("pages")
    BY DEF FilledPage, FormsOf
  <2> HIDE DEF start
  <2>2. QED
    BY <1>0, <1>3, <2>1, FillTyped
<1>4. ASSUME NEW c \in Call, Submit(t, c, "pages", ValidPage(tab[t].form))
      PROVE  Fine'
  BY <1>0, <1>4, SubmitTyped DEF ValidPage, Valid
<1>5. ASSUME NEW c \in Call, NEW i \in Id, PressRow(t, c, "pages", "delete", i)
      PROVE  Fine'
  BY <1>0, <1>5, PressTyped
<1>6. QED
  BY <1>1, <1>2, <1>3, <1>4, <1>5 DEF PagesPageStep

LEMMA VisitTyped ==
  ASSUME Fine, NEW t \in Tab, NEW p \in AdminPages, Visit(t, p)
  PROVE  Fine'
<1>1. UNCHANGED <<table, gone, held, cached, foreign, refilled, tour>> /\ p \in tour.pages
  BY DEF Visit
<1>2. /\ tab' \in [Tab -> TabState]
      /\ \A u \in Tab : tab'[u] = IF u = t THEN Closed(p) ELSE tab[u]
  BY ClosedFine DEF Visit, Fine, TypeOK
<1>3. /\ fetch' \in [Tab -> [Key -> FetchState]]
      /\ \A u \in Tab, k \in Key : fetch'[u][k] \in {fetch[u][k], Asked}
  BY NoRequest DEF Visit, Fine, TypeOK
<1>4. /\ call' \in [Call -> CallState]
      /\ \A c \in Call : \E b \in BOOLEAN : call'[c] = [call[c] EXCEPT !.here = b]
  <2>1. call \in [Call -> CallState]
    BY DEF Fine, TypeOK
  <2>2. \A c \in Call : call[c] = [call[c] EXCEPT !.here = @] /\ call[c].here \in BOOLEAN
    BY <2>1 DEF CallState
  <2>3. \A c \in Call : \E b \in BOOLEAN : call'[c] = [call[c] EXCEPT !.here = b]
    BY <2>2 DEF Visit
  <2>4. \A q \in CallState, b \in BOOLEAN : [q EXCEPT !.here = b] \in CallState
    BY DEF CallState
  <2>5. ASSUME NEW c \in Call PROVE call'[c] \in CallState
    <3>1. PICK b \in BOOLEAN : call'[c] = [call[c] EXCEPT !.here = b]
      BY <2>3
    <3>2. call[c] \in CallState
      BY <2>1
    <3>3. QED
      BY <2>4, <3>1, <3>2
  <2>6. QED
    BY <2>3, <2>5 DEF Visit
<1>5. \A u \in Tab : tab'[u].page \in tour.pages
  BY <1>1, <1>2, TabTyped, ClosedFine
<1>6. \A u \in Tab, k \in Key : \A l \in {cached'[u][k], fetch'[u][k].rows} \ {NoList} :
        \A i \in Id : l[i] \in EntryOf(k) \cup {NoRow}
  BY <1>1, <1>3, NoRequest DEF Fine, TypeOK
<1>7. TypeOK'
  BY <1>1, <1>2, <1>3, <1>4, <1>5, <1>6 DEF Fine, TypeOK
<1>8. \A u \in Tab : DialogFine(u)'
  BY <1>2, ClosedFine DEF Fine, DialogFine
<1>9. \A c \in Call : CallFine(c)'
  <2> SUFFICES ASSUME NEW c \in Call PROVE CallFine(c)'
    OBVIOUS
  <2>1. PICK b \in BOOLEAN : call'[c] = [call[c] EXCEPT !.here = b]
    BY <1>4
  <2>2. /\ call'[c].pc = call[c].pc /\ call'[c].tab = call[c].tab
        /\ call'[c].page = call[c].page /\ call'[c].op = call[c].op
        /\ call'[c].id = call[c].id /\ call'[c].form = call[c].form
        /\ call'[c].read = call[c].read
    BY <2>1, CallTyped DEF CallState
  <2>3. QED
    BY <1>1, <2>2, CallTyped DEF CallFine
<1>10. QED
  BY <1>7, <1>8, <1>9 DEF Fine

-----------------------------------------------------------------------------
(* Answers *)

\* An answered mutation.
LEMMA AnswerIs ==
  ASSUME Fine, NEW c \in Call, Answer(c)
  PROVE  LET q == [Unsent EXCEPT !.pc = "answered"]
         IN  /\ q \in CallState /\ call' = [call EXCEPT ![c] = q]
             /\ call' \in [Call -> CallState] /\ call'[c] = q /\ CallFine(c)'
<1> DEFINE q == [Unsent EXCEPT !.pc = "answered"]
<1>1. NoRow \in AnyEntry /\ NoForm \in AnyForm
  BY DEF AnyEntry, AnyRow, AnyForm
<1>2. q \in CallState /\ q.pc = "answered"
  BY <1>1 DEF CallState, Unsent, AdminPages
<1>3. call' = [call EXCEPT ![c] = q]
  BY DEF Answer
<1> HIDE DEF q
<1>4. call' \in [Call -> CallState] /\ call'[c] = q
  BY <1>2, <1>3 DEF Fine, TypeOK
<1>5. CallFine(c)'
  BY <1>2, <1>4 DEF CallFine
<1>6. QED
  BY <1>2, <1>3, <1>4, <1>5 DEF q

LEMMA SucceedTyped ==
  ASSUME Fine, NEW c \in Call, Succeed(c)
  PROVE  Fine'
<1> DEFINE t == call[c].tab
           k == call[c].page
           q == [Unsent EXCEPT !.pc = "answered"]
<1>1. t \in Tab /\ k \in Key
  BY CallTyped DEF CallFine, Succeed
<1>2. /\ q \in CallState /\ call' = [call EXCEPT ![c] = q] /\ CallFine(c)'
      /\ UNCHANGED <<table, gone, held, cached, refilled, tour>>
  BY AnswerIs DEF Succeed
<1>3. /\ tab' \in [Tab -> TabState]
      /\ \A u \in Tab : tab'[u] \in {tab[u], Closed(tab[u].page)}
  <2>1. Closed(tab[t].page) \in TabState
    BY <1>1, TabTyped, ClosedFine
  <2>2. tab' \in {tab, [tab EXCEPT ![t] = Closed(tab[t].page)]}
    BY DEF Succeed
  <2>3. QED
    BY <1>1, <2>1, <2>2 DEF Fine, TypeOK
<1>4. /\ foreign' \in [Tab -> SUBSET Key]
      /\ fetch' \in [Tab -> [Key -> FetchState]]
      /\ \A u \in Tab, l \in Key : fetch'[u][l] \in {fetch[u][l], Asked}
  <2>1. foreign \in [Tab -> SUBSET Key] /\ fetch \in [Tab -> [Key -> FetchState]]
    BY DEF Fine, TypeOK
  <2>2. CASE Refetched(t, k) /\ UNCHANGED foreign
    BY <1>1, <2>1, <2>2, NoRequest DEF Refetched
  <2>3. CASE foreign' = [foreign EXCEPT ![t] = @ \cup {k}] /\ UNCHANGED fetch
    BY <1>1, <2>1, <2>3
  <2>4. QED
    BY <2>2, <2>3 DEF Succeed
<1>5. \A u \in Tab : tab'[u].page \in tour.pages /\ DialogFine(u)'
  BY <1>3, TabTyped, ClosedFine DEF DialogFine
<1>6. \A u \in Tab, l \in Key : \A r \in {cached[u][l], fetch'[u][l].rows} \ {NoList} :
        \A i \in Id : r[i] \in EntryOf(l) \cup {NoRow}
  BY <1>4, NoRequest DEF Fine, TypeOK
<1>7. TypeOK /\ call' \in [Call -> CallState] => TypeOK'
  BY <1>2, <1>3, <1>4, <1>5, <1>6 DEF TypeOK
<1> HIDE DEF q
<1>8. QED
  BY <1>2, <1>5, <1>7, CallStepTyped

LEMMA FailTyped ==
  ASSUME Fine, NEW c \in Call, Fail(c)
  PROVE  Fine'
<1> USE DEF queries
<1> DEFINE q == [Unsent EXCEPT !.pc = "answered"]
<1>1. UNCHANGED <<table, gone, held, tab, queries, refilled, tour>>
  BY DEF Fail
<1>2. q \in CallState /\ call' = [call EXCEPT ![c] = q] /\ CallFine(c)'
  BY <1>1, AnswerIs DEF Fail
<1>3. TypeOK /\ call' \in [Call -> CallState] => TypeOK'
  BY <1>1 DEF TypeOK
<1>4. \A t \in Tab : DialogFine(t)'
  BY <1>1 DEF Fine, DialogFine
<1> HIDE DEF q
<1>5. QED
  BY <1>1, <1>2, <1>3, <1>4, CallStepTyped

LEMMA LoseAnswerTyped ==
  ASSUME Fine, NEW c \in Call, LoseAnswer(c)
  PROVE  Fine'
<1> DEFINE q == [Unsent EXCEPT !.pc = "answered"]
<1>1. UNCHANGED <<table, gone, held, tab, cached, fetch, refilled, tour>>
  BY DEF LoseAnswer
<1>2. q \in CallState /\ call' = [call EXCEPT ![c] = q] /\ CallFine(c)'
  BY <1>1, AnswerIs DEF LoseAnswer
<1>3. call[c].tab \in Tab /\ call[c].page \in Key
  BY CallTyped DEF CallFine, LoseAnswer
<1>4. foreign' \in [Tab -> SUBSET Key]
  BY <1>3 DEF LoseAnswer, Fine, TypeOK
<1>5. TypeOK /\ call' \in [Call -> CallState] => TypeOK'
  BY <1>1, <1>4 DEF TypeOK
<1>6. \A t \in Tab : DialogFine(t)'
  BY <1>1 DEF Fine, DialogFine
<1> HIDE DEF q
<1>7. QED
  BY <1>1, <1>2, <1>5, <1>6, CallStepTyped

-----------------------------------------------------------------------------
(* Routes *)

LEMMA RouteTyped ==
  ASSUME Fine, NEW c \in Call, NEW q \in CallState,
         call' = [call EXCEPT ![c] = q], CallFine(c)',
         UNCHANGED <<held, tab, cached, fetch, tour>>,
         table' \in [Key -> [Id -> AnyRow]],
         \A k \in Key, i \in Id : table'[k][i] \in RowOf(k) \cup {NoRow},
         \A i \in Id : table["pages"][i] \in RowOf("pages")
                       => table'["pages"][i] \in RowOf("pages"),
         gone' \in [Key -> SUBSET Id], foreign' \in [Tab -> SUBSET Key],
         refilled' \subseteq Id
  PROVE  Fine'
<1>1. TypeOK /\ call' \in [Call -> CallState] => TypeOK'
  BY DEF TypeOK
<1>2. \A t \in Tab : DialogFine(t)'
  BY DEF Fine, DialogFine
<1>3. QED
  BY <1>1, <1>2, CallStepTyped

LEMMA ServerTyped ==
  ASSUME Fine
  PROVE  /\ table \in [Key -> [Id -> AnyRow]] /\ gone \in [Key -> SUBSET Id]
         /\ foreign \in [Tab -> SUBSET Key] /\ refilled \subseteq Id
         /\ held \in [Worker -> HeldState]
         /\ \A k \in Key, i \in Id : table[k][i] \in RowOf(k) \cup {NoRow}
BY DEF Fine, TypeOK

LEMMA WrittenTyped ==
  ASSUME Fine, NEW c \in Call, NEW ks \in SUBSET Key, Written(c, ks)
  PROVE  foreign' \in [Tab -> SUBSET Key]
BY ServerTyped DEF Written

\* The answer of a request whose row, if it is one of a page, stays.
LEMMA GotoTyped ==
  ASSUME Fine, NEW c \in Call, call[c].pc \notin {"unsent", "answered"}, NEW pc \in {"ok", "failed"},
         Goto(c, pc)
  PROVE  LET q == [call[c] EXCEPT !.pc = pc]
         IN  q \in CallState /\ call' = [call EXCEPT ![c] = q] /\ CallFine(c)'
<1> DEFINE q == [call[c] EXCEPT !.pc = pc]
<1>1. call[c] \in CallState /\ CallFine(c)
  BY CallTyped
<1>2. /\ q \in CallState /\ q.pc = pc /\ q.tab = call[c].tab
      /\ q.page = call[c].page /\ q.op = call[c].op /\ q.id = call[c].id
      /\ q.form = call[c].form /\ q.read = call[c].read
  BY <1>1 DEF CallState
<1>3. call' = [call EXCEPT ![c] = q]
  BY DEF Goto, Fine, TypeOK
<1>4. call'[c] = q
  BY <1>3 DEF Fine, TypeOK
<1> HIDE DEF q
<1>5. CallFine(c)'
  BY <1>1, <1>2, <1>4 DEF CallFine
<1>6. QED
  BY <1>2, <1>3, <1>5 DEF q

LEMMA RefuseTyped ==
  ASSUME Fine, NEW c \in Call, call[c].pc \notin {"unsent", "answered"}, Refuse(c),
         UNCHANGED <<held, tab, cached, fetch, tour>>
  PROVE  Fine'
<1> DEFINE q == [call[c] EXCEPT !.pc = "failed"]
<1>1. q \in CallState /\ call' = [call EXCEPT ![c] = q] /\ CallFine(c)'
  BY GotoTyped DEF Refuse
<1>2. UNCHANGED <<table, gone, foreign, refilled>>
  BY DEF Refuse
<1> HIDE DEF q
<1>3. QED
  BY <1>1, <1>2, ServerTyped, RouteTyped

\* A row is written.
LEMMA RowWritten ==
  ASSUME Fine, NEW k \in Key, NEW i \in Id, NEW r \in RowOf(k),
         table' = [table EXCEPT ![k][i] = r]
  PROVE  /\ table' \in [Key -> [Id -> AnyRow]]
         /\ \A l \in Key, j \in Id :
              table'[l][j] = IF l = k /\ j = i THEN r ELSE table[l][j]
         /\ \A l \in Key, j \in Id : table'[l][j] \in RowOf(l) \cup {NoRow}
         /\ \A j \in Id : table["pages"][j] \in RowOf("pages")
                          => table'["pages"][j] \in RowOf("pages")
<1>1. r \in AnyRow
  BY RowIsAny
<1>2. /\ table' \in [Key -> [Id -> AnyRow]]
      /\ \A l \in Key, j \in Id : table'[l][j] = IF l = k /\ j = i THEN r ELSE table[l][j]
  BY <1>1, ServerTyped
<1>3. "pages" \in Key
  BY DEF Key
<1>4. QED
  BY <1>2, <1>3, ServerTyped

\* The group of a monitor that is written.
LEMMA RefillsTyped ==
  ASSUME Fine, NEW m \in Id, NEW r \in RowOf("monitors"), Refills(m, r)
  PROVE  refilled' \subseteq Id
<1>1. r.group \in Id \cup {NoGroup}
  BY DEF RowOf
<1>2. QED
  BY <1>1, ServerTyped DEF Refills

LEMMA StoreTyped ==
  ASSUME Fine, NEW c \in Call, call[c].pc \notin {"unsent", "answered"}, NEW i \in Id,
         NEW r \in RowOf(call[c].page), Store(c, i, r), gone' \in [Key -> SUBSET Id],
         UNCHANGED <<held, tab, cached, fetch, tour>>
  PROVE  Fine'
<1> DEFINE q == [call[c] EXCEPT !.pc = "ok"]
<1>1. call[c].page \in Key
  BY CallTyped DEF CallFine
<1>2. q \in CallState /\ call' = [call EXCEPT ![c] = q] /\ CallFine(c)'
  BY GotoTyped DEF Store
<1>3. foreign' \in [Tab -> SUBSET Key]
  BY <1>1, WrittenTyped DEF Store
<1>4. table' = [table EXCEPT ![call[c].page][i] = r] /\ refilled' \subseteq Id
  BY RefillsTyped, ServerTyped DEF Store
<1> HIDE DEF q
<1>5. QED
  BY <1>1, <1>2, <1>3, <1>4, RowWritten, ServerTyped, RouteTyped

LEMMA SoftDeleteTyped ==
  ASSUME Fine, NEW c \in Call, call[c].pc \notin {"unsent", "answered"}, call[c].id \in Id, SoftDelete(c),
         UNCHANGED <<held, tab, cached, fetch, tour>>
  PROVE  Fine'
<1> DEFINE q == [call[c] EXCEPT !.pc = "ok"]
<1>1. call[c].page \in Key
  BY CallTyped DEF CallFine
<1>2. q \in CallState /\ call' = [call EXCEPT ![c] = q] /\ CallFine(c)'
  BY GotoTyped DEF SoftDelete
<1>3. /\ UNCHANGED <<table, refilled>>
      /\ foreign' \in [Tab -> SUBSET Key]
      /\ gone' \in [Key -> SUBSET Id]
  BY <1>1, WrittenTyped, ServerTyped DEF SoftDelete
<1> HIDE DEF q
<1>4. QED
  BY <1>2, <1>3, ServerTyped, RouteTyped

\* A request whose handler stops at its first statement, or at its second.
LEMMA MayFailTyped ==
  ASSUME Fine, NEW c \in Call, call[c].pc \notin {"unsent", "answered"}, MayFail(c) \/ HalfMayFail(c),
         UNCHANGED <<held, tab, cached, fetch, tour>>
  PROVE  Fine'
BY RefuseTyped DEF MayFail, HalfMayFail

LEMMA InsertTyped ==
  ASSUME Fine, NEW c \in Call, call[c].pc \notin {"unsent", "answered"},
         NEW r \in RowOf(call[c].page), Insert(c, r), UNCHANGED <<held, tab, cached, fetch, tour>>
  PROVE  Fine'
BY StoreTyped, ServerTyped DEF Insert

LEMMA SaveTyped ==
  ASSUME Fine, NEW c \in Call, call[c].pc \notin {"unsent", "answered"}, call[c].id \in Id,
         NEW r \in RowOf(call[c].page), Save(c, r), UNCHANGED <<held, tab, cached, fetch, tour>>
  PROVE  Fine'
<1>1. CASE /\ Store(c, call[c].id, r)
           /\ gone' = [gone EXCEPT ![call[c].page] = @ \ {call[c].id}]
  <2>1. gone' \in [Key -> SUBSET Id]
    BY <1>1, ServerTyped
  <2>2. QED
    BY <1>1, <2>1, StoreTyped
<1>2. CASE MayFail(c)
  BY <1>2, MayFailTyped
<1>3. QED
  BY <1>1, <1>2 DEF Save

\* What a request that is served carries.
LEMMA ServedFine ==
  ASSUME Fine, NEW c \in Call, NEW p, NEW op \in {"post", "put", "delete", "resolve"},
         Serves(c, p, op)
  PROVE  /\ call[c].pc = "sent" /\ call[c].page = p /\ call[c].op = op /\ p \in Key
         /\ op \in {"post", "put"} => call[c].form \in FormsOf(p) /\ Valid(p, call[c].form)
         /\ op # "post" => call[c].id \in Id
BY CallTyped DEF CallFine, Serves

\* The handler of a PUT reads its row.
LEMMA ReadTyped ==
  ASSUME Fine, NEW c \in Call, NEW p \in {"monitors", "groups", "channels"},
         NEW x \in Id \cup {NoGroup} \cup SUBSET Id,
         p = "monitors" => x \in Id \cup {NoGroup},
         Read(c, p, x), UNCHANGED <<held, tab, cached, fetch, tour>>
  PROVE  Fine'
<1>1. call[c].pc = "sent" /\ call[c].page = p /\ call[c].op = "put" /\ call[c].id \in Id
  BY ServedFine DEF Read
<1>2. CASE Refuse(c) \/ MayFail(c)
  BY <1>1, <1>2, RefuseTyped, MayFailTyped
<1>3. CASE /\ call' = [call EXCEPT ![c].pc = "read", ![c].read = x]
           /\ UNCHANGED <<table, gone, foreign, refilled>>
  <2> DEFINE q == [call[c] EXCEPT !.pc = "read", !.read = x]
  <2>1. /\ q \in CallState /\ q.pc = "read" /\ q.tab = call[c].tab /\ q.page = p
        /\ q.op = "put" /\ q.id = call[c].id /\ q.form = call[c].form /\ q.read = x
    BY <1>1, CallTyped DEF CallState
  <2>2. call' = [call EXCEPT ![c] = q]
    BY <1>3 DEF Fine, TypeOK
  <2>3. call'[c] = q
    BY <2>1, <2>2 DEF Fine, TypeOK
  <2> HIDE DEF q
  <2>4. CallFine(c)'
    BY <1>1, <2>1, <2>3, CallTyped DEF CallFine
  <2>5. QED
    BY <1>3, <2>1, <2>2, <2>4, ServerTyped, RouteTyped
<1>4. QED
  BY <1>2, <1>3 DEF Read

\* What a handler that is about to save has in hand.
LEMMA ReadFine ==
  ASSUME Fine, NEW c \in Call, NEW p \in Key \ {"pages"}, HasRead(c, p)
  PROVE  /\ call[c].pc = "read" /\ call[c].page = p /\ call[c].op = "put"
         /\ call[c].form \in FormsOf(p) /\ Valid(p, call[c].form)
         /\ call[c].id \in Id
         /\ p = "monitors" => call[c].read \in Id \cup {NoGroup}
BY CallTyped DEF CallFine, HasRead

LEMMA GroupIdTyped ==
  ASSUME NEW g \in Id \cup {Unset}
  PROVE  GroupId(g) \in Id \cup {NoGroup}
BY DEF GroupId

LEMMA PreloadedTyped ==
  ASSUME Fine, NEW i \in Id, Exists("monitors", i)
  PROVE  Preloaded(i) \in Id \cup {NoGroup}
<1>1. table["monitors"][i] \in RowOf("monitors")
  BY ServerTyped DEF Exists, Key
<1>2. table["monitors"][i].group \in Id \cup {NoGroup}
  BY <1>1 DEF RowOf
<1>3. QED
  BY <1>2 DEF Preloaded

LEMMA MonitorSavedTyped ==
  ASSUME Fine, NEW c \in Call, HasRead(c, "monitors")
  PROVE  MonitorSaved(c) \in RowOf("monitors")
<1> DEFINE f == call[c].form
           g == IF call[c].read # NoGroup THEN call[c].read ELSE GroupId(f.group)
           b == Flag(c, f.enabled)
<1>1. /\ f \in FormsOf("monitors") /\ ValidMonitor(f)
      /\ call[c].read \in Id \cup {NoGroup}
  BY ReadFine DEF Valid, Key
<1>2. g \in Id \cup {NoGroup}
  BY <1>1, MonitorForm, GroupIdTyped
<1>3. b \in BOOLEAN
  BY DEF Flag
<1>4. MonitorSaved(c) = [f EXCEPT !.group = g, !.enabled = b]
  BY DEF MonitorSaved
<1>5. \A h \in Id \cup {NoGroup}, e \in BOOLEAN :
        [f EXCEPT !.group = h, !.enabled = e] \in RowOf("monitors")
  BY <1>1, MonitorForm
<1> HIDE DEF f, g, b
<1>6. QED
  BY <1>2, <1>3, <1>4, <1>5

LEMMA MonitorRoutesTyped ==
  ASSUME Fine, NEW c \in Call, MonitorRoutes(c), UNCHANGED <<held, tab, cached, fetch, tour>>
  PROVE  Fine'
<1> DEFINE f == call[c].form
<1>1. CASE PostMonitor(c)
  <2>1. call[c].pc = "sent" /\ call[c].page = "monitors" /\ f \in FormsOf("monitors")
        /\ ValidMonitor(f)
    BY <1>1, ServedFine DEF PostMonitor, Valid
  <2>2. [f EXCEPT !.group = GroupId(f.group), !.enabled = TRUE] \in RowOf("monitors")
    BY <2>1, MonitorForm, GroupIdTyped
  <2>3. CASE Refuse(c)
    BY <2>1, <2>3, RefuseTyped
  <2>4. CASE Insert(c, [f EXCEPT !.group = GroupId(f.group), !.enabled = TRUE])
    BY <2>1, <2>2, <2>4, InsertTyped
  <2>5. CASE MayFail(c)
    BY <2>1, <2>5, MayFailTyped
  <2>6. QED
    BY <1>1, <2>3, <2>4, <2>5 DEF PostMonitor
<1>2. CASE ReadMonitor(c)
  <2>1. call[c].id \in Id
    BY <1>2, ServedFine DEF ReadMonitor, Read
  <2>2. Preloaded(call[c].id) \in Id \cup {NoGroup} \/ ~Exists("monitors", call[c].id)
    BY <2>1, PreloadedTyped
  <2>3. CASE Exists("monitors", call[c].id)
    BY <1>2, <2>2, <2>3, ReadTyped DEF ReadMonitor
  <2>4. CASE ~Exists("monitors", call[c].id)
    BY <1>2, <2>4, RefuseTyped, MayFailTyped DEF ReadMonitor, Read, Serves
  <2>5. QED
    BY <2>3, <2>4
<1>3. CASE SaveMonitor(c)
  <2>1. /\ call[c].pc = "read" /\ call[c].page = "monitors" /\ call[c].id \in Id
        /\ MonitorSaved(c) \in RowOf("monitors")
    BY <1>3, ReadFine, MonitorSavedTyped DEF SaveMonitor, Key
  <2>2. QED
    BY <1>3, <2>1, SaveTyped DEF SaveMonitor
<1>4. CASE DeleteMonitor(c)
  BY <1>4, ServedFine, SoftDeleteTyped, MayFailTyped DEF DeleteMonitor
<1>5. QED
  BY <1>1, <1>2, <1>3, <1>4 DEF MonitorRoutes

LEMMA ChannelRoutesTyped ==
  ASSUME Fine, NEW c \in Call, ChannelRoutes(c), UNCHANGED <<held, tab, cached, fetch, tour>>
  PROVE  Fine'
<1>1. CASE PostChannel(c)
  <2>1. call[c].pc = "sent" /\ call[c].page = "channels" /\ call[c].form \in RowOf("channels")
    BY <1>1, ServedFine, ChannelForm DEF PostChannel, Valid
  <2>2. QED
    BY <1>1, <2>1, InsertTyped, MayFailTyped DEF PostChannel
<1>2. CASE ReadChannel(c)
  BY <1>2, ReadTyped DEF ReadChannel
<1>3. CASE SaveChannel(c)
  <2> DEFINE b == Flag(c, call[c].form.enabled)
             r == [call[c].form EXCEPT !.enabled = b]
  <2>1. /\ call[c].pc = "read" /\ call[c].page = "channels" /\ call[c].id \in Id
        /\ call[c].form \in RowOf("channels")
    BY <1>3, ReadFine, ChannelForm DEF SaveChannel, Valid, Key
  <2>2. r \in RowOf("channels")
    <3>1. b \in BOOLEAN
      BY DEF Flag
    <3> HIDE DEF b
    <3>2. QED
      BY <2>1, <3>1 DEF RowOf
  <2>3. Save(c, r)
    BY <1>3 DEF SaveChannel
  <2> HIDE DEF r
  <2>4. QED
    BY <2>1, <2>2, <2>3, SaveTyped
<1>4. CASE DeleteChannel(c)
  BY <1>4, ServedFine, SoftDeleteTyped, MayFailTyped DEF DeleteChannel
<1>5. QED
  BY <1>1, <1>2, <1>3, <1>4 DEF ChannelRoutes

LEMMA IncidentRoutesTyped ==
  ASSUME Fine, NEW c \in Call, IncidentRoutes(c), UNCHANGED <<held, tab, cached, fetch, tour>>
  PROVE  Fine'
<1>1. CASE PostIncident(c)
  <2>1. /\ call[c].pc = "sent" /\ call[c].page = "incidents"
        /\ call[c].form \in FormsOf("incidents") /\ ValidIncident(call[c].form)
    BY <1>1, ServedFine DEF PostIncident, Valid
  <2>2. IncidentRow(call[c].form, "ongoing") \in RowOf("incidents")
    BY <2>1, IncidentForm
  <2>3. QED
    BY <1>1, <2>1, <2>2, InsertTyped, MayFailTyped DEF PostIncident
<1>2. CASE ResolveIncident(c)
  <2> DEFINE r == table["incidents"][call[c].id]
  <2>1. call[c].pc = "sent" /\ call[c].page = "incidents" /\ call[c].id \in Id
    BY <1>2, ServedFine DEF ResolveIncident
  <2>2. ASSUME Exists("incidents", call[c].id)
        PROVE  [r EXCEPT !.status = "resolved"] \in RowOf("incidents")
    <3>1. r \in RowOf("incidents")
      BY <2>1, <2>2, ServerTyped DEF Exists, Key
    <3>2. QED
      BY <3>1 DEF RowOf
  <2>3. CASE /\ Exists("incidents", call[c].id) /\ UNCHANGED gone
             /\ Store(c, call[c].id, [r EXCEPT !.status = "resolved"])
    BY <2>1, <2>2, <2>3, StoreTyped, ServerTyped
  <2>4. CASE Refuse(c) \/ MayFail(c)
    BY <2>1, <2>4, RefuseTyped, MayFailTyped
  <2>5. QED
    BY <1>2, <2>3, <2>4 DEF ResolveIncident
<1>3. QED
  BY <1>1, <1>2 DEF IncidentRoutes

\* The monitors leave group g.
LEMMA Ungrouped ==
  ASSUME Fine, NEW g,
         table' = [table EXCEPT !["monitors"] = [m \in Id |->
                     IF Exists("monitors", m) /\ @[m].group = g
                     THEN [@[m] EXCEPT !.group = NoGroup] ELSE @[m]]]
  PROVE  /\ table' \in [Key -> [Id -> AnyRow]]
         /\ \A k \in Key \ {"monitors"} : table'[k] = table[k]
         /\ \A k \in Key, i \in Id : table'[k][i] \in RowOf(k) \cup {NoRow}
         /\ \A i \in Id :
              table'["monitors"][i] =
                IF Exists("monitors", i) /\ table["monitors"][i].group = g
                THEN [table["monitors"][i] EXCEPT !.group = NoGroup]
                ELSE table["monitors"][i]
         /\ \A i \in Id : Exists("monitors", i) /\ table["monitors"][i].group = g
                          => table'["monitors"][i].group = NoGroup
<1> DEFINE n(i) == IF Exists("monitors", i) /\ table["monitors"][i].group = g
                   THEN [table["monitors"][i] EXCEPT !.group = NoGroup]
                   ELSE table["monitors"][i]
<1>1. "monitors" \in Key
  BY DEF Key
<1>2. /\ \A k \in Key \ {"monitors"} : table'[k] = table[k]
      /\ table'["monitors"] = [i \in Id |-> n(i)]
  BY <1>1, ServerTyped
<1>3. ASSUME NEW i \in Id
      PROVE  /\ n(i) \in RowOf("monitors") \cup {NoRow}
             /\ Exists("monitors", i) /\ table["monitors"][i].group = g => n(i).group = NoGroup
  <2>1. table["monitors"][i] \in RowOf("monitors") \cup {NoRow}
    BY <1>1, ServerTyped
  <2>2. CASE Exists("monitors", i) /\ table["monitors"][i].group = g
    <3>1. table["monitors"][i] \in RowOf("monitors")
      BY <2>1, <2>2 DEF Exists
    <3>2. \A r \in RowOf("monitors") : /\ [r EXCEPT !.group = NoGroup] \in RowOf("monitors")
                                       /\ [r EXCEPT !.group = NoGroup].group = NoGroup
      BY DEF RowOf
    <3>3. QED
      BY <2>2, <3>1, <3>2
  <2>3. CASE ~(Exists("monitors", i) /\ table["monitors"][i].group = g)
    BY <2>1, <2>3
  <2>4. QED
    BY <2>2, <2>3
<1> HIDE DEF n
<1>4. \A i \in Id : n(i) \in AnyRow
  BY <1>1, <1>3, RowIsAny
<1>5. /\ \A i \in Id : table'["monitors"][i] = n(i)
      /\ table'["monitors"] \in [Id -> AnyRow]
  BY <1>2, <1>4
<1>6. table' \in [Key -> [Id -> AnyRow]]
  <2>1. \A k \in Key : table'[k] \in [Id -> AnyRow]
    BY <1>2, <1>5, ServerTyped
  <2>2. DOMAIN table' = Key /\ table' = [k \in Key |-> table'[k]]
    BY ServerTyped
  <2>3. QED
    BY <2>1, <2>2
<1>7. \A k \in Key, i \in Id : table'[k][i] \in RowOf(k) \cup {NoRow}
  <2> SUFFICES ASSUME NEW k \in Key, NEW i \in Id PROVE table'[k][i] \in RowOf(k) \cup {NoRow}
    OBVIOUS
  <2>1. CASE k = "monitors" BY <1>3, <1>5, <2>1
  <2>2. CASE k # "monitors" BY <1>2, <2>2, ServerTyped
  <2>3. QED
    BY <2>1, <2>2
<1>8. QED
  BY <1>2, <1>3, <1>5, <1>6, <1>7 DEF n

LEMMA GroupRoutesTyped ==
  ASSUME Fine, NEW c \in Call, GroupRoutes(c), UNCHANGED <<held, tab, cached, fetch, tour>>
  PROVE  Fine'
<1>1. CASE PostGroup(c)
  <2>1. /\ call[c].pc = "sent" /\ call[c].page = "groups"
        /\ call[c].form \in FormsOf("groups") /\ ValidGroup(call[c].form)
    BY <1>1, ServedFine DEF PostGroup, Valid
  <2>2. call[c].form \in RowOf("groups")
    BY <2>1, GroupForm
  <2>3. QED
    BY <1>1, <2>1, <2>2, InsertTyped, MayFailTyped DEF PostGroup
<1>2. CASE ReadGroup(c)
  BY <1>2, ReadTyped DEF ReadGroup
<1>3. CASE SaveGroup(c)
  <2>1. /\ call[c].pc = "read" /\ call[c].page = "groups" /\ call[c].id \in Id
        /\ call[c].form \in RowOf("groups")
    BY <1>3, ReadFine, GroupForm DEF SaveGroup, Valid, Key
  <2>2. QED
    BY <1>3, <2>1, SaveTyped DEF SaveGroup
<1>4. CASE UngroupMonitors(c)
  <2> DEFINE q == [call[c] EXCEPT !.pc = "half"]
  <2>1. call[c].pc = "sent" /\ call[c].page = "groups" /\ call[c].op = "delete"
        /\ call[c].id \in Id /\ call[c] \in CallState /\ CallFine(c)
    BY <1>4, ServedFine, CallTyped DEF UngroupMonitors
  <2>2. /\ q \in CallState /\ q.pc = "half" /\ q.tab = call[c].tab
        /\ q.page = call[c].page /\ q.op = call[c].op /\ q.id = call[c].id
    BY <2>1 DEF CallState
  <2>3. call' = [call EXCEPT ![c] = q]
    BY <1>4 DEF UngroupMonitors, Goto, Fine, TypeOK
  <2>4. CallFine(c)'
    <3>1. call'[c] = q
      BY <2>3 DEF Fine, TypeOK
    <3> HIDE DEF q
    <3>2. QED
      BY <2>1, <2>2, <3>1 DEF CallFine
  <2>5. refilled' \subseteq Id /\ gone' \in [Key -> SUBSET Id]
    BY <1>4, <2>1, ServerTyped DEF UngroupMonitors
  <2>6. CASE /\ table' = [table EXCEPT !["monitors"] = [m \in Id |->
                            IF Exists("monitors", m) /\ @[m].group = call[c].id
                            THEN [@[m] EXCEPT !.group = NoGroup] ELSE @[m]]]
             /\ Written(c, {"monitors"})
    <3>1. foreign' \in [Tab -> SUBSET Key]
      BY <2>6, WrittenTyped DEF Key
    <3>2. /\ table' \in [Key -> [Id -> AnyRow]]
          /\ \A k \in Key, i \in Id : table'[k][i] \in RowOf(k) \cup {NoRow}
          /\ table'["pages"] = table["pages"]
      BY <2>6, Ungrouped DEF Key
    <3> HIDE DEF q
    <3>3. QED
      BY <2>2, <2>3, <2>4, <2>5, <3>1, <3>2, RouteTyped
  <2>7. CASE UNCHANGED <<table, foreign>>
    <3> HIDE DEF q
    <3>1. QED
      BY <2>2, <2>3, <2>4, <2>5, <2>7, ServerTyped, RouteTyped
  <2>8. QED
    BY <1>4, <2>6, <2>7 DEF UngroupMonitors
<1>5. CASE DeleteGroup(c)
  <2>1. call[c].pc = "half" /\ call[c].id \in Id
    BY <1>5, CallTyped DEF DeleteGroup, CallFine
  <2>2. QED
    BY <1>5, <2>1, SoftDeleteTyped, MayFailTyped DEF DeleteGroup
<1>6. QED
  BY <1>1, <1>2, <1>3, <1>4, <1>5 DEF GroupRoutes

\* A row of a page is written by call c, which goes on to pc.
LEMMA PageWrittenTyped ==
  ASSUME Fine, NEW c \in Call, NEW i \in Id, NEW r \in RowOf("pages"),
         NEW pc \in {"ok", "half", "created"}, PageWritten(c, i, r, pc),
         call[c].pc \notin {"unsent", "answered"},
         pc # "ok" => /\ call[c].page = "pages" /\ call[c].op \in {"post", "put"}
                      /\ call[c].read \subseteq Id,
         gone' \in [Key -> SUBSET Id], UNCHANGED <<held, tab, cached, fetch, tour>>
  PROVE  Fine'
<1> DEFINE q == [call[c] EXCEPT !.pc = pc, !.id = i]
<1>1. "pages" \in Key
  BY DEF Key
<1>2. call[c] \in CallState /\ CallFine(c)
  BY CallTyped
<1>3. /\ q \in CallState /\ q.pc = pc /\ q.tab = call[c].tab /\ q.page = call[c].page
      /\ q.op = call[c].op /\ q.id = i /\ q.form = call[c].form /\ q.read = call[c].read
  BY <1>2 DEF CallState
<1>4. call' = [call EXCEPT ![c] = q]
  BY DEF PageWritten, Fine, TypeOK
<1>5. call'[c] = q
  BY <1>3, <1>4 DEF Fine, TypeOK
<1>6. /\ table' \in [Key -> [Id -> AnyRow]]
      /\ \A k \in Key, j \in Id : table'[k][j] \in RowOf(k) \cup {NoRow}
      /\ \A j \in Id : table["pages"][j] \in RowOf("pages")
                       => table'["pages"][j] \in RowOf("pages")
      /\ table'["pages"][i] = r
  BY <1>1, RowWritten DEF PageWritten
<1>7. foreign' \in [Tab -> SUBSET Key] /\ refilled' \subseteq Id
  BY <1>1, WrittenTyped, ServerTyped DEF PageWritten
<1> HIDE DEF q
<1>8. CallFine(c)'
  BY <1>2, <1>3, <1>5, <1>6 DEF CallFine
<1>9. QED
  BY <1>3, <1>4, <1>6, <1>7, <1>8, RouteTyped

LEMMA GiveUpTyped ==
  ASSUME Fine, NEW c \in Call, call[c].pc \notin {"unsent", "answered"}, GiveUp(c),
         UNCHANGED <<held, tab, cached, fetch, tour>>
  PROVE  Fine'
<1> DEFINE pc == IF call[c].op = "post" THEN "ok" ELSE "failed"
           q == [call[c] EXCEPT !.pc = pc]
<1>1. pc \in {"ok", "failed"} /\ Goto(c, pc) /\ UNCHANGED <<table, gone, foreign, refilled>>
  BY DEF GiveUp
<1> HIDE DEF pc
<1>2. q \in CallState /\ call' = [call EXCEPT ![c] = q] /\ CallFine(c)'
  BY <1>1, GotoTyped
<1> HIDE DEF q
<1>3. QED
  BY <1>1, <1>2, ServerTyped, RouteTyped

\* A page that is being written.
LEMMA PageInHand ==
  ASSUME Fine, NEW c \in Call, call[c].page = "pages",
         call[c].pc \in {"created", "read", "half"}
  PROVE  /\ call[c].op \in {"post", "put"} /\ call[c].id \in Id
         /\ table["pages"][call[c].id] \in RowOf("pages") /\ call[c].read \subseteq Id
         /\ call[c].form \in FormsOf("pages") /\ ValidPage(call[c].form)
BY CallTyped DEF CallFine, Valid

LEMMA PageRoutesTyped ==
  ASSUME Fine, NEW c \in Call, PageRoutes(c), UNCHANGED <<held, tab, cached, fetch, tour>>
  PROVE  Fine'
<1> DEFINE f == call[c].form
           i == call[c].id
           r == table["pages"][i]
<1>0. "pages" \in Key
  BY DEF Key
<1>1. CASE PostPage(c)
  <2>1. /\ call[c].pc = "sent" /\ call[c].page = "pages" /\ call[c].op = "post"
        /\ f \in FormsOf("pages") /\ ValidPage(f)
    BY <1>1, ServedFine DEF PostPage, Valid
  <2>2. CASE Refuse(c)
    BY <2>1, <2>2, RefuseTyped
  <2>3. CASE MayFail(c)
    BY <2>1, <2>3, MayFailTyped
  <2>4. ASSUME NEW j \in Id, UNCHANGED gone,
               PageWritten(c, j, [title |-> f.title, slug |-> f.slug, public |-> TRUE,
                                  monitors |-> {}],
                           IF f.monitors = {} THEN "ok" ELSE "created")
        PROVE  Fine'
    <3> DEFINE n == [title |-> f.title, slug |-> f.slug, public |-> TRUE, monitors |-> {}]
               pc == IF f.monitors = {} THEN "ok" ELSE "created"
    <3>1. n \in RowOf("pages")
      BY <2>1, PageForm, PageRows
    <3>2. pc \in {"ok", "half", "created"} /\ PageWritten(c, j, n, pc)
      BY <2>4
    <3>3. gone' \in [Key -> SUBSET Id]
      BY <2>4, ServerTyped
    <3>4. call[c].read \subseteq Id
      BY <2>1, CallTyped DEF CallFine
    <3> HIDE DEF n, pc
    <3>5. QED
      BY <2>1, <3>1, <3>2, <3>3, <3>4, PageWrittenTyped
  <2>5. QED
    BY <1>1, <2>2, <2>3, <2>4 DEF PostPage
<1>2. CASE ReadStatusPage(c)
  <2> DEFINE ms == KnownMonitors(f.monitors)
             q == [call[c] EXCEPT !.pc = "read", !.read = ms]
  <2>1. /\ call[c].pc \in {"sent", "created"} /\ call[c].page = "pages"
        /\ call[c].op \in {"post", "put"} /\ i \in Id
        /\ f \in FormsOf("pages") /\ ValidPage(f) /\ CallFine(c)
    BY <1>2, CallTyped, PageInHand DEF ReadStatusPage, CallFine, Valid
  <2>2. CASE GiveUp(c)
    BY <2>1, <2>2, GiveUpTyped
  <2>3. CASE /\ Exists("pages", i) /\ UNCHANGED <<table, gone, foreign, refilled>>
             /\ call' = [call EXCEPT ![c].pc = "read", ![c].read = ms]
    <3>1. ms \in SUBSET Id
      BY <2>1, PageForm DEF KnownMonitors
    <3> HIDE DEF ms
    <3>2. /\ q \in CallState /\ q.pc = "read" /\ q.tab = call[c].tab /\ q.page = "pages"
          /\ q.op = call[c].op /\ q.id = i /\ q.form = f /\ q.read = ms
      BY <2>1, <3>1, CallTyped DEF CallState
    <3>3. call' = [call EXCEPT ![c] = q]
      BY <2>3 DEF Fine, TypeOK
    <3>4. call'[c] = q
      BY <3>2, <3>3 DEF Fine, TypeOK
    <3>5. r \in RowOf("pages")
      BY <1>0, <2>1, <2>3, ServerTyped DEF Exists
    <3> HIDE DEF q
    <3>6. CallFine(c)'
      BY <2>1, <2>3, <3>1, <3>2, <3>4, <3>5 DEF CallFine
    <3>7. QED
      BY <2>3, <3>2, <3>3, <3>6, ServerTyped, RouteTyped
  <2>4. QED
    BY <1>2, <2>2, <2>3 DEF ReadStatusPage
<1>3. CASE ReplaceMonitors(c)
  <2>1. /\ call[c].pc = "read" /\ call[c].page = "pages" /\ call[c].op \in {"post", "put"}
        /\ i \in Id /\ r \in RowOf("pages") /\ call[c].read \subseteq Id
    BY <1>3, PageInHand DEF ReplaceMonitors, HasRead
  <2>2. CASE /\ PageWritten(c, i, [r EXCEPT !.monitors = call[c].read], "half")
             /\ UNCHANGED gone
    <3>1. [r EXCEPT !.monitors = call[c].read] \in RowOf("pages")
      BY <2>1, PageRows
    <3>2. gone' \in [Key -> SUBSET Id]
      BY <2>2, ServerTyped
    <3>3. QED
      BY <2>1, <2>2, <3>1, <3>2, PageWrittenTyped
  <2>3. CASE GiveUp(c)
    BY <2>1, <2>3, GiveUpTyped
  <2>4. QED
    BY <1>3, <2>2, <2>3 DEF ReplaceMonitors
<1>4. CASE SavePage(c)
  <2>1. /\ call[c].pc = "half" /\ call[c].page = "pages" /\ call[c].op \in {"post", "put"}
        /\ i \in Id /\ r \in RowOf("pages") /\ call[c].read \subseteq Id
        /\ f \in FormsOf("pages") /\ ValidPage(f)
    BY <1>4, PageInHand DEF SavePage
  <2>2. CASE GiveUp(c)
    BY <2>1, <2>2, GiveUpTyped
  <2> DEFINE b == Flag(c, call[c].op = "post")
             n == [title |-> f.title, slug |-> f.slug, public |-> b,
                   monitors |-> r.monitors \cup call[c].read]
  <2>3. CASE /\ PageWritten(c, i, n, "ok")
             /\ gone' = [gone EXCEPT !["pages"] = @ \ {i}]
    <3>1. r.monitors \cup call[c].read \in SUBSET Id
      BY <2>1, PageRows
    <3>2. b \in BOOLEAN
      BY DEF Flag
    <3>3. n \in RowOf("pages")
      BY <2>1, <3>1, <3>2, PageForm, PageRows
    <3>4. gone' \in [Key -> SUBSET Id]
      BY <1>0, <2>3, ServerTyped
    <3> HIDE DEF n
    <3>5. QED
      BY <2>1, <2>3, <3>3, <3>4, PageWrittenTyped
  <2>4. QED
    BY <1>4, <2>2, <2>3 DEF SavePage
<1>5. CASE DeletePage(c)
  BY <1>5, ServedFine, SoftDeleteTyped, MayFailTyped DEF DeletePage
<1>6. QED
  BY <1>1, <1>2, <1>3, <1>4, <1>5 DEF PageRoutes

-----------------------------------------------------------------------------
(* Checks and heartbeats *)

LEMMA WorkerTyped ==
  ASSUME Fine, NEW w \in Worker, WorkerStep(w)
  PROVE  Fine'
<1>0. "monitors" \in Key /\ "pages" \in Key /\ "monitors" # "pages"
  BY DEF Key
<1>1. UNCHANGED <<call, tab, cached, fetch, tour>>
  BY DEF WorkerStep
<1>2. CASE HoldRow(w)
  <2>1. PICK i \in Id : /\ Exists("monitors", i)
                        /\ held' = [held EXCEPT ![w] = [id |-> i, row |-> table["monitors"][i]]]
    BY <1>2 DEF HoldRow
  <2>2. table["monitors"][i] \in RowOf("monitors")
    BY <1>0, <2>1, ServerTyped DEF Exists
  <2>3. held' \in [Worker -> HeldState]
    BY <2>1, <2>2, ServerTyped DEF HeldState
  <2>4. UNCHANGED <<table, gone, foreign, refilled>>
    BY <1>2 DEF HoldRow
  <2>5. QED
    BY <1>1, <2>3, <2>4 DEF Fine, TypeOK, DialogFine, CallFine
<1>3. CASE SaveHeld(w)
  <2> DEFINE i == held[w].id
             b == held[w].row.enabled \/ ~Exists("monitors", i)
             r == [held[w].row EXCEPT !.enabled = b]
  <2>1. held[w] \in [id : Id, row : RowOf("monitors")]
    BY <1>3, ServerTyped DEF SaveHeld, HeldState
  <2>2. held' \in [Worker -> HeldState]
    BY <1>3, ServerTyped DEF SaveHeld, HeldState
  <2>3. i \in Id /\ r \in RowOf("monitors")
    <3>1. b \in BOOLEAN
      OBVIOUS
    <3>2. held[w].row \in RowOf("monitors") /\ i \in Id
      BY <2>1
    <3> HIDE DEF b
    <3>3. QED
      BY <3>1, <3>2 DEF RowOf
  <2>4. CASE /\ table' = [table EXCEPT !["monitors"][i] = r]
             /\ gone' = [gone EXCEPT !["monitors"] = @ \ {i}]
             /\ foreign' = [t \in Tab |-> foreign[t] \cup {"monitors"}]
             /\ Refills(i, r)
    <3> HIDE DEF i, r
    <3>1. /\ table' \in [Key -> [Id -> AnyRow]]
          /\ \A k \in Key, j \in Id : table'[k][j] \in RowOf(k) \cup {NoRow}
          /\ \A j \in Id : table["pages"][j] \in RowOf("pages")
                           => table'["pages"][j] \in RowOf("pages")
      BY <1>0, <2>3, <2>4, RowWritten
    <3>2. gone' \in [Key -> SUBSET Id] /\ foreign' \in [Tab -> SUBSET Key]
      BY <1>0, <2>4, ServerTyped
    <3>3. refilled' \subseteq Id
      BY <2>3, <2>4, RefillsTyped
    <3>4. TypeOK'
      BY <1>1, <2>2, <3>1, <3>2, <3>3 DEF Fine, TypeOK
    <3>5. \A c \in Call : CallFine(c)'
      BY <1>1, <3>1 DEF Fine, CallFine
    <3>6. QED
      BY <1>1, <3>4, <3>5 DEF Fine, DialogFine
  <2>5. CASE UNCHANGED <<table, gone, foreign, refilled>>
    BY <1>1, <2>2, <2>5 DEF Fine, TypeOK, DialogFine, CallFine
  <2>6. QED
    BY <1>3, <2>4, <2>5 DEF SaveHeld
<1>4. QED
  BY <1>2, <1>3 DEF WorkerStep

-----------------------------------------------------------------------------
(* Initial states, and all steps *)

LEMMA SeedTyped ==
  ASSUME NEW k \in Key, NEW i \in Id
  PROVE  SeedRow(k, i) \in RowOf(k)
<1>1. CASE k = "monitors" BY <1>1 DEF SeedRow, RowOf, Text
<1>2. CASE k = "groups" BY <1>2 DEF SeedRow, RowOf, Text
<1>3. CASE k = "pages" BY <1>3 DEF SeedRow, RowOf, Text, Slug
<1>4. CASE k = "channels" BY <1>4 DEF SeedRow, RowOf, Text
<1>5. CASE k = "incidents" BY <1>5 DEF SeedRow, RowOf, Text
<1>6. QED
  BY <1>1, <1>2, <1>3, <1>4, <1>5 DEF Key

LEMMA InitTyped == Init => Fine
<1> SUFFICES ASSUME Init PROVE Fine
  OBVIOUS
<1>1. tour \in Tours /\ tour.pages \subseteq AdminPages
  BY ConsoleAssumption DEF Init
<1>2. /\ table \in [Key -> [Id -> AnyRow]]
      /\ \A k \in Key, i \in Id : table[k][i] \in RowOf(k) \cup {NoRow}
  <2>1. PICK s \in Id : table = [k \in Key |-> [i \in Id |->
                          IF k \in Known(tour) /\ i = s THEN SeedRow(k, i) ELSE NoRow]]
    BY DEF Init
  <2>2. \A k \in Key, i \in Id : table[k][i] \in RowOf(k) \cup {NoRow}
    BY <2>1, SeedTyped
  <2>3. \A k \in Key, i \in Id : table[k][i] \in AnyRow
    BY <2>2, RowIsAny
  <2>4. QED
    BY <2>1, <2>2, <2>3
<1>3. /\ gone \in [Key -> SUBSET Id] /\ foreign \in [Tab -> SUBSET Key]
      /\ refilled \subseteq Id /\ held \in [Worker -> HeldState]
  BY DEF Init, HeldState
<1>4. /\ call \in [Call -> CallState]
      /\ \A c \in Call : call[c].pc = "unsent"
  <2>1. Unsent \in CallState /\ Unsent.pc = "unsent"
    BY DEF Unsent, CallState, AdminPages, AnyForm, AnyEntry, AnyRow
  <2>2. QED
    BY <2>1 DEF Init
<1>5. /\ tab \in [Tab -> TabState]
      /\ \A t \in Tab : tab[t].page \in tour.pages /\ ~tab[t].open
  <2>1. \A p \in tour.pages : /\ Closed(p) \in TabState /\ Closed(p).page = p
                              /\ ~Closed(p).open
    BY <1>1, ClosedFine
  <2>2. tab \in [Tab -> {Closed(p) : p \in tour.pages}]
    BY DEF Init
  <2>3. \A t \in Tab : \E p \in tour.pages : tab[t] = Closed(p)
    BY <2>2
  <2>4. \A t \in Tab : tab[t] \in TabState /\ tab[t].page \in tour.pages /\ ~tab[t].open
    BY <2>1, <2>3
  <2>5. QED
    BY <2>2, <2>4
<1>6. /\ cached \in [Tab -> [Key -> AnyList]]
      /\ fetch \in [Tab -> [Key -> FetchState]]
      /\ \A t \in Tab, k \in Key : cached[t][k] = NoList /\ fetch[t][k].rows = NoList
  BY NoRequest DEF Init, AnyList
<1>7. TypeOK
  BY <1>1, <1>2, <1>3, <1>4, <1>5, <1>6 DEF TypeOK
<1>8. QED
  BY <1>4, <1>5, <1>7 DEF Fine, DialogFine, CallFine

LEMMA StutterTyped ==
  ASSUME Fine, UNCHANGED vars
  PROVE  Fine'
BY DEF Fine, vars, TypeOK, DialogFine, CallFine

LEMMA StepTyped ==
  ASSUME Fine, [Next]_vars
  PROVE  Fine'
<1>1. ASSUME NEW t \in Tab, NEW k \in Key, QueryStep(t, k) PROVE Fine'
  BY <1>1, QueryTyped
<1>2. ASSUME NEW t \in Tab, NEW p \in AdminPages, Visit(t, p) PROVE Fine'
  BY <1>2, VisitTyped
<1>3. ASSUME NEW t \in Tab, PageStep(t) \/ CloseDialog(t) PROVE Fine'
  BY <1>3, CloseTyped, MonitorsPageTyped, GroupsPageTyped, PagesPageTyped,
     ChannelsPageTyped, IncidentsPageTyped DEF PageStep
<1>4. ASSUME NEW c \in Call, Route(c) PROVE Fine'
  BY <1>4, MonitorRoutesTyped, GroupRoutesTyped, PageRoutesTyped, ChannelRoutesTyped,
     IncidentRoutesTyped DEF Route
<1>5. ASSUME NEW c \in Call, Succeed(c) \/ Fail(c) \/ LoseAnswer(c) PROVE Fine'
  BY <1>5, SucceedTyped, FailTyped, LoseAnswerTyped
<1>6. ASSUME NEW w \in Worker, WorkerStep(w) PROVE Fine'
  BY <1>6, WorkerTyped
<1>7. QED
  BY <1>1, <1>2, <1>3, <1>4, <1>5, <1>6, StutterTyped DEF Next

LEMMA FineHolds == Spec => []Fine
<1>1. Fine /\ [Next]_vars => Fine'
  BY StepTyped
<1>2. QED
  BY <1>1, InitTyped, PTL DEF Spec

\* Whatever the tours, however many tabs and mutations, and whatever fails: the
\* tables hold no row without name, slug or parsable config, and lists, dialogs
\* and requests are typed (the schemas of Monitors.tsx:16, MonitorGroups.tsx:14,
\* StatusPages.tsx:17, Channels.tsx:14 and Incidents.tsx:14, against the handlers
\* behind them).
THEOREM ConsoleTypeCorrect == Spec => []TypeOK
<1>1. Fine => TypeOK
  BY DEF Fine
<1>2. QED
  BY <1>1, FineHolds, PTL
=============================================================================
