------------------------- MODULE ConsoleListProofs -------------------------
(***************************************************************************)
(* The lists on the screen, the groups of the monitors and the edits of    *)
(* the console, for any ids, tabs, mutations, workers and tours.           *)
(***************************************************************************)
EXTENDS ConsoleProofs

Copies == \A t \in Tab, k \in Key : CopyFine(t, k)

GroupsFine == DeletedGroupIsEmpty /\ \A c \in Call : HalfFine(c)

\* A mutation of this kind has changed the list of its page and not yet been
\* answered.
Wrote(q) == q.pc = "ok" \/ (q.op = "post" /\ q.pc \in {"created", "read", "half"})

-----------------------------------------------------------------------------
(* What a route does *)

\* Nothing is written.
Rests(c) ==
  /\ UNCHANGED <<table, gone, foreign, refilled>>
  /\ \E q : /\ call' = [call EXCEPT ![c] = q]
            /\ q.tab = call[c].tab /\ q.page = call[c].page /\ q.op = call[c].op
            /\ q.pc \in {"read", "ok", "failed"} /\ (q.pc = "ok" => call[c].op = "post")
            /\ Wrote(call[c]) => Wrote(q)

\* No row of another table is deleted, and none comes back.
OthersStay(c) == \A k \in Key \ {call[c].page} : gone'[k] = gone[k]

\* The row of a page is written, where the handler has more to do in the course
\* of a POST.
WritesPage(c) ==
  /\ call[c].page = "pages" /\ OthersStay(c)
  /\ \E i \in Id, pc \in {"ok", "created", "half"} : \E r :
       PageWritten(c, i, r, pc) /\ (pc # "ok" => call[c].op = "post")

\* Only its monitors are, in the course of a PUT.
WritesMembers(c) ==
  /\ call[c].page = "pages" /\ call[c].op = "put" /\ call[c].pc = "read"
  /\ PageWritten(c, call[c].id,
       [table["pages"][call[c].id] EXCEPT !.monitors = call[c].read], "half")
  /\ UNCHANGED gone

\* One row is written, and may come back.
Stores(c, i, r) ==
  Store(c, i, r) /\ gone' \in {gone, [gone EXCEPT ![call[c].page] = @ \ {i}]}

StoresRow(c) == \E i \in Id : \E r : Stores(c, i, r)

Moves(c) ==
  /\ call[c].pc \in {"sent", "created", "read", "half"} /\ call[c].page \in Key
  /\ \/ Rests(c) \/ StoresRow(c) \/ SoftDelete(c) \/ UngroupMonitors(c)
     \/ WritesPage(c) \/ WritesMembers(c)

LEMMA GotoIs ==
  ASSUME Fine, NEW c \in Call, NEW pc \in {"created", "half", "ok", "failed"}, Goto(c, pc)
  PROVE  LET q == [call[c] EXCEPT !.pc = pc]
         IN  /\ call' = [call EXCEPT ![c] = q] /\ call'[c] = q
             /\ q.pc = pc /\ q.tab = call[c].tab /\ q.page = call[c].page
             /\ q.op = call[c].op /\ q.id = call[c].id /\ q.form = call[c].form
             /\ q.read = call[c].read /\ q.base = call[c].base
BY CallTyped DEF Goto, Fine, TypeOK, CallState

\* The second statement of deleting a group, and of writing a page.
LEMMA HalfIs ==
  ASSUME Fine, NEW c \in Call, call[c].pc = "half"
  PROVE  /\ \/ call[c].page = "groups" /\ call[c].op = "delete"
            \/ call[c].page = "pages" /\ call[c].op \in {"post", "put"}
         /\ call[c].id \in Id /\ ~(call[c].op = "put" /\ Wrote(call[c]))
BY CallTyped DEF CallFine, Wrote

LEMMA GivesUp ==
  ASSUME Fine, NEW c \in Call, NEW pc \in {"ok", "failed"}, Goto(c, pc),
         UNCHANGED <<table, gone, foreign, refilled>>,
         pc = "ok" => call[c].op = "post", pc = "failed" => ~Wrote(call[c])
  PROVE  Rests(c)
<1> DEFINE q == [call[c] EXCEPT !.pc = pc]
<1>1. /\ call' = [call EXCEPT ![c] = q] /\ q.pc = pc /\ q.tab = call[c].tab
      /\ q.page = call[c].page /\ q.op = call[c].op
  BY GotoIs
<1>2. Wrote(call[c]) => Wrote(q)
  BY <1>1 DEF Wrote
<1> HIDE DEF q
<1>3. QED
  BY <1>1, <1>2 DEF Rests

LEMMA Refused ==
  ASSUME Fine, NEW c \in Call, Refuse(c) \/ MayFail(c) \/ HalfMayFail(c), ~Wrote(call[c])
  PROVE  Rests(c)
BY GivesUp DEF Refuse, MayFail, HalfMayFail

\* The handler takes something in hand.
LEMMA Reads ==
  ASSUME Fine, NEW c \in Call, NEW x,
         call' = [call EXCEPT ![c].pc = "read", ![c].read = x],
         UNCHANGED <<table, gone, foreign, refilled>>,
         Wrote(call[c]) => call[c].op = "post"
  PROVE  Rests(c)
<1> DEFINE q == [call[c] EXCEPT !.pc = "read", !.read = x]
<1>1. /\ call' = [call EXCEPT ![c] = q] /\ q.pc = "read" /\ q.tab = call[c].tab
      /\ q.page = call[c].page /\ q.op = call[c].op
  BY CallTyped DEF Fine, TypeOK, CallState
<1>2. Wrote(call[c]) => Wrote(q)
  BY <1>1 DEF Wrote
<1> HIDE DEF q
<1>3. QED
  BY <1>1, <1>2 DEF Rests

LEMMA StoredIs ==
  ASSUME Fine, NEW c \in Call, call[c].page \in Key, NEW i \in Id, NEW r, Stores(c, i, r)
  PROVE  /\ OthersStay(c) /\ Store(c, i, r)
         /\ gone'[call[c].page] \subseteq gone[call[c].page]
         /\ \A j \in Id \ {i} : j \in gone'[call[c].page] <=> j \in gone[call[c].page]
         /\ \A k \in Key \ {call[c].page} : table'[k] = table[k]
BY ServerTyped DEF Stores, OthersStay, Store

\* A handler at its first statement has not written anything.
LEMMA ServedIs ==
  ASSUME Fine, NEW c \in Call, NEW p, NEW op \in {"post", "put", "delete", "resolve"},
         Serves(c, p, op)
  PROVE  /\ call[c].pc = "sent" /\ call[c].page = p /\ call[c].op = op /\ p \in Key
         /\ ~Wrote(call[c]) /\ (op # "post" => call[c].id \in Id)
BY ServedFine DEF Wrote

\* A handler that is about to save.
LEMMA HasReadIs ==
  ASSUME Fine, NEW c \in Call, NEW p \in Key \ {"pages"}, HasRead(c, p)
  PROVE  /\ call[c].pc = "read" /\ call[c].page = p /\ call[c].op = "put" /\ ~Wrote(call[c])
         /\ call[c].id \in Id
BY ReadFine DEF Wrote

LEMMA InsertMoves ==
  ASSUME Fine, NEW c \in Call, NEW p, Serves(c, p, "post"),
         (\E r : Insert(c, r)) \/ Refuse(c) \/ MayFail(c)
  PROVE  Moves(c)
<1>1. call[c].pc = "sent" /\ call[c].page \in Key /\ ~Wrote(call[c])
  BY ServedIs
<1>2. ASSUME NEW r, Insert(c, r) PROVE StoresRow(c)
  BY <1>2 DEF Insert, StoresRow, Stores
<1>3. QED
  BY <1>1, <1>2, Refused DEF Moves

LEMMA ReadMoves ==
  ASSUME Fine, NEW c \in Call, NEW p, NEW x, Read(c, p, x)
  PROVE  Moves(c)
<1>1. call[c].pc = "sent" /\ call[c].page \in Key /\ ~Wrote(call[c])
  BY ServedIs DEF Read
<1>2. QED
  BY <1>1, Refused, Reads DEF Read, Moves

LEMMA SaveMoves ==
  ASSUME Fine, NEW c \in Call, NEW p \in Key \ {"pages"}, HasRead(c, p), NEW r, Save(c, r)
  PROVE  Moves(c)
<1>1. call[c].pc = "read" /\ call[c].page \in Key /\ ~Wrote(call[c]) /\ call[c].id \in Id
  BY HasReadIs
<1>2. QED
  BY <1>1, Refused DEF Save, StoresRow, Stores, Moves

LEMMA DeleteMoves ==
  ASSUME Fine, NEW c \in Call, NEW p, Serves(c, p, "delete"), SoftDelete(c) \/ MayFail(c)
  PROVE  Moves(c)
BY ServedIs, Refused DEF Moves

LEMMA PageMoves ==
  ASSUME Fine, NEW c \in Call, PageRoutes(c)
  PROVE  Moves(c) /\ call[c].page = "pages"
<1> DEFINE f == call[c].form
           i == call[c].id
<1>0. "pages" \in Key
  BY DEF Key
<1>1. CASE PostPage(c)
  <2>1. /\ call[c].pc = "sent" /\ call[c].page = "pages" /\ call[c].op = "post"
        /\ ~Wrote(call[c])
    BY <1>1, ServedIs DEF PostPage
  <2>2. ASSUME NEW j \in Id, NEW r, UNCHANGED gone,
               PageWritten(c, j, r, IF f.monitors = {} THEN "ok" ELSE "created")
        PROVE  WritesPage(c)
    BY <2>1, <2>2 DEF WritesPage, OthersStay
  <2>3. QED
    BY <1>0, <1>1, <2>1, <2>2, Refused DEF PostPage, Moves
<1>2. ASSUME call[c].page = "pages", call[c].op \in {"post", "put"},
             call[c].pc \in {"sent", "created", "read", "half"}, GiveUp(c)
      PROVE  Rests(c)
  <2>1. CASE call[c].op = "post"
    BY <1>2, <2>1, GivesUp DEF GiveUp
  <2>2. CASE call[c].op = "put"
    BY <1>2, <2>2, GivesUp DEF GiveUp, Wrote
  <2>3. QED
    BY <1>2, <2>1, <2>2
<1>3. CASE ReadStatusPage(c)
  <2>1. /\ call[c].page = "pages" /\ call[c].pc \in {"sent", "created"}
        /\ call[c].op \in {"post", "put"}
    BY <1>3, CallTyped DEF ReadStatusPage, CallFine
  <2>2. Wrote(call[c]) => call[c].op = "post"
    BY <2>1 DEF Wrote
  <2>3. QED
    BY <1>0, <1>2, <1>3, <2>1, <2>2, Reads DEF ReadStatusPage, Moves
<1>4. CASE ReplaceMonitors(c)
  <2>1. /\ call[c].page = "pages" /\ call[c].pc = "read" /\ i \in Id
        /\ call[c].op \in {"post", "put"}
    BY <1>4, PageInHand DEF ReplaceMonitors, HasRead
  <2>2. CASE GiveUp(c)
    BY <1>0, <1>2, <2>1, <2>2 DEF Moves
  <2>3. CASE /\ PageWritten(c, i, [table["pages"][i] EXCEPT !.monitors = call[c].read], "half")
             /\ UNCHANGED gone
    <3>1. CASE call[c].op = "post"
      BY <1>0, <2>1, <2>3, <3>1 DEF WritesPage, OthersStay, Moves
    <3>2. CASE call[c].op = "put"
      BY <1>0, <2>1, <2>3, <3>2 DEF WritesMembers, Moves
    <3>3. QED
      BY <2>1, <3>1, <3>2
  <2>4. QED
    BY <1>4, <2>1, <2>2, <2>3 DEF ReplaceMonitors
<1>5. CASE SavePage(c)
  <2>1. /\ call[c].page = "pages" /\ call[c].pc = "half" /\ i \in Id
        /\ call[c].op \in {"post", "put"}
    BY <1>5, PageInHand DEF SavePage
  <2>2. CASE GiveUp(c)
    BY <1>0, <1>2, <2>1, <2>2 DEF Moves
  <2>3. ASSUME NEW r, PageWritten(c, i, r, "ok"), gone' = [gone EXCEPT !["pages"] = @ \ {i}]
        PROVE  WritesPage(c)
    <3>1. OthersStay(c)
      BY <2>1, <2>3, ServerTyped DEF OthersStay
    <3>2. QED
      BY <2>1, <2>3, <3>1 DEF WritesPage
  <2>4. QED
    BY <1>0, <1>5, <2>1, <2>2, <2>3 DEF SavePage, Moves
<1>6. CASE DeletePage(c)
  BY <1>6, DeleteMoves, ServedIs DEF DeletePage
<1>7. QED
  BY <1>1, <1>3, <1>4, <1>5, <1>6
  DEF PageRoutes, PostPage, ReadStatusPage, ReplaceMonitors, SavePage, Serves, HasRead

LEMMA RouteMoves ==
  ASSUME Fine, NEW c \in Call, Route(c)
  PROVE  Moves(c)
<1>0. {"monitors", "groups", "channels", "incidents"} \subseteq Key \ {"pages"}
  BY DEF Key
<1>1. CASE MonitorRoutes(c)
  BY <1>0, <1>1, InsertMoves, ReadMoves, SaveMoves, DeleteMoves
  DEF MonitorRoutes, PostMonitor, ReadMonitor, SaveMonitor, DeleteMonitor
<1>2. CASE GroupRoutes(c)
  <2>1. CASE UngroupMonitors(c)
    BY <2>1, ServedIs DEF UngroupMonitors, Moves
  <2>2. CASE DeleteGroup(c)
    <3>1. call[c].pc = "half" /\ call[c].page \in Key /\ ~Wrote(call[c])
      BY <1>0, <2>2, HalfIs DEF DeleteGroup, Wrote
    <3>2. QED
      BY <2>2, <3>1, Refused DEF DeleteGroup, Moves
  <2>3. CASE PostGroup(c) \/ ReadGroup(c) \/ SaveGroup(c)
    BY <1>0, <2>3, InsertMoves, ReadMoves, SaveMoves DEF PostGroup, ReadGroup, SaveGroup
  <2>4. QED
    BY <1>2, <2>1, <2>2, <2>3 DEF GroupRoutes
<1>3. CASE ChannelRoutes(c)
  BY <1>0, <1>3, InsertMoves, ReadMoves, SaveMoves, DeleteMoves
  DEF ChannelRoutes, PostChannel, ReadChannel, SaveChannel, DeleteChannel
<1>4. CASE IncidentRoutes(c)
  <2>1. CASE PostIncident(c)
    BY <2>1, InsertMoves DEF PostIncident
  <2>2. CASE ResolveIncident(c)
    <3>1. /\ call[c].pc = "sent" /\ call[c].page \in Key /\ call[c].id \in Id
          /\ ~Wrote(call[c])
      BY <2>2, ServedIs DEF ResolveIncident
    <3>2. QED
      BY <2>2, <3>1, Refused DEF ResolveIncident, StoresRow, Stores, Moves
  <2>3. QED
    BY <1>4, <2>1, <2>2 DEF IncidentRoutes
<1>5. QED
  BY <1>1, <1>2, <1>3, <1>4, PageMoves DEF Route

-----------------------------------------------------------------------------
(* Every copy of a list is accounted for *)

LEMMA ListedSame ==
  ASSUME NEW k \in Key, table'[k] = table[k], gone'[k] = gone[k]
  PROVE  Listed(k)' = Listed(k)
<1>1. CASE k = "pages"
  BY <1>1 DEF Listed, ListedPages, Exists
<1>2. CASE k = "incidents"
  BY <1>2 DEF Listed, OngoingIncidents, Exists
<1>3. CASE k \notin {"pages", "incidents"}
  BY <1>3 DEF Listed, Exists
<1>4. QED
  BY <1>1, <1>2, <1>3

\* A step of one mutation that changes the list of no table but, where it is to
\* be answered, its own, or tells every other tab of it.
LEMMA MoveCopies ==
  ASSUME Fine, Copies, NEW c \in Call, NEW q, call' = [call EXCEPT ![c] = q],
         q.tab = call[c].tab, q.page = call[c].page, Wrote(call[c]) => Wrote(q),
         UNCHANGED <<cached, fetch>>, \A t \in Tab : foreign[t] \subseteq foreign'[t],
         \A t \in Tab, k \in Key :
           \/ k \in foreign'[t] \/ Listed(k)' = Listed(k)
           \/ t = call[c].tab /\ k = call[c].page /\ Wrote(q)
  PROVE  Copies'
<1>1. call'[c] = q /\ \A d \in Call : d # c => call'[d] = call[d]
  BY DEF Fine, TypeOK
<1>2. ASSUME NEW t \in Tab, NEW k \in Key PROVE CopyFine(t, k)'
  <2>1. Unread(t, k) => Unread(t, k)'
    BY <1>1 DEF Unread, Wrote
  <2>2. Wrote(q) /\ t = call[c].tab /\ k = call[c].page => Unread(t, k)'
    BY <1>1 DEF Unread, Wrote
  <2>3. QED
    BY <2>1, <2>2 DEF Copies, CopyFine
<1>3. QED
  BY <1>2 DEF Copies

\* No list changes.
LEMMA StillCopies ==
  ASSUME Fine, Copies, NEW c \in Call, NEW q, call' = [call EXCEPT ![c] = q],
         q.tab = call[c].tab, q.page = call[c].page, Wrote(call[c]) => Wrote(q),
         UNCHANGED <<cached, fetch>>, \A t \in Tab : foreign[t] \subseteq foreign'[t],
         \A k \in Key : Listed(k)' = Listed(k)
  PROVE  Copies'
BY MoveCopies

LEMMA RestCopies ==
  ASSUME Fine, Copies, NEW c \in Call, Rests(c), UNCHANGED <<cached, fetch>>
  PROVE  Copies'
BY ListedSame, MoveCopies DEF Rests

\* Rows of its own table are written, and it is answered or will be.
LEMMA OwnCopies ==
  ASSUME Fine, Copies, NEW c \in Call, NEW q, call' = [call EXCEPT ![c] = q],
         q.tab = call[c].tab, q.page = call[c].page, Wrote(q),
         call[c].page \in Key, Written(c, {call[c].page}),
         \A k \in Key \ {call[c].page} : table'[k] = table[k] /\ gone'[k] = gone[k],
         UNCHANGED <<cached, fetch>>
  PROVE  Copies'
<1>1. \A k \in Key \ {call[c].page} : Listed(k)' = Listed(k)
  BY ListedSame
<1>2. \A t \in Tab : foreign[t] \subseteq foreign'[t]
  BY DEF Written
<1>3. \A t \in Tab : t # call[c].tab => call[c].page \in foreign'[t]
  BY DEF Written
<1>4. \A t \in Tab, k \in Key :
        \/ k \in foreign'[t] \/ Listed(k)' = Listed(k)
        \/ t = call[c].tab /\ k = call[c].page /\ Wrote(q)
  BY <1>1, <1>3
<1>5. QED
  BY <1>2, <1>4, MoveCopies

LEMMA StoreCopies ==
  ASSUME Fine, Copies, NEW c \in Call, call[c].page \in Key, StoresRow(c),
         UNCHANGED <<cached, fetch>>
  PROVE  Copies'
<1> PICK i \in Id : \E r : Stores(c, i, r)
  BY DEF StoresRow
<1> PICK r : Stores(c, i, r)
  OBVIOUS
<1>0. Store(c, i, r)
  BY DEF Stores
<1> DEFINE q == [call[c] EXCEPT !.pc = "ok"]
<1>1. /\ call' = [call EXCEPT ![c] = q] /\ q.tab = call[c].tab /\ q.page = call[c].page
      /\ Wrote(q)
  BY <1>0, GotoIs DEF Store, Wrote
<1>2. \A k \in Key \ {call[c].page} : table'[k] = table[k] /\ gone'[k] = gone[k]
  BY StoredIs DEF OthersStay
<1> HIDE DEF q
<1>3. QED
  BY <1>0, <1>1, <1>2, OwnCopies DEF Store

LEMMA SoftDeleteCopies ==
  ASSUME Fine, Copies, NEW c \in Call, call[c].page \in Key,
         SoftDelete(c), UNCHANGED <<cached, fetch>>
  PROVE  Copies'
<1> DEFINE q == [call[c] EXCEPT !.pc = "ok"]
<1>1. /\ call' = [call EXCEPT ![c] = q] /\ q.tab = call[c].tab /\ q.page = call[c].page
      /\ Wrote(q)
  BY GotoIs DEF SoftDelete, Wrote
<1> HIDE DEF q
<1>2. \A k \in Key \ {call[c].page} : table'[k] = table[k] /\ gone'[k] = gone[k]
  BY ServerTyped DEF SoftDelete
<1>3. CASE Exists(call[c].page, call[c].id)
  BY <1>1, <1>2, <1>3, OwnCopies DEF SoftDelete
<1>4. CASE ~Exists(call[c].page, call[c].id)
  <2>1. UNCHANGED <<table, foreign>> /\ gone'[call[c].page] = gone[call[c].page]
    BY <1>4, ServerTyped DEF SoftDelete
  <2>2. \A k \in Key : Listed(k)' = Listed(k)
    BY <1>2, <2>1, ListedSame
  <2>3. QED
    BY <1>1, <2>1, <2>2, StillCopies
<1>5. QED
  BY <1>3, <1>4

LEMMA UngroupCopies ==
  ASSUME Fine, Copies, NEW c \in Call, UngroupMonitors(c), UNCHANGED <<cached, fetch>>
  PROVE  Copies'
<1> DEFINE q == [call[c] EXCEPT !.pc = "half"]
<1>1. /\ call[c].pc = "sent" /\ call[c].page = "groups" /\ ~Wrote(call[c])
      /\ call' = [call EXCEPT ![c] = q] /\ q.tab = call[c].tab /\ q.page = call[c].page
  BY GotoIs DEF UngroupMonitors, Serves, Wrote
<1> HIDE DEF q
<1>2. CASE /\ table' = [table EXCEPT !["monitors"] = [m \in Id |->
                          IF Exists("monitors", m) /\ @[m].group = call[c].id
                          THEN [@[m] EXCEPT !.group = NoGroup] ELSE @[m]]]
           /\ Written(c, {"monitors"}) /\ UNCHANGED gone
  <2>1. \A k \in Key \ {"monitors"} : table'[k] = table[k] /\ gone'[k] = gone[k]
    BY <1>2, Ungrouped
  <2>2. \A k \in Key \ {"monitors"} : Listed(k)' = Listed(k)
    BY <2>1, ListedSame
  <2>3. \A t \in Tab : foreign[t] \subseteq foreign'[t] /\ "monitors" \in foreign'[t]
    BY <1>1, <1>2 DEF Written
  <2>4. \A t \in Tab, k \in Key :
          \/ k \in foreign'[t] \/ Listed(k)' = Listed(k)
          \/ t = call[c].tab /\ k = call[c].page /\ Wrote(q)
    BY <2>2, <2>3
  <2>5. QED
    BY <1>1, <2>3, <2>4, MoveCopies
<1>3. CASE UNCHANGED <<table, gone, foreign>>
  <2>1. \A k \in Key : Listed(k)' = Listed(k)
    BY <1>3, ListedSame
  <2>2. \A t \in Tab : foreign[t] \subseteq foreign'[t]
    BY <1>3
  <2>3. QED
    BY <1>1, <2>1, <2>2, StillCopies
<1>4. QED
  BY <1>2, <1>3 DEF UngroupMonitors

\* The list of the status pages does not say which monitors they show.
LEMMA ListedWithoutMonitors ==
  ASSUME Fine, NEW i \in Id, table["pages"][i] \in RowOf("pages"), NEW ms \in SUBSET Id,
         table' = [table EXCEPT !["pages"][i] = [table["pages"][i] EXCEPT !.monitors = ms]],
         UNCHANGED gone, NEW k \in Key
  PROVE  Listed(k)' = Listed(k)
<1>1. "pages" \in Key
  BY DEF Key
<1>2. CASE k # "pages"
  BY <1>2, ServerTyped, ListedSame
<1>3. CASE k = "pages"
  <2> DEFINE n == [table["pages"][i] EXCEPT !.monitors = ms]
  <2>1. table["pages"][i] # NoRow
    BY <1>1, ConsoleAssumption
  <2>2. /\ n \in RowOf("pages") /\ n.title = table["pages"][i].title
        /\ n.slug = table["pages"][i].slug /\ n.public = table["pages"][i].public
    BY PageRows
  <2>3. n # NoRow
    BY <1>1, <2>2, ConsoleAssumption
  <2>4. \A j \in Id : table'["pages"][j] = IF j = i THEN n ELSE table["pages"][j]
    BY <1>1, ServerTyped
  <2> HIDE DEF n
  <2>5. \A j \in Id : /\ Exists("pages", j)' <=> Exists("pages", j)
                      /\ table'["pages"][j].title = table["pages"][j].title
                      /\ table'["pages"][j].slug = table["pages"][j].slug
                      /\ table'["pages"][j].public = table["pages"][j].public
    BY <2>1, <2>2, <2>3, <2>4 DEF Exists
  <2>6. ListedPages' = ListedPages
    BY <2>5 DEF ListedPages
  <2>7. QED
    BY <1>3, <2>6 DEF Listed
<1>4. QED
  BY <1>2, <1>3

LEMMA WritesPageCopies ==
  ASSUME Fine, Copies, NEW c \in Call, WritesPage(c), UNCHANGED <<cached, fetch>>
  PROVE  Copies'
<1>1. call[c].page = "pages" /\ "pages" \in Key
  BY DEF Key, WritesPage
<1> PICK i \in Id, pc \in {"ok", "created", "half"} :
           \E r : PageWritten(c, i, r, pc) /\ (pc # "ok" => call[c].op = "post")
  BY DEF WritesPage
<1> PICK r : PageWritten(c, i, r, pc)
  OBVIOUS
<1> DEFINE q == [call[c] EXCEPT !.pc = pc, !.id = i]
<1>2. /\ call' = [call EXCEPT ![c] = q] /\ q.tab = call[c].tab /\ q.page = call[c].page
      /\ q.pc = pc /\ q.op = call[c].op
  BY CallTyped DEF PageWritten, Fine, TypeOK, CallState
<1> HIDE DEF q
<1>3. Wrote(q)
  BY <1>2 DEF Wrote
<1>4. \A k \in Key \ {call[c].page} : table'[k] = table[k] /\ gone'[k] = gone[k]
  BY <1>1, ServerTyped DEF PageWritten, WritesPage, OthersStay
<1>5. Written(c, {call[c].page}) /\ call[c].page \in Key
  BY <1>1 DEF PageWritten
<1>6. QED
  BY <1>2, <1>3, <1>4, <1>5, OwnCopies

LEMMA WritesMembersCopies ==
  ASSUME Fine, Copies, NEW c \in Call, WritesMembers(c), UNCHANGED <<cached, fetch>>
  PROVE  Copies'
<1> DEFINE i == call[c].id
           q == [call[c] EXCEPT !.pc = "half", !.id = i]
<1>1. /\ call' = [call EXCEPT ![c] = q] /\ q.tab = call[c].tab /\ q.page = call[c].page
  BY CallTyped DEF WritesMembers, PageWritten, Fine, TypeOK, CallState
<1>2. i \in Id /\ table["pages"][i] \in RowOf("pages") /\ call[c].read \subseteq Id
  BY PageInHand DEF WritesMembers
<1>3. ~Wrote(call[c]) /\ \A t \in Tab : foreign[t] \subseteq foreign'[t]
  BY DEF Wrote, WritesMembers, PageWritten, Written
<1> HIDE DEF q
<1>4. \A k \in Key : Listed(k)' = Listed(k)
  BY <1>2, ListedWithoutMonitors DEF WritesMembers, PageWritten
<1>5. QED
  BY <1>1, <1>3, <1>4, StillCopies

LEMMA RouteCopies ==
  ASSUME Fine, Copies, NEW c \in Call, Route(c)
  PROVE  Copies'
<1>1. UNCHANGED <<cached, fetch>>
  BY DEF Route
<1>2. QED
  BY <1>1, RouteMoves, RestCopies, StoreCopies, SoftDeleteCopies, UngroupCopies,
     WritesPageCopies, WritesMembersCopies DEF Moves

\* A check or heartbeat writes a monitor, and no tab is told.
LEMMA WorkerCopies ==
  ASSUME Fine, Copies, NEW w \in Worker, WorkerStep(w)
  PROVE  Copies'
<1>1. UNCHANGED <<call, cached, fetch>>
  BY DEF WorkerStep
<1>2. \A t \in Tab, k \in Key : Unread(t, k)' <=> Unread(t, k)
  BY <1>1 DEF Unread
<1>3. \A k \in Key \ {"monitors"} : table'[k] = table[k] /\ gone'[k] = gone[k]
  BY ServerTyped DEF WorkerStep, HoldRow, SaveHeld, Key
<1>4. \A k \in Key \ {"monitors"} : Listed(k)' = Listed(k)
  BY <1>3, ListedSame
<1>5. \/ UNCHANGED <<table, gone, foreign>>
      \/ \A t \in Tab : foreign'[t] = foreign[t] \cup {"monitors"}
  BY DEF WorkerStep, HoldRow, SaveHeld
<1>6. ASSUME NEW t \in Tab, NEW k \in Key, k \in foreign[t] => k \in foreign'[t],
             k \in foreign'[t] \/ Listed(k)' = Listed(k)
      PROVE  CopyFine(t, k)'
  BY <1>1, <1>2, <1>6 DEF Copies, CopyFine
<1>7. CASE UNCHANGED <<table, gone, foreign>>
  <2>1. \A k \in Key : Listed(k)' = Listed(k)
    BY <1>7, ListedSame
  <2>2. QED
    BY <1>6, <1>7, <2>1 DEF Copies
<1>8. CASE \A t \in Tab : foreign'[t] = foreign[t] \cup {"monitors"}
  BY <1>4, <1>6, <1>8 DEF Copies
<1>9. QED
  BY <1>5, <1>7, <1>8

\* A mutation that no route serves in this step: it is still to be served, or
\* it stays as far as it is, or it is answered.
Waiting(c) ==
  /\ call[c].pc \in {"unsent", "sent"} /\ call'[c].pc \in {"unsent", "sent"}

Kept(c) ==
  \/ call'[c].pc = "answered"
  \/ /\ call[c].pc \notin {"unsent", "sent"} /\ call'[c].pc = call[c].pc
     /\ call'[c].tab = call[c].tab /\ call'[c].page = call[c].page
     /\ call'[c].op = call[c].op /\ call'[c].id = call[c].id

\* The steps of the pages only touch the dialog or send a mutation.
LEMMA PageStepIs ==
  ASSUME Fine, NEW t \in Tab, PageStep(t) \/ CloseDialog(t)
  PROVE  /\ UNCHANGED <<table, gone, refilled, queries, tour>>
         /\ \A c \in Call : call'[c] = call[c] \/ Waiting(c)
<1>1. ASSUME NEW c \in Call, NEW p, NEW op, NEW i, NEW f, NEW b, Send(t, c, p, op, i, f, b)
      PROVE  /\ UNCHANGED <<table, gone, refilled, queries, tour>>
             /\ \A d \in Call : call'[d] = call[d] \/ Waiting(d)
  BY <1>1 DEF Send, Waiting, Fine, TypeOK
<1>2. ASSUME UNCHANGED <<server, queries, tour>>
      PROVE  /\ UNCHANGED <<table, gone, refilled, queries, tour>>
             /\ \A d \in Call : call'[d] = call[d] \/ Waiting(d)
  BY <1>2 DEF server
<1>3. CASE \/ CloseDialog(t)
           \/ \E p, f : OpenNew(t, p, f)
           \/ \E p, i, f : OpenEdit(t, p, i, f)
           \/ \E p, f, ff : Fill(t, p, f, ff)
  BY <1>2, <1>3 DEF CloseDialog, OpenNew, OpenEdit, Fill
<1>4. ASSUME NEW c \in Call,
             (\E p, v : Submit(t, c, p, v)) \/ (\E p, op, i : PressRow(t, c, p, op, i))
      PROVE  \E p, op, i, f, b : Send(t, c, p, op, i, f, b)
  BY <1>4 DEF Submit, PressRow
<1>5. \/ CloseDialog(t)
      \/ \E p, f : OpenNew(t, p, f)
      \/ \E p, i, f : OpenEdit(t, p, i, f)
      \/ \E p, f, ff : Fill(t, p, f, ff)
      \/ \E c \in Call : \/ \E p, v : Submit(t, c, p, v)
                        \/ \E p, op, i : PressRow(t, c, p, op, i)
  <2>1. CASE CloseDialog(t) BY <2>1
  <2>2. CASE MonitorsPageStep(t) BY <2>2 DEF MonitorsPageStep
  <2>3. CASE GroupsPageStep(t) BY <2>3 DEF GroupsPageStep
  <2>4. CASE PagesPageStep(t) BY <2>4 DEF PagesPageStep
  <2>5. CASE ChannelsPageStep(t) BY <2>5 DEF ChannelsPageStep
  <2>6. CASE IncidentsPageStep(t) BY <2>6 DEF IncidentsPageStep
  <2>7. QED
    BY <2>1, <2>2, <2>3, <2>4, <2>5, <2>6 DEF PageStep
<1>6. QED
  BY <1>1, <1>3, <1>4, <1>5

\* The answer of a mutation.
LEMMA AnswerKeeps ==
  ASSUME Fine, NEW c \in Call, Answer(c), call[c].pc \in {"ok", "failed"}
  PROVE  /\ \A d \in Call \ {c} : call'[d] = call[d]
         /\ call'[c].pc = "answered" /\ Kept(c)
<1>1. \A d \in Call \ {c} : call'[d] = call[d]
  BY DEF Answer
<1> DEFINE q == [Unsent EXCEPT !.pc = "answered"]
<1>2. q.pc = "answered" /\ call'[c] = q
  BY AnswerIs DEF Unsent
<1>3. QED
  BY <1>1, <1>2 DEF Kept

\* Of the steps that no route and no worker takes.
LEMMA QuietSteps ==
  ASSUME Fine,
         \/ \E t \in Tab, k \in Key : QueryStep(t, k)
         \/ \E t \in Tab, p \in AdminPages : Visit(t, p)
         \/ \E t \in Tab : PageStep(t) \/ CloseDialog(t)
         \/ \E c \in Call : Succeed(c) \/ Fail(c) \/ LoseAnswer(c)
         \/ UNCHANGED vars
  PROVE  /\ UNCHANGED <<table, gone, refilled, tour>>
         /\ \A c \in Call : Waiting(c) \/ Kept(c)
<1>1. \A c \in Call : call'[c] = call[c] => Waiting(c) \/ Kept(c)
  BY DEF Waiting, Kept
<1>2. ASSUME NEW t \in Tab, NEW k \in Key, QueryStep(t, k)
      PROVE  UNCHANGED <<table, gone, refilled, call, tour>>
  BY <1>2 DEF QueryStep, Serve, Deliver, LoseFetch, Refresh, server
<1>3. ASSUME NEW t \in Tab, NEW p \in AdminPages, Visit(t, p)
      PROVE  /\ UNCHANGED <<table, gone, refilled, tour>>
             /\ \A c \in Call : Waiting(c) \/ Kept(c)
  <2>1. \A c \in Call : \/ call'[c] = call[c]
                       \/ call'[c] = [call[c] EXCEPT !.here = FALSE]
    BY <1>3 DEF Visit
  <2>2. ASSUME NEW c \in Call, call'[c] = [call[c] EXCEPT !.here = FALSE]
        PROVE  Waiting(c) \/ Kept(c)
    BY <2>2, CallTyped DEF Waiting, Kept, CallState
  <2>3. QED
    BY <1>1, <1>3, <2>1, <2>2 DEF Visit
<1>4. ASSUME NEW c \in Call, Succeed(c) \/ Fail(c) \/ LoseAnswer(c)
      PROVE  /\ UNCHANGED <<table, gone, refilled, tour>>
             /\ \A d \in Call : Waiting(d) \/ Kept(d)
  BY <1>1, <1>4, AnswerKeeps DEF Succeed, Fail, LoseAnswer
<1>5. QED
  BY <1>1, <1>2, <1>3, <1>4, PageStepIs DEF vars

\* Nothing is written, and no mutation of tab t is answered.
LEMMA UnreadKept ==
  ASSUME NEW t \in Tab, NEW k \in Key,
         \A c \in Call : \/ call'[c] = call[c]
                        \/ /\ Kept(c)
                           /\ ~Wrote(call[c]) \/ call[c].tab # t \/ call[c].page # k
  PROVE  Unread(t, k)' <=> Unread(t, k)
BY DEF Unread, Kept, Wrote

\* The tables stay, and so does the copy of list k in tab t, or is asked for.
LEMMA CopyKept ==
  ASSUME NEW t \in Tab, NEW k \in Key, CopyFine(t, k), UNCHANGED <<table, gone>>,
         k \in foreign[t] => k \in foreign'[t],
         Unread(t, k)' <=> Unread(t, k),
         \/ fetch'[t][k] = Asked
         \/ cached'[t][k] = cached[t][k] /\ fetch'[t][k] = fetch[t][k]
  PROVE  CopyFine(t, k)'
<1>1. Listed(k)' = Listed(k)
  BY ListedSame
<1>2. QED
  BY <1>1 DEF CopyFine, Asked

LEMMA QueryCopies ==
  ASSUME Fine, Copies, NEW t \in Tab, NEW k \in Key, QueryStep(t, k)
  PROVE  Copies'
<1>1. UNCHANGED <<table, gone, call>> /\ Listed(k)' = Listed(k)
  BY ListedSame DEF QueryStep, Serve, Deliver, LoseFetch, Refresh, server
<1>2. \A u \in Tab, l \in Key : Unread(u, l)' <=> Unread(u, l)
  BY <1>1 DEF Unread
<1>3. ASSUME NEW u \in Tab, NEW l \in Key, u # t \/ l # k
      PROVE  CopyFine(u, l)'
  <2>1. /\ cached'[u][l] = cached[u][l] /\ fetch'[u][l] = fetch[u][l]
        /\ l \in foreign[u] => l \in foreign'[u]
    BY <1>3 DEF QueryStep, Serve, Deliver, LoseFetch, Refresh, Fine, TypeOK
  <2>2. QED
    BY <1>1, <1>2, <2>1, CopyKept DEF Copies
<1>4. CopyFine(t, k)'
  <2>1. CopyFine(t, k)
    BY DEF Copies
  <2>2. CASE Serve(t, k, Listed(k))
    <3>1. fetch'[t][k] = [state |-> "served", rows |-> Listed(k)]
      BY <2>2 DEF Serve, Fine, TypeOK
    <3>2. QED
      BY <1>1, <3>1 DEF CopyFine
  <2>3. CASE Deliver(t, k)
    <3>1. /\ fetch[t][k].state = "served" /\ fetch'[t][k].state = "none"
          /\ cached'[t][k] = fetch[t][k].rows /\ foreign'[t] = foreign[t]
      BY <2>3 DEF Deliver, NotFetching, Fine, TypeOK
    <3>2. QED
      BY <1>1, <1>2, <2>1, <3>1 DEF CopyFine
  <2>4. CASE LoseFetch(t, k)
    <3>1. k \in foreign'[t]
      BY <2>4 DEF LoseFetch, Fine, TypeOK
    <3>2. QED
      BY <3>1 DEF CopyFine
  <2>5. CASE Refresh(t, k)
    <3>1. fetch'[t][k] = Asked /\ foreign'[t] = foreign[t]
      BY <2>5 DEF Refresh, Fine, TypeOK
    <3>2. QED
      BY <1>1, <1>2, <2>1, <3>1, CopyKept
  <2>6. QED
    BY <2>2, <2>3, <2>4, <2>5 DEF QueryStep
<1>5. QED
  BY <1>3, <1>4 DEF Copies

LEMMA VisitCopies ==
  ASSUME Fine, Copies, NEW t \in Tab, NEW p \in AdminPages, Visit(t, p)
  PROVE  Copies'
<1>1. /\ UNCHANGED <<table, gone, cached, foreign>>
      /\ \A u \in Tab, k \in Key : fetch'[u][k] \in {fetch[u][k], Asked}
  BY DEF Visit, Fine, TypeOK
<1>2. \A c \in Call : call'[c].pc = call[c].pc /\ call'[c].tab = call[c].tab
                     /\ call'[c].page = call[c].page /\ call'[c].op = call[c].op
  BY CallTyped DEF Visit, CallState
<1>3. \A u \in Tab, k \in Key : Unread(u, k)' <=> Unread(u, k)
  BY <1>2 DEF Unread
<1>4. QED
  BY <1>1, <1>3, CopyKept DEF Copies

LEMMA PageStepCopies ==
  ASSUME Fine, Copies, NEW t \in Tab, PageStep(t) \/ CloseDialog(t)
  PROVE  Copies'
<1>1. /\ UNCHANGED <<table, gone, queries>>
      /\ \A c \in Call : call'[c] = call[c] \/ Waiting(c)
  BY PageStepIs
<1>2. \A u \in Tab, k \in Key : Unread(u, k)' <=> Unread(u, k)
  BY <1>1 DEF Unread, Waiting
<1>3. QED
  BY <1>1, <1>2, CopyKept DEF Copies, queries

LEMMA AnswerCopies ==
  ASSUME Fine, Copies, NEW c \in Call, Succeed(c) \/ Fail(c) \/ LoseAnswer(c)
  PROVE  Copies'
<1> PICK t \in Tab, k \in Key : t = call[c].tab /\ k = call[c].page
  BY CallTyped DEF Succeed, Fail, LoseAnswer, CallFine
<1>0. call[c].pc \in {"ok", "failed"} /\ Answer(c)
  BY DEF Succeed, Fail, LoseAnswer
<1>1. /\ UNCHANGED <<table, gone, cached>>
      /\ \A d \in Call \ {c} : call'[d] = call[d]
      /\ Kept(c)
  BY <1>0, AnswerKeeps DEF Succeed, Fail, LoseAnswer, queries
<1>2. ASSUME NEW u \in Tab, NEW l \in Key, u # t \/ l # k \/ ~Wrote(call[c])
      PROVE  Unread(u, l)' <=> Unread(u, l)
  BY <1>1, <1>2, UnreadKept
<1>3. ASSUME NEW u \in Tab, NEW l \in Key, u # t \/ l # k
      PROVE  CopyFine(u, l)'
  <2>1. fetch'[u][l] = fetch[u][l] /\ (l \in foreign[u] => l \in foreign'[u])
    BY <1>0, <1>3 DEF Succeed, Fail, LoseAnswer, Refetched, queries, Fine, TypeOK
  <2>2. QED
    BY <1>1, <1>2, <1>3, <2>1, CopyKept DEF Copies
<1>4. CopyFine(t, k)'
  <2>1. CASE Fail(c)
    <3>1. UNCHANGED queries /\ ~Wrote(call[c])
      BY <2>1 DEF Fail, Wrote
    <3>2. QED
      BY <1>0, <1>1, <1>2, <3>1, CopyKept DEF Copies, queries
  <2>2. CASE k \in foreign'[t]
    BY <2>2 DEF CopyFine
  <2>3. CASE fetch'[t][k] = Asked
    BY <2>3 DEF CopyFine, Asked
  <2>4. CASE Succeed(c)
    BY <1>0, <2>2, <2>3, <2>4 DEF Succeed, Refetched, Fine, TypeOK
  <2>5. CASE LoseAnswer(c)
    BY <1>0, <2>2, <2>5 DEF LoseAnswer, Fine, TypeOK
  <2>6. QED
    BY <2>1, <2>4, <2>5
<1>5. QED
  BY <1>3, <1>4 DEF Copies

LEMMA CopiesStep ==
  ASSUME Fine, Copies, [Next]_vars
  PROVE  Copies'
<1>1. CASE UNCHANGED vars
  <2>1. \A t \in Tab, k \in Key : Unread(t, k)' <=> Unread(t, k)
    BY <1>1 DEF vars, Unread
  <2>2. QED
    BY <1>1, <2>1, CopyKept DEF vars, Copies
<1>2. QED
  BY <1>1, QueryCopies, VisitCopies, PageStepCopies, RouteCopies, WorkerCopies, AnswerCopies
  DEF Next

LEMMA CopiesInit == Init => Copies
<1> SUFFICES ASSUME Init, NEW t \in Tab, NEW k \in Key PROVE CopyFine(t, k)
  BY DEF Copies
<1>1. cached[t][k] = NoList /\ fetch[t][k] \in {Asked, NotFetching}
  BY DEF Init
<1>2. QED
  BY <1>1 DEF CopyFine, Asked, NotFetching

-----------------------------------------------------------------------------
(* A group that is deleted was emptied *)

SafeGroup(g) == g = NoGroup \/ Exists("groups", g) \/ g \in refilled

\* By its own doing no monitor gets into a group that `refilled' does not know.
MonitorsMove ==
  \A m \in Id : Exists("monitors", m)' =>
    LET g == table'["monitors"][m].group
    IN  \/ g = NoGroup \/ g \in refilled'
        \/ Exists("monitors", m) /\ g = table["monitors"][m].group /\ g \notin refilled

\* After the step nobody is in the group.
Deserted(g) == \A m \in Id : Exists("monitors", m)' => table'["monitors"][m].group # g

\* A step after which no group is gone, or emptied, unless it is so.
LEMMA GroupsMove ==
  ASSUME Fine, GroupsFine, Fine', MonitorsMove,
         \A g \in Id : Exists("groups", g) =>
           Exists("groups", g)' \/ g \in refilled' \/ Deserted(g),
         \A d \in Call : call'[d].page = "groups" /\ call'[d].pc = "half" =>
           \/ /\ call[d].page = "groups" /\ call[d].pc = "half"
              /\ call'[d].id = call[d].id
           \/ call'[d].id \in refilled' \/ (Deserted(call[d].id) /\ call'[d].id = call[d].id)
  PROVE  GroupsFine'
<1>1. ASSUME NEW m \in Id, Exists("monitors", m)',
             NEW g, g = table'["monitors"][m].group
      PROVE  SafeGroup(g)'
  <2>1. CASE g = NoGroup \/ g \in refilled'
    BY <2>1 DEF SafeGroup
  <2>2. CASE Exists("monitors", m) /\ g = table["monitors"][m].group /\ g \notin refilled
    <3>1. g = NoGroup \/ Exists("groups", g)
      BY <2>2 DEF GroupsFine, DeletedGroupIsEmpty
    <3>2. g \in Id \cup {NoGroup}
      <4>1. "monitors" \in Key /\ table["monitors"][m] \in RowOf("monitors") \cup {NoRow}
        BY ServerTyped DEF Key
      <4>2. QED
        BY <2>2, <4>1 DEF Exists, RowOf
    <3>3. ~Deserted(g)
      BY <1>1 DEF Deserted
    <3>4. QED
      BY <3>1, <3>2, <3>3 DEF SafeGroup
  <2>3. QED
    BY <1>1, <2>1, <2>2 DEF MonitorsMove
<1>2. DeletedGroupIsEmpty'
  BY <1>1 DEF DeletedGroupIsEmpty, SafeGroup
<1>3. ASSUME NEW d \in Call PROVE HalfFine(d)'
  <2> SUFFICES ASSUME call'[d].page = "groups", call'[d].pc = "half",
                      NEW m \in Id, Exists("monitors", m)',
                      table'["monitors"][m].group = call'[d].id
               PROVE  call'[d].id \in refilled'
    BY DEF HalfFine
  <2>1. call'[d].id # NoGroup
    BY AdminAssumption DEF Fine, CallFine
  <2>2. CASE /\ call[d].page = "groups" /\ call[d].pc = "half"
             /\ call'[d].id = call[d].id
    BY <2>1, <2>2 DEF GroupsFine, HalfFine, MonitorsMove
  <2>3. ~(Deserted(call[d].id) /\ call'[d].id = call[d].id)
    BY DEF Deserted
  <2>4. QED
    BY <2>2, <2>3
<1>4. QED
  BY <1>2, <1>3 DEF GroupsFine

\* What a route does to the mutations.
Called(c) ==
  /\ \A d \in Call \ {c} : call'[d] = call[d]
  /\ call'[c].pc \in {"created", "read", "half", "ok", "failed"}
  /\ call'[c].page = call[c].page
  /\ call'[c].pc = "half" /\ call[c].page = "groups" =>
       UngroupMonitors(c) /\ call'[c].id = call[c].id

LEMMA CalledIs ==
  ASSUME Fine, NEW c \in Call, NEW q, call' = [call EXCEPT ![c] = q], q.page = call[c].page,
         q.pc \in {"created", "read", "half", "ok", "failed"},
         q.pc = "half" /\ call[c].page = "groups" =>
           UngroupMonitors(c) /\ q.id = call[c].id
  PROVE  Called(c)
<1>1. call'[c] = q /\ \A d \in Call \ {c} : call'[d] = call[d]
  BY DEF Fine, TypeOK
<1>2. QED
  BY <1>1 DEF Called

LEMMA RouteCallIs ==
  ASSUME Fine, NEW c \in Call, Route(c)
  PROVE  Called(c)
<1>1. CASE Rests(c)
  <2> PICK q : /\ call' = [call EXCEPT ![c] = q] /\ q.page = call[c].page
               /\ q.pc \in {"read", "ok", "failed"}
    BY <1>1 DEF Rests
  <2>1. QED
    BY CalledIs
<1>2. CASE StoresRow(c) \/ SoftDelete(c)
  <2> DEFINE q == [call[c] EXCEPT !.pc = "ok"]
  <2>1. call' = [call EXCEPT ![c] = q] /\ q.page = call[c].page /\ q.pc = "ok"
    BY <1>2, GotoIs DEF StoresRow, Stores, Store, SoftDelete
  <2> HIDE DEF q
  <2>2. QED
    BY <2>1, CalledIs
<1>3. CASE UngroupMonitors(c)
  <2> DEFINE q == [call[c] EXCEPT !.pc = "half"]
  <2>1. /\ call' = [call EXCEPT ![c] = q] /\ q.page = call[c].page /\ q.pc = "half"
        /\ q.id = call[c].id
    BY <1>3, GotoIs DEF UngroupMonitors
  <2> HIDE DEF q
  <2>2. QED
    BY <1>3, <2>1, CalledIs
<1>4. ASSUME call[c].page = "pages", NEW i \in Id, NEW pc \in {"ok", "created", "half"},
             call' = [call EXCEPT ![c].pc = pc, ![c].id = i]
      PROVE  Called(c)
  <2> DEFINE q == [call[c] EXCEPT !.pc = pc, !.id = i]
  <2>1. call' = [call EXCEPT ![c] = q] /\ q.page = call[c].page /\ q.pc = pc
    BY <1>4, CallTyped DEF Fine, TypeOK, CallState
  <2> HIDE DEF q
  <2>2. QED
    BY <1>4, <2>1, CalledIs
<1>5. CASE WritesPage(c)
  BY <1>4, <1>5 DEF WritesPage, PageWritten
<1>6. CASE WritesMembers(c)
  <2>1. call[c].id \in Id
    BY <1>6, PageInHand DEF WritesMembers
  <2>2. QED
    BY <1>4, <1>6, <2>1 DEF WritesMembers, PageWritten
<1>7. QED
  BY <1>1, <1>2, <1>3, <1>5, <1>6, RouteMoves DEF Moves

LEMMA RouteGroups ==
  ASSUME Fine, GroupsFine, NEW c \in Call, Route(c), MonitorsMove,
         \A g \in Id : Exists("groups", g) =>
           Exists("groups", g)' \/ g \in refilled' \/ Deserted(g),
         UngroupMonitors(c) => call[c].id \in refilled' \/ Deserted(call[c].id)
  PROVE  GroupsFine'
<1>1. Fine'
  BY StepTyped DEF Next
<1>2. \A d \in Call : call'[d].page = "groups" /\ call'[d].pc = "half" =>
        \/ /\ call[d].page = "groups" /\ call[d].pc = "half"
           /\ call'[d].id = call[d].id
        \/ call'[d].id \in refilled' \/ (Deserted(call[d].id) /\ call'[d].id = call[d].id)
  BY RouteCallIs DEF Called
<1>3. QED
  BY <1>1, <1>2, GroupsMove

\* No monitor is written, and none enters or leaves.
LEMMA MonitorsStay ==
  ASSUME table'["monitors"] = table["monitors"], gone'["monitors"] = gone["monitors"],
         UNCHANGED refilled
  PROVE  MonitorsMove
BY DEF MonitorsMove, Exists

\* No group is written.
LEMMA GroupsStay ==
  ASSUME table'["groups"] = table["groups"], gone'["groups"] = gone["groups"]
  PROVE  \A g : Exists("groups", g)' <=> Exists("groups", g)
BY DEF Exists

\* One monitor is written.
LEMMA MonitorWritten ==
  ASSUME Fine, NEW i \in Id, NEW r, Refills(i, r),
         table' = [table EXCEPT !["monitors"][i] = r],
         \A m \in Id \ {i} : m \in gone'["monitors"] <=> m \in gone["monitors"]
  PROVE  MonitorsMove /\ table'["groups"] = table["groups"]
<1>1. /\ \A m \in Id : table'["monitors"][m] = IF m = i THEN r ELSE table["monitors"][m]
      /\ table'["groups"] = table["groups"]
  BY ServerTyped DEF Key
<1>2. ASSUME NEW m \in Id, Exists("monitors", m)',
             NEW g, g = table'["monitors"][m].group
      PROVE  \/ g = NoGroup \/ g \in refilled'
             \/ Exists("monitors", m) /\ g = table["monitors"][m].group /\ g \notin refilled
  <2>1. CASE m # i
    <3>1. Exists("monitors", m) /\ g = table["monitors"][m].group
      BY <1>1, <1>2, <2>1 DEF Exists
    <3>2. QED
      BY <3>1 DEF Refills
  <2>2. CASE m = i
    <3>1. g = r.group
      BY <1>1, <1>2, <2>2
    <3>2. QED
      BY <2>2, <3>1 DEF Refills
  <2>3. QED
    BY <2>1, <2>2
<1>3. QED
  BY <1>1, <1>2 DEF MonitorsMove

\* The routes but those of the groups: a monitor is stored or deleted, or tables
\* are written that say nothing of groups.
LEMMA OtherRoutesGroups ==
  ASSUME Fine, GroupsFine, NEW c \in Call, Route(c), call[c].page # "groups"
  PROVE  GroupsFine'
<1>0. ~UngroupMonitors(c) /\ {"monitors", "groups"} \subseteq Key
  BY DEF UngroupMonitors, Serves, Key
<1>1. ASSUME MonitorsMove, table'["groups"] = table["groups"],
             gone'["groups"] = gone["groups"]
      PROVE  GroupsFine'
  BY <1>0, <1>1, GroupsStay, RouteGroups
<1>2. CASE Rests(c)
  BY <1>1, <1>2, MonitorsStay DEF Rests
<1>3. CASE SoftDelete(c)
  <2>1. /\ UNCHANGED <<table, refilled>> /\ gone'["groups"] = gone["groups"]
        /\ gone["monitors"] \subseteq gone'["monitors"]
    BY <1>0, <1>3, ServerTyped DEF SoftDelete
  <2>2. MonitorsMove
    BY <2>1 DEF MonitorsMove, Exists
  <2>3. QED
    BY <1>1, <2>1, <2>2
<1>4. ASSUME NEW i \in Id, NEW r, Stores(c, i, r), call[c].page \in Key
      PROVE  GroupsFine'
  <2>1. gone'["groups"] = gone["groups"] /\ table'["groups"] = table["groups"]
    BY <1>0, <1>4, StoredIs DEF OthersStay
  <2>2. CASE call[c].page = "monitors"
    <3>1. \A m \in Id \ {i} : m \in gone'["monitors"] <=> m \in gone["monitors"]
      BY <1>4, <2>2, StoredIs
    <3>2. table' = [table EXCEPT !["monitors"][i] = r] /\ Refills(i, r)
      BY <1>4, <2>2 DEF Stores, Store
    <3>3. QED
      BY <1>1, <2>1, <3>1, <3>2, MonitorWritten
  <2>3. CASE call[c].page # "monitors"
    <3>1. table'["monitors"] = table["monitors"] /\ gone'["monitors"] = gone["monitors"]
      BY <1>0, <1>4, <2>3, StoredIs DEF OthersStay
    <3>2. UNCHANGED refilled
      BY <1>4, <2>3, StoredIs DEF Store
    <3>3. QED
      BY <1>1, <2>1, <3>1, <3>2, MonitorsStay
  <2>4. QED
    BY <2>2, <2>3
<1>5. CASE WritesPage(c) \/ WritesMembers(c)
  <2>1. /\ \A k \in {"monitors", "groups"} : table'[k] = table[k] /\ gone'[k] = gone[k]
        /\ UNCHANGED refilled
    BY <1>0, <1>5, ServerTyped DEF WritesPage, WritesMembers, PageWritten, OthersStay
  <2>2. QED
    BY <1>1, <2>1, MonitorsStay
<1>6. QED
  BY <1>0, <1>2, <1>3, <1>4, <1>5, RouteMoves DEF Moves, StoresRow

\* The first statement leaves nobody in the group, or fails.
LEMMA UngroupGroups ==
  ASSUME Fine, GroupsFine, NEW c \in Call, Route(c), UngroupMonitors(c)
  PROVE  GroupsFine'
<1>1. call[c].page = "groups" /\ call[c].id \in Id
  BY ServedFine DEF UngroupMonitors
<1>2. CASE /\ table' = [table EXCEPT !["monitors"] = [m \in Id |->
                          IF Exists("monitors", m) /\ @[m].group = call[c].id
                          THEN [@[m] EXCEPT !.group = NoGroup] ELSE @[m]]]
           /\ refilled' = refilled \ {call[c].id} /\ UNCHANGED gone
  <2> DEFINE n(m) == IF Exists("monitors", m) /\ table["monitors"][m].group = call[c].id
                     THEN [table["monitors"][m] EXCEPT !.group = NoGroup]
                     ELSE table["monitors"][m]
  <2>1. /\ \A k \in Key \ {"monitors"} : table'[k] = table[k]
        /\ \A m \in Id : table'["monitors"][m] = n(m)
        /\ \A m \in Id : Exists("monitors", m) /\ table["monitors"][m].group = call[c].id
                         => table'["monitors"][m].group = NoGroup
    BY <1>2, Ungrouped
  <2>2. ASSUME NEW m \in Id, Exists("monitors", m)'
        PROVE  \/ table'["monitors"][m].group = NoGroup
               \/ /\ Exists("monitors", m)
                  /\ table'["monitors"][m] = table["monitors"][m]
                  /\ table["monitors"][m].group # call[c].id
    BY <1>2, <2>1, <2>2 DEF Exists
  <2> HIDE DEF n
  <2>3. \A g : Exists("groups", g)' <=> Exists("groups", g)
    BY <1>2, <2>1 DEF Exists, Key
  <2>4. Deserted(call[c].id)
    BY <1>1, <2>2, AdminAssumption DEF Deserted
  <2>5. ASSUME NEW m \in Id, Exists("monitors", m)',
               NEW g, g = table'["monitors"][m].group
        PROVE  \/ g = NoGroup \/ g \in refilled'
               \/ Exists("monitors", m) /\ g = table["monitors"][m].group /\ g \notin refilled
    <3>1. CASE /\ Exists("monitors", m) /\ g = table["monitors"][m].group
               /\ g # call[c].id
      BY <1>2, <3>1
    <3>2. QED
      BY <2>2, <2>5, <3>1
  <2>6. QED
    BY <2>3, <2>4, <2>5, RouteGroups DEF MonitorsMove
<1>3. CASE refilled' = refilled \cup {call[c].id} /\ UNCHANGED <<table, gone>>
  <2>1. /\ \A m : Exists("monitors", m)' <=> Exists("monitors", m)
        /\ \A g : Exists("groups", g)' <=> Exists("groups", g)
    BY <1>3 DEF Exists
  <2>2. MonitorsMove
    BY <1>3, <2>1 DEF MonitorsMove
  <2>3. QED
    BY <1>3, <2>1, <2>2, RouteGroups
<1>4. QED
  BY <1>2, <1>3 DEF UngroupMonitors

\* The second statement: whoever is in the group by now came there since.
LEMMA DeleteGroups ==
  ASSUME Fine, GroupsFine, NEW c \in Call, Route(c), DeleteGroup(c), SoftDelete(c)
  PROVE  GroupsFine'
<1>1. call[c].pc = "half" /\ call[c].page = "groups" /\ call[c].id \in Id /\ HalfFine(c)
  BY HalfIs DEF DeleteGroup, GroupsFine
<1>2. /\ UNCHANGED <<table, refilled>> /\ gone'["monitors"] = gone["monitors"]
      /\ \A g : g # call[c].id => (g \in gone'["groups"] <=> g \in gone["groups"])
  BY <1>1, ServerTyped DEF SoftDelete, Key
<1>3. /\ \A m : Exists("monitors", m)' <=> Exists("monitors", m)
      /\ \A g : g # call[c].id => (Exists("groups", g)' <=> Exists("groups", g))
  BY <1>2 DEF Exists
<1>4. call[c].id \in refilled' \/ Deserted(call[c].id)
  BY <1>1, <1>2, <1>3 DEF HalfFine, Deserted
<1>5. ~UngroupMonitors(c)
  BY <1>1 DEF UngroupMonitors, Serves
<1>6. QED
  BY <1>2, <1>3, <1>4, <1>5, MonitorsStay, RouteGroups

\* A group is written.
LEMMA GroupStored ==
  ASSUME Fine, GroupsFine, NEW c \in Call, Route(c), call[c].page = "groups",
         ~UngroupMonitors(c), NEW i \in Id, NEW r \in RowOf("groups"), Stores(c, i, r)
  PROVE  GroupsFine'
<1>0. {"monitors", "groups"} \subseteq Key
  BY DEF Key
<1>1. r # NoRow
  BY <1>0, ConsoleAssumption
<1>2. \A g \in Id : table'["groups"][g] = IF g = i THEN r ELSE table["groups"][g]
  BY <1>0, ServerTyped DEF Stores, Store
<1>3. /\ table'["monitors"] = table["monitors"] /\ gone'["monitors"] = gone["monitors"]
      /\ gone'["groups"] \subseteq gone["groups"] /\ UNCHANGED refilled
  BY <1>0, StoredIs DEF OthersStay, Store
<1>4. \A g \in Id : Exists("groups", g) => Exists("groups", g)'
  BY <1>1, <1>2, <1>3 DEF Exists
<1>5. QED
  BY <1>3, <1>4, MonitorsStay, RouteGroups

LEMMA GroupGroups ==
  ASSUME Fine, GroupsFine, NEW c \in Call, Route(c), call[c].page = "groups"
  PROVE  GroupsFine'
<1>0. {"monitors", "groups"} \subseteq Key
  BY DEF Key
<1>1. CASE Rests(c) /\ ~UngroupMonitors(c)
  BY <1>1, MonitorsStay, GroupsStay, RouteGroups DEF Rests
<1>2. CASE GroupRoutes(c)
  <2>1. CASE UngroupMonitors(c)
    BY <2>1, UngroupGroups
  <2>2. CASE DeleteGroup(c)
    <3>1. ~Wrote(call[c]) /\ ~UngroupMonitors(c)
      BY <2>2, HalfIs DEF DeleteGroup, Wrote, UngroupMonitors, Serves
    <3>2. QED
      BY <1>1, <2>2, <3>1, DeleteGroups, Refused DEF DeleteGroup
  <2>3. CASE PostGroup(c)
    <3>1. ~Wrote(call[c]) /\ ~UngroupMonitors(c)
      BY <2>3, ServedIs DEF PostGroup, UngroupMonitors, Serves
    <3>2. call[c].form \in RowOf("groups")
      BY <2>3, ServedFine, GroupForm DEF PostGroup, Valid
    <3>3. QED
      BY <1>1, <2>3, <3>1, <3>2, GroupStored, Refused DEF PostGroup, Insert, Stores
  <2>4. CASE ReadGroup(c)
    <3>1. ~Wrote(call[c]) /\ ~UngroupMonitors(c)
      BY <2>4, ServedIs DEF ReadGroup, Read, UngroupMonitors, Serves
    <3>2. QED
      BY <1>1, <2>4, <3>1, Refused, Reads DEF ReadGroup, Read
  <2>5. CASE SaveGroup(c)
    <3>1. ~Wrote(call[c]) /\ ~UngroupMonitors(c) /\ call[c].id \in Id
      BY <1>0, <2>5, HasReadIs DEF SaveGroup, UngroupMonitors, Serves
    <3>2. call[c].form \in RowOf("groups")
      BY <1>0, <2>5, ReadFine, GroupForm DEF SaveGroup, Valid
    <3>3. QED
      BY <1>1, <2>5, <3>1, <3>2, GroupStored, Refused DEF SaveGroup, Save, Stores
  <2>6. QED
    BY <1>2, <2>1, <2>2, <2>3, <2>4, <2>5 DEF GroupRoutes
<1>3. GroupRoutes(c)
  <2>1. ~PageRoutes(c)
    BY PageMoves
  <2>2. ~MonitorRoutes(c) /\ ~ChannelRoutes(c) /\ ~IncidentRoutes(c)
    BY DEF MonitorRoutes, PostMonitor, ReadMonitor, SaveMonitor, DeleteMonitor,
       ChannelRoutes, PostChannel, ReadChannel, SaveChannel, DeleteChannel,
       IncidentRoutes, PostIncident, ResolveIncident, Serves, Read, HasRead
  <2>3. QED
    BY <2>1, <2>2 DEF Route
<1>4. QED
  BY <1>2, <1>3

\* A check or heartbeat saves the monitor it has read.
LEMMA WorkerGroups ==
  ASSUME Fine, GroupsFine, NEW w \in Worker, WorkerStep(w)
  PROVE  GroupsFine'
<1>1. MonitorsMove /\ table'["groups"] = table["groups"] /\ gone'["groups"] = gone["groups"]
  <2>1. CASE UNCHANGED <<table, gone, refilled>>
    BY <2>1, MonitorsStay
  <2>2. CASE SaveHeld(w) /\ ~UNCHANGED <<table, gone, refilled>>
    <3> DEFINE i == held[w].id
               r == [held[w].row EXCEPT !.enabled = @ \/ ~Exists("monitors", i)]
    <3>1. /\ table' = [table EXCEPT !["monitors"][i] = r] /\ Refills(i, r)
          /\ gone' = [gone EXCEPT !["monitors"] = @ \ {i}]
      BY <2>2 DEF SaveHeld
    <3>2. i \in Id
      BY <2>2, ServerTyped DEF SaveHeld, HeldState
    <3> HIDE DEF r, i
    <3>3. /\ \A m \in Id \ {i} : m \in gone'["monitors"] <=> m \in gone["monitors"]
          /\ gone'["groups"] = gone["groups"]
      BY <3>1, ServerTyped DEF Key
    <3>4. QED
      BY <3>1, <3>2, <3>3, MonitorWritten
  <2>3. QED
    BY <2>1, <2>2 DEF WorkerStep, HoldRow
<1>2. Fine' /\ UNCHANGED call
  BY StepTyped DEF Next, WorkerStep
<1>3. QED
  BY <1>1, <1>2, GroupsStay, GroupsMove

LEMMA GroupsStep ==
  ASSUME Fine, GroupsFine, [Next]_vars
  PROVE  GroupsFine'
<1>1. ASSUME NEW c \in Call, Route(c) PROVE GroupsFine'
  BY <1>1, GroupGroups, OtherRoutesGroups
<1>2. ASSUME UNCHANGED <<table, gone, refilled>>, \A c \in Call : Waiting(c) \/ Kept(c)
      PROVE  GroupsFine'
  <2>1. \A d \in Call : call'[d].page = "groups" /\ call'[d].pc = "half" =>
          /\ call[d].page = "groups" /\ call[d].pc = "half" /\ call'[d].id = call[d].id
    BY <1>2 DEF Waiting, Kept
  <2>2. Fine'
    BY StepTyped
  <2>3. QED
    BY <1>2, <2>1, <2>2, MonitorsStay, GroupsStay, GroupsMove
<1>3. QED
  BY <1>1, <1>2, QuietSteps, WorkerGroups DEF Next

LEMMA GroupsInit == Init => GroupsFine
<1> SUFFICES ASSUME Init PROVE GroupsFine
  OBVIOUS
<1>1. \A c \in Call : call[c].pc = "unsent"
  BY DEF Init, Unsent
<1>2. PICK s \in Id : table = [k \in Key |-> [i \in Id |->
                          IF k \in Known(tour) /\ i = s THEN SeedRow(k, i) ELSE NoRow]]
  BY DEF Init
<1>3. ASSUME NEW m \in Id, Exists("monitors", m)
      PROVE  SafeGroup(table["monitors"][m].group)
  <2>1. m = s /\ table["monitors"][m] = SeedRow("monitors", s)
    BY <1>2, <1>3 DEF Exists, Key
  <2>2. table["monitors"][m].group = IF "groups" \in Known(tour) THEN s ELSE NoGroup
    BY <2>1 DEF SeedRow
  <2>3. CASE "groups" \in Known(tour)
    <3>1. SeedRow("groups", s) # NoRow
      BY SeedTyped, ConsoleAssumption DEF Key
    <3>2. Exists("groups", s)
      BY <1>2, <2>3, <3>1 DEF Exists, Init, Key
    <3>3. QED
      BY <2>2, <2>3, <3>2 DEF SafeGroup
  <2>4. CASE "groups" \notin Known(tour)
    BY <2>2, <2>4 DEF SafeGroup
  <2>5. QED
    BY <2>3, <2>4
<1>4. QED
  BY <1>1, <1>3 DEF GroupsFine, HalfFine, DeletedGroupIsEmpty, SafeGroup

-----------------------------------------------------------------------------
(* The inductive invariant, and what follows from it *)

Inductive == Fine /\ Copies /\ GroupsFine

LEMMA InvIs == Inductive <=> TypeOK /\ ConsoleInv /\ DeletedGroupIsEmpty
BY DEF Inductive, ConsoleInv, Fine, Copies, GroupsFine

LEMMA InductiveHolds == Spec => []Inductive
<1>1. Init => Inductive
  BY InitTyped, CopiesInit, GroupsInit DEF Inductive
<1>2. Inductive /\ [Next]_vars => Inductive'
  BY StepTyped, CopiesStep, GroupsStep DEF Inductive
<1>3. QED
  BY <1>1, <1>2, PTL DEF Spec

\* However many tabs, mutations, workers and faults there are, no copy of a list
\* in a tab is unaccounted for, and of the monitors in a group that is between the
\* two statements of its deletion none was left behind by the first: each came
\* back by a later write, or the first one failed (the queries and mutations of
\* Monitors.tsx:73-107, and monitor_group_repo.go:48-52).
THEOREM ConsoleCorrect == Spec => []ConsoleInv
BY InvIs, InductiveHolds, PTL

\* A tab in which no request and no mutation is under way shows every list as its
\* own mutations left it: no answer that was served before them and arrives
\* after them survives (onSuccess of the mutations, Monitors.tsx:91-107 and the
\* same lines of the other pages).
THEOREM ListsAreCurrent == Spec => []ListIsCurrent
<1>1. ASSUME Inductive PROVE ListIsCurrent
  <2> SUFFICES ASSUME NEW t \in Tab, NEW k \in Lists(tab[t].page) \ foreign[t],
                      cached[t][k] # NoList, fetch[t][k].state = "none",
                      \A c \in Call : call[c].tab = t => Answered(c)
               PROVE  cached[t][k] = Listed(k)
    BY DEF ListIsCurrent
  <2>1. tab[t].page \in AdminPages
    BY <1>1, TabTyped DEF Inductive
  <2>2. k \in Key
    BY <2>1 DEF AdminPages, Key, Lists
  <2>3. ~Unread(t, k)
    BY DEF Unread, Answered
  <2>4. QED
    BY <1>1, <2>2, <2>3 DEF Inductive, Copies, CopyFine
<1>2. QED
  BY <1>1, InductiveHolds, PTL

\* "Monitors in this group will be ungrouped" (MonitorGroups.tsx:94), for any
\* number of tabs, checks and heartbeats that write whole rows of monitors while
\* the two statements of the deletion run (monitor_group_repo.go:48-52): a monitor
\* in a deleted group came there after the group was emptied, by one of those
\* writes (monitor_service.go:72, scheduler.go:128, scheduler.go:234,
\* push_service.go:77), or emptying it failed unnoticed.
THEOREM DeletedGroupsAreEmpty == Spec => []DeletedGroupIsEmpty
BY InvIs, InductiveHolds, PTL

-----------------------------------------------------------------------------
(* Edits *)

\* Only its route answers a mutation with success.
LEMMA OkIsRoute ==
  ASSUME Fine, [Next]_vars, NEW c \in Call, call[c].pc # "ok", call'[c].pc = "ok"
  PROVE  Route(c)
<1>1. ~Waiting(c) /\ ~Kept(c)
  BY DEF Waiting, Kept
<1>2. ASSUME NEW d \in Call, Route(d) PROVE d = c
  BY <1>2, RouteCallIs DEF Called
<1>3. \A w \in Worker : ~WorkerStep(w)
  BY DEF WorkerStep
<1>4. QED
  BY <1>1, <1>2, <1>3, QuietSteps DEF Next

\* What the handler of an edit saves.
Saved(c, p) ==
  CASE p = "monitors" -> MonitorSaved(c)
    [] p = "groups" -> call[c].form
    [] p = "channels" -> [call[c].form EXCEPT !.enabled = Flag(c, @)]

\* An edit that succeeds has saved its row.
LEMMA EditWrites ==
  ASSUME Fine, [Next]_vars, NEW c \in Call, NEW p \in {"monitors", "groups", "channels"},
         EditSaved(c, p)
  PROVE  /\ p \in Key /\ call[c].id \in Id /\ call[c].page = p /\ call[c].pc = "read"
         /\ call[c].form \in FormsOf(p) /\ Valid(p, call[c].form)
         /\ p = "monitors" => call[c].read \in Id \cup {NoGroup}
         /\ table'[p][call[c].id] = Saved(c, p)
<1> DEFINE i == call[c].id
<1>1. /\ call[c].page = p /\ call[c].op = "put" /\ call'[c].pc = "ok" /\ Route(c)
      /\ p \in Key \ {"pages"}
  BY OkIsRoute DEF EditSaved, Key
<1>2. ~Refuse(c) /\ ~MayFail(c)
  BY <1>1, GotoIs DEF Refuse, MayFail
<1>3. \A x : call' # [call EXCEPT ![c].pc = "read", ![c].read = x]
  BY <1>1, CallTyped DEF Fine, TypeOK, CallState
<1>4. HasRead(c, p) /\ Save(c, Saved(c, p))
  <2>1. CASE MonitorRoutes(c)
    BY <1>1, <1>2, <1>3, <2>1 DEF MonitorRoutes, PostMonitor, ReadMonitor, SaveMonitor,
       DeleteMonitor, Serves, Read, HasRead, Saved
  <2>2. CASE GroupRoutes(c)
    <3>1. ~UngroupMonitors(c) /\ ~DeleteGroup(c) /\ ~PostGroup(c)
      BY <1>1, HalfIs DEF UngroupMonitors, DeleteGroup, PostGroup, Serves
    <3>2. QED
      BY <1>1, <1>2, <1>3, <2>2, <3>1 DEF GroupRoutes, ReadGroup, SaveGroup, Read, HasRead,
         Saved
  <2>3. CASE ChannelRoutes(c)
    BY <1>1, <1>2, <1>3, <2>3 DEF ChannelRoutes, PostChannel, ReadChannel, SaveChannel,
       DeleteChannel, Serves, Read, HasRead, Saved
  <2>4. CASE IncidentRoutes(c)
    BY <1>1, <2>4 DEF IncidentRoutes, PostIncident, ResolveIncident, Serves
  <2>5. CASE PageRoutes(c)
    BY <1>1, <2>5, PageMoves
  <2>6. QED
    BY <1>1, <2>1, <2>2, <2>3, <2>4, <2>5 DEF Route
<1>5. /\ i \in Id /\ call[c].form \in FormsOf(p) /\ Valid(p, call[c].form)
      /\ call[c].pc = "read" /\ (p = "monitors" => call[c].read \in Id \cup {NoGroup})
  BY <1>1, <1>4, ReadFine
<1>6. table'[p][i] = Saved(c, p)
  BY <1>1, <1>2, <1>4, <1>5, ServerTyped DEF Save, Store
<1>7. QED
  BY <1>1, <1>5, <1>6

\* The group a monitor is saved with.
SavedGroup(c) ==
  IF call[c].read # NoGroup THEN call[c].read ELSE GroupId(call[c].form.group)

\* What arrives of each column of the form in a row that is still there.
LEMMA EditColumns ==
  ASSUME Fine, [Next]_vars, NEW c \in Call, NEW p \in {"monitors", "groups", "channels"},
         EditSaved(c, p), Exists(p, call[c].id), NEW x \in DOMAIN table[p][call[c].id]
  PROVE  \/ /\ p # "monitors" \/ x # "group"
            /\ table'[p][call[c].id][x] = call[c].form[x]
         \/ /\ p = "monitors" /\ x = "group"
            /\ table'[p][call[c].id][x] = SavedGroup(c)
            /\ table[p][call[c].id].group \in Id \cup {NoGroup}
            /\ call[c].form.group \in Id \cup {Unset}
<1> DEFINE f == call[c].form
           r == table[p][call[c].id]
<1>1. /\ p \in Key /\ call[c].id \in Id /\ call[c].page = p
      /\ f \in FormsOf(p) /\ Valid(p, f) /\ table'[p][call[c].id] = Saved(c, p)
  BY EditWrites
<1>2. \A b \in BOOLEAN : Flag(c, b) = b
  BY <1>1 DEF Flag
<1>3. CASE p = "groups"
  BY <1>1, <1>3 DEF Saved
<1>4. CASE p = "channels"
  <2>1. f \in ChannelForms
    BY <1>1, <1>4 DEF FormsOf
  <2>2. f.enabled \in BOOLEAN /\ [f EXCEPT !.enabled = f.enabled] = f
    BY <2>1 DEF ChannelForms
  <2>3. Saved(c, p) = [f EXCEPT !.enabled = Flag(c, f.enabled)]
    BY <1>4 DEF Saved
  <2>4. QED
    BY <1>1, <1>2, <1>4, <2>2, <2>3
<1>5. CASE p = "monitors"
  <2>1. r \in RowOf("monitors")
    BY <1>1, <1>5, ServerTyped DEF Exists
  <2>2. f \in MonitorForms /\ f.group \in Id \cup {Unset}
    BY <1>1, <1>5, MonitorForm DEF Valid
  <2>3. r.group \in Id \cup {NoGroup} /\ DOMAIN r = {"name", "target", "group", "enabled"}
    BY <2>1 DEF RowOf
  <2>4. f.enabled \in BOOLEAN /\ DOMAIN f = {"name", "target", "group", "enabled"}
    BY <2>2 DEF MonitorForms
  <2>5. Saved(c, p) = [f EXCEPT !.group = SavedGroup(c), !.enabled = Flag(c, f.enabled)]
    BY <1>5 DEF Saved, MonitorSaved, SavedGroup
  <2>6. Flag(c, f.enabled) = f.enabled
    BY <1>2, <2>4
  <2>7. QED
    BY <1>1, <1>5, <2>2, <2>3, <2>4, <2>5, <2>6
<1>6. QED
  BY <1>3, <1>4, <1>5

\* An edit saves nothing over a row but what was typed into its dialog, whatever
\* else happens between opening and saving it, as long as the row is still the
\* one the dialog was filled from (Monitors.tsx:131-148, monitor_service.go:45-73
\* and the same lines of groups and channels).
THEOREM EditsKeepTheRest == Spec => EditKeepsTheRest
<1>1. ASSUME Fine, [Next]_vars, NEW c \in Call,
             NEW p \in {"monitors", "groups", "channels"},
             EditSaved(c, p), StillAsShown(c)
      PROVE  KeepsUntouched(c)
  <2> DEFINE r == table[p][call[c].id]
             f == call[c].form
  <2>1. call[c].page = p /\ call[c].id \in Id /\ Exists(p, call[c].id)
    BY <1>1, EditWrites DEF EditSaved, StillAsShown
  <2>2. r = call[c].base
    BY <1>1, <2>1 DEF StillAsShown, Listed
  <2>3. FormOf(p, call[c].base) = r
    BY <2>2 DEF FormOf, FormOfMonitor, FormOfGroup, FormOfChannel
  <2>4. ASSUME NEW x \in Untouched(c) PROVE table'[p][call[c].id][x] = r[x]
    <3>1. x \in DOMAIN r /\ f[x] = r[x]
      BY <2>1, <2>3, <2>4 DEF Untouched
    <3>2. CASE table'[p][call[c].id][x] = f[x]
      BY <3>1, <3>2
    <3>3. CASE /\ p = "monitors" /\ x = "group" /\ table'[p][call[c].id][x] = SavedGroup(c)
               /\ f.group \in Id \cup {Unset} /\ r.group \in Id \cup {NoGroup}
      <4>1. f.group \in Id /\ r.group = f.group
        BY <3>1, <3>3, AdminAssumption
      <4>2. call[c].read \in {NoGroup, r.group}
        BY <1>1, <2>1, <3>3 DEF StillAsShown, Preloaded
      <4>3. QED
        BY <3>3, <4>1, <4>2, AdminAssumption DEF SavedGroup, GroupId
    <3>4. QED
      BY <1>1, <2>1, <3>1, <3>2, <3>3, EditColumns
  <2>5. QED
    BY <2>1, <2>4 DEF KeepsUntouched
<1>2. Fine /\ [Next]_vars =>
        [\A c \in Call, p \in {"monitors", "groups", "channels"} :
           EditSaved(c, p) /\ StillAsShown(c) => KeepsUntouched(c)]_vars
  BY <1>1
<1>3. QED
  BY <1>2, FineHolds, PTL DEF Spec, EditKeepsTheRest

\* Every column that was typed in arrives in the row, if it is still there, except
\* that no form moves a monitor out of a group its handler found it in (Save on
\* the row read with its Group, monitor_service.go:45-73).
THEOREM EditsArrive == Spec => EditArrives
<1> DEFINE A(c, p) ==
      EditSaved(c, p) /\ Exists(p, call[c].id) =>
        LET old == table[p][call[c].id]
            new == table'[p][call[c].id]
        IN  \A x \in DOMAIN old \ Untouched(c) :
              \/ new[x] = call[c].form[x]
              \/ call[c].form[x] = Unset /\ new[x] = NoGroup
              \/ p = "monitors" /\ x = "group" /\ call[c].read # NoGroup
<1>1. ASSUME Fine, [Next]_vars, NEW c \in Call,
             NEW p \in {"monitors", "groups", "channels"}
      PROVE  A(c, p)
  <2> SUFFICES ASSUME EditSaved(c, p), Exists(p, call[c].id),
                      NEW x \in DOMAIN table[p][call[c].id]
               PROVE  \/ table'[p][call[c].id][x] = call[c].form[x]
                      \/ call[c].form[x] = Unset /\ table'[p][call[c].id][x] = NoGroup
                      \/ p = "monitors" /\ x = "group" /\ call[c].read # NoGroup
    OBVIOUS
  <2>1. QED
    BY <1>1, EditColumns DEF SavedGroup, GroupId
<1>2. Fine /\ [Next]_vars =>
        [\A c \in Call, p \in {"monitors", "groups", "channels"} : A(c, p)]_vars
  BY <1>1
<1>3. QED
  BY <1>2, FineHolds, PTL DEF Spec, EditArrives
=============================================================================
