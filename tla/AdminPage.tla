----------------------------- MODULE AdminPage -----------------------------
(***************************************************************************)
(* What the pages of the dashboard have in common: a list kept by React    *)
(* Query, a dialog with a form, and mutations whose answers invalidate the *)
(* list and close the dialog.  The module also holds the tables behind     *)
(* them.  The modules that extend it are the pages with their routes.      *)
(*                                                                         *)
(* A request that changes a row reads it and saves it in two steps, one    *)
(* that writes two tables takes a step for each.  Beside the requests the  *)
(* checks and heartbeats write whole rows of the monitors table.           *)
(***************************************************************************)
EXTENDS FiniteSets

CONSTANTS
  Id,       \* bound: ids of each table; they are never used twice
  Tab,      \* browser tabs, of one or several operators
  Call,     \* bound: the mutations that are ever sent
  Worker,   \* bound: the checks and heartbeats that are under way at once
  Tours,    \* bound: the pages that are visited together, and what may happen
            \* then: the first statement of a handler fails ("db"), its second or
            \* one whose error it ignores ("half"), requests or answers get lost
            \* ("net"), checks and heartbeats run ("checks")
  NoId, NoRow, NoForm, NoList,
  NoGroup,  \* a nil group_id, null in JSON
  Unset     \* undefined in a form: the field is not sent

ASSUME AdminAssumption ==
  /\ \A x \in Tours : x.faults \subseteq {"db", "half", "net", "checks"}
  /\ {NoId, NoGroup, Unset} \cap Id = {}
  /\ NoId # NoGroup /\ NoId # Unset /\ NoGroup # Unset

VARIABLES
  table,    \* [Key -> [Id -> row or NoRow]]: soft-deleted rows too
  gone,     \* [Key -> SUBSET Id]: the ids with a deleted_at
  call,     \* [Call -> a mutation and how far it is]: `here' while the page it was
            \* sent from is on the screen, `read' what its handler has in hand
  held,     \* [Worker -> the row of a monitor that a check or heartbeat has read]
  tab,      \* [Tab -> the page on the screen and its dialog]
  cached,   \* [Tab -> [Key -> the list in the query cache, or NoList]]
  fetch,    \* [Tab -> [Key -> the request for the list that is in flight]]
  foreign,  \* ghost: [Tab -> SUBSET Key], see Written
  refilled, \* ghost: groups, see Refills
  tour      \* the tour of this behaviour; never changes

vars == <<table, gone, call, held, tab, cached, fetch, foreign, refilled, tour>>

server == <<table, gone, call, held, refilled>>
queries == <<cached, fetch, foreign>>

Key == {"monitors", "groups", "pages", "channels", "incidents"}

AdminPages == Key \cup {"dashboard"}

\* The lists a page mounts; each page is named by the list its forms change.
Lists(p) ==
  CASE p = "dashboard" -> {"monitors"}
    [] p = "monitors" -> {"monitors", "groups"}
    [] p = "pages" -> {"pages", "monitors"}
    [] OTHER -> {p}

Exists(k, i) == table[k][i] # NoRow /\ i \notin gone[k]

\* What a form's text fields hold; "" is an empty one.
Text == {"", "a", "b"}

NotFetching == [state |-> "none", rows |-> NoList]
Asked == [state |-> "asked", rows |-> NoList]

Closed(p) == [page |-> p, open |-> FALSE, id |-> NoId, form |-> NoForm, base |-> NoRow]

Unsent == [pc |-> "unsent", tab |-> NoId, here |-> FALSE, page |-> "dashboard",
           op |-> "post", id |-> NoId, form |-> NoForm, base |-> NoRow, read |-> {}]

NothingHeld == [id |-> NoId, row |-> NoRow]

-----------------------------------------------------------------------------
(* Queries *)

\* Variant: a refetch joins the request that is already in flight.
RefetchedJoining(t, k) ==
  fetch' = [fetch EXCEPT ![t][k] = IF @.state = "none" THEN Asked ELSE @]

\* A refetch of an active list cancels the request that is in flight.
Refetched(t, k) == fetch' = [fetch EXCEPT ![t][k] = Asked]

\* invalidateQueries: an inactive list is only marked, and a list that never
\* arrived goes on waiting for the request in flight.
Invalidates(t, k) ==
  k \in Lists(tab[t].page) /\ (cached[t][k] # NoList \/ fetch[t][k].state = "none")

\* The list request is served; Listed(k) is what the route returns.
Serve(t, k, rows) ==
  /\ fetch[t][k].state = "asked"
  /\ fetch' = [fetch EXCEPT ![t][k] = [state |-> "served", rows |-> rows]]
  /\ foreign' = [foreign EXCEPT ![t] = @ \ {k}]
  /\ UNCHANGED <<server, tab, cached, tour>>

Deliver(t, k) ==
  /\ fetch[t][k].state = "served"
  /\ cached' = [cached EXCEPT ![t][k] = fetch[t][k].rows]
  /\ fetch' = [fetch EXCEPT ![t][k] = NotFetching]
  /\ UNCHANGED <<server, tab, foreign, tour>>

\* All attempts failed: the old list stays.
LoseFetch(t, k) ==
  /\ "net" \in tour.faults /\ fetch[t][k].state # "none"
  /\ fetch' = [fetch EXCEPT ![t][k] = NotFetching]
  /\ foreign' = [foreign EXCEPT ![t] = @ \cup {k}]
  /\ UNCHANGED <<server, tab, cached, tour>>

\* The window gets the focus, or the dashboard's 30 seconds are over.
Refresh(t, k) ==
  /\ k \in Lists(tab[t].page) /\ fetch[t][k].state = "none"
  /\ fetch' = [fetch EXCEPT ![t][k] = Asked]
  /\ UNCHANGED <<server, tab, cached, foreign, tour>>

\* A page mounts: lists without a request in flight are asked for, whatever the
\* cache holds.  Mutations of the page that is left have lost their dialog.
Visit(t, p) ==
  /\ p \in tour.pages /\ p # tab[t].page
  /\ tab' = [tab EXCEPT ![t] = Closed(p)]
  /\ fetch' = [fetch EXCEPT ![t] = [k \in Key |->
                 IF k \in Lists(p) /\ fetch[t][k].state = "none" THEN Asked
                 ELSE fetch[t][k]]]
  /\ call' = [c \in Call |-> IF call[c].tab = t THEN [call[c] EXCEPT !.here = FALSE]
                             ELSE call[c]]
  /\ UNCHANGED <<table, gone, held, cached, foreign, refilled, tour>>

-----------------------------------------------------------------------------
(* The dialog.  A page that has no list yet shows a loader instead.  Bound:  *)
(* dialogs are opened and filled in while there are mutations left to send.  *)

CallsLeft == \E c \in Call : call[c].pc = "unsent"

Shows(t, p) ==
  tab[t].page = p /\ (cached[t][p] # NoList \/ fetch[t][p].state = "none")

RowShown(t, p, i) == cached[t][p] # NoList /\ cached[t][p][i] # NoRow

OpenNew(t, p, blank) ==
  /\ CallsLeft /\ Shows(t, p) /\ ~tab[t].open
  /\ tab' = [tab EXCEPT ![t].open = TRUE, ![t].form = blank]
  /\ UNCHANGED <<server, queries, tour>>

OpenEdit(t, p, i, form) ==
  /\ CallsLeft /\ Shows(t, p) /\ ~tab[t].open /\ RowShown(t, p, i)
  /\ tab' = [tab EXCEPT ![t] = [page |-> p, open |-> TRUE, id |-> i, form |-> form,
                                base |-> cached[t][p][i]]]
  /\ UNCHANGED <<server, queries, tour>>

\* Bound: a dialog is filled in once, a new row completely, an existing one in
\* one field.
Fill(t, p, start, forms) ==
  /\ CallsLeft /\ Shows(t, p) /\ tab[t].open /\ tab[t].form = start
  /\ \E f \in forms \ {start} :
       /\ tab[t].id # NoId => Cardinality({x \in DOMAIN f : f[x] # start[x]}) = 1
       /\ tab' = [tab EXCEPT ![t].form = f]
  /\ UNCHANGED <<server, queries, tour>>

CloseDialog(t) ==
  /\ tab[t].open
  /\ tab' = [tab EXCEPT ![t] = Closed(tab[t].page)]
  /\ UNCHANGED <<server, queries, tour>>

\* mutate().  The buttons stay enabled while a mutation is under way.
Send(t, c, p, op, i, form, base) ==
  /\ call[c].pc = "unsent"
  /\ call' = [call EXCEPT ![c] = [pc |-> "sent", tab |-> t, here |-> TRUE, page |-> p,
                                  op |-> op, id |-> i, form |-> form, base |-> base,
                                  read |-> {}]]
  /\ UNCHANGED <<table, gone, held, tab, queries, refilled, tour>>

Submit(t, c, p, valid) ==
  /\ Shows(t, p) /\ tab[t].open /\ valid
  /\ Send(t, c, p, IF tab[t].id = NoId THEN "post" ELSE "put",
          tab[t].id, tab[t].form, tab[t].base)

\* The button of a row, confirmed: "delete", or "resolve" for an incident.
PressRow(t, c, p, op, i) ==
  /\ Shows(t, p) /\ ~tab[t].open /\ RowShown(t, p, i)
  /\ Send(t, c, p, op, i, NoForm, cached[t][p][i])

-----------------------------------------------------------------------------
(* Answers *)

\* Nobody looks at the mutation any more.
Answer(c) == call' = [call EXCEPT ![c] = [Unsent EXCEPT !.pc = "answered"]]

\* onSuccess: the list is invalidated, and handleClose closes whatever dialog
\* the page shows by now.
Succeed(c) ==
  LET t == call[c].tab
      k == call[c].page
  IN  /\ call[c].pc = "ok"
      /\ Answer(c)
      /\ tab' = IF call[c].here /\ call[c].op \in {"post", "put"}
                THEN [tab EXCEPT ![t] = Closed(tab[t].page)] ELSE tab
      /\ \/ Invalidates(t, k) /\ Refetched(t, k) /\ UNCHANGED foreign
         \/ /\ ~Invalidates(t, k)
            /\ foreign' = [foreign EXCEPT ![t] = @ \cup {k}]
            /\ UNCHANGED fetch
      /\ UNCHANGED <<table, gone, held, cached, refilled, tour>>

\* There is no onError: the dialog stays as it is.
Fail(c) ==
  /\ call[c].pc = "failed"
  /\ Answer(c)
  /\ UNCHANGED <<table, gone, held, tab, queries, refilled, tour>>

\* The answer gets lost.
LoseAnswer(c) ==
  /\ "net" \in tour.faults /\ call[c].pc \in {"ok", "failed"}
  /\ Answer(c)
  /\ foreign' = [foreign EXCEPT ![call[c].tab] = @ \cup {call[c].page}]
  /\ UNCHANGED <<table, gone, held, tab, cached, fetch, refilled, tour>>

-----------------------------------------------------------------------------
(* Routes *)

(***************************************************************************)
(* The ghosts; no action reads them.  foreign[t] are the lists that        *)
(* changed since tab t last read them, other than by a mutation of its own *)
(* that is going to invalidate them.  `refilled' are the groups that a     *)
(* monitor entered, or stayed in, since they were last emptied.            *)
(***************************************************************************)
Written(c, ks) ==
  foreign' = [t \in Tab |-> foreign[t] \cup
                (IF t = call[c].tab THEN ks \ {call[c].page} ELSE ks)]

Refills(m, row) ==
  refilled' = refilled \cup
    IF Exists("monitors", m) /\ table["monitors"][m].group = row.group THEN {}
    ELSE {row.group} \ {NoGroup}

Serves(c, p, op) == call[c].pc = "sent" /\ call[c].page = p /\ call[c].op = op

Goto(c, pc) == call' = [call EXCEPT ![c].pc = pc]

Refuse(c) == Goto(c, "failed") /\ UNCHANGED <<table, gone, foreign, refilled>>

\* The first statement fails, and nothing was done yet.
MayFail(c) == "db" \in tour.faults /\ Refuse(c)

\* The second statement fails, and the first stays done.
HalfMayFail(c) == "half" \in tour.faults /\ Refuse(c)

\* One row is written and the request answered.
Store(c, i, row) ==
  /\ table' = [table EXCEPT ![call[c].page][i] = row]
  /\ Written(c, {call[c].page})
  /\ IF call[c].page = "monitors" THEN Refills(i, row) ELSE UNCHANGED refilled
  /\ Goto(c, "ok")

\* The next id of the sequence.
Insert(c, row) ==
  /\ \E i \in Id : table[call[c].page][i] = NoRow /\ Store(c, i, row)
  /\ UNCHANGED gone

\* The handler of a PUT reads the row, or answers that there is none; x is what
\* it keeps of the row.
Read(c, p, x) ==
  /\ Serves(c, p, "put")
  /\ \/ /\ Exists(p, call[c].id)
        /\ call' = [call EXCEPT ![c].pc = "read", ![c].read = x]
        /\ UNCHANGED <<table, gone, foreign, refilled>>
     \/ ~Exists(p, call[c].id) /\ Refuse(c)
     \/ MayFail(c)

HasRead(c, p) == call[c].pc = "read" /\ call[c].page = p

\* gorm's Save of all columns.  A row that was deleted meanwhile comes back.
Save(c, row) ==
  \/ /\ Store(c, call[c].id, row)
     /\ gone' = [gone EXCEPT ![call[c].page] = @ \ {call[c].id}]
  \/ MayFail(c)

\* A zero value is replaced by the default true where a row comes back.
Flag(c, b) == b \/ ~Exists(call[c].page, call[c].id)

\* Deleting a row that is not there is no error.
SoftDelete(c) ==
  /\ gone' = [gone EXCEPT ![call[c].page] = @ \cup
                {i \in {call[c].id} : Exists(call[c].page, i)}]
  /\ IF Exists(call[c].page, call[c].id) THEN Written(c, {call[c].page})
     ELSE UNCHANGED foreign
  /\ Goto(c, "ok")
  /\ UNCHANGED <<table, refilled>>
=============================================================================
