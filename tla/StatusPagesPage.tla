-------------------------- MODULE StatusPagesPage --------------------------
(* The status pages page and its routes.  `title' stands for the fields that *)
(* are copied as they are; no slug "" passes the schema.                     *)
EXTENDS AdminPage

Slug == {"", "s1", "s2"}

PageForms == [title : Text, slug : Slug, monitors : SUBSET Id]

BlankPage == [title |-> "", slug |-> "", monitors |-> {}]

\* The list route does not load the monitors of a page.
ListedPages ==
  [i \in Id |-> IF Exists("pages", i)
                THEN [title |-> table["pages"][i].title, slug |-> table["pages"][i].slug,
                      public |-> table["pages"][i].public]
                ELSE NoRow]

\* handleOpen(page): without monitors in the list entry none are selected.
FormOfPage(r) == [title |-> r.title, slug |-> r.slug, monitors |-> {}]

ValidPage(f) == f.title # "" /\ f.slug # ""

\* The valid forms: the select offers the monitors of the list.
FilledPage(t, f) ==
  {g \in PageForms : /\ ValidPage(g) /\ g.title \in {f.title, "b"}
                     /\ \A m \in g.monitors :
                          cached[t]["monitors"] # NoList /\ cached[t]["monitors"][m] # NoRow}

PagesPageStep(t) ==
  LET start == IF tab[t].base = NoRow THEN BlankPage ELSE FormOfPage(tab[t].base)
  IN  \/ OpenNew(t, "pages", BlankPage)
      \/ \E i \in Id : OpenEdit(t, "pages", i, FormOfPage(cached[t]["pages"][i]))
      \/ Fill(t, "pages", start, FilledPage(t, start))
      \/ \E c \in Call : Submit(t, c, "pages", ValidPage(tab[t].form))
      \/ \E c \in Call, i \in Id : PressRow(t, c, "pages", "delete", i)

-----------------------------------------------------------------------------
\* The unique index on slug knows the deleted rows too.
SlugTaken(s, i) == \E j \in Id \ {i} : table["pages"][j] # NoRow /\ table["pages"][j].slug = s

\* The monitors of a request that are there.
KnownMonitors(ms) == {m \in ms : Exists("monitors", m)}

PageWritten(c, i, row, pc) ==
  /\ table' = [table EXCEPT !["pages"][i] = row]
  /\ Written(c, {"pages"})
  /\ call' = [call EXCEPT ![c].pc = pc, ![c].id = i]
  /\ UNCHANGED refilled

\* Create.  The column default makes a page public.
PostPage(c) ==
  /\ Serves(c, "pages", "post")
  /\ LET f == call[c].form
     IN  \/ SlugTaken(f.slug, NoId) /\ Refuse(c)
         \/ /\ ~SlugTaken(f.slug, NoId)
            /\ \E i \in Id :
                 /\ table["pages"][i] = NoRow
                 /\ PageWritten(c, i, [title |-> f.title, slug |-> f.slug, public |-> TRUE,
                                       monitors |-> {}],
                                IF f.monitors = {} THEN "ok" ELSE "created")
            /\ UNCHANGED gone
         \/ MayFail(c)

\* UpdateStatusPage fails: Create ignores its error, Update answers with it.
GiveUp(c) ==
  /\ Goto(c, IF call[c].op = "post" THEN "ok" ELSE "failed")
  /\ UNCHANGED <<table, gone, foreign, refilled>>

\* UpdateStatusPage, for a PUT and, if there are monitors, at the end of a POST:
\* the page is read, and the monitors of the request as far as they are there.
ReadStatusPage(c) ==
  /\ call[c].page = "pages"
  /\ \/ call[c].pc = "sent" /\ call[c].op = "put"
     \/ call[c].pc = "created"
  /\ \/ /\ Exists("pages", call[c].id)
        /\ call' = [call EXCEPT ![c].pc = "read",
                                ![c].read = KnownMonitors(call[c].form.monitors)]
        /\ UNCHANGED <<table, gone, foreign, refilled>>
     \/ ~Exists("pages", call[c].id) /\ GiveUp(c)
     \/ "db" \in tour.faults /\ GiveUp(c)

\* Update of the repository, first statement: these monitors replace those of
\* the page.  The console always sends a list.
ReplaceMonitors(c) ==
  /\ HasRead(c, "pages")
  /\ \/ /\ PageWritten(c, call[c].id,
             [table["pages"][call[c].id] EXCEPT !.monitors = call[c].read], "half")
        /\ UNCHANGED gone
     \/ "db" \in tour.faults /\ GiveUp(c)

\* Second statement: Save.  `public' is no field of the form: true in what a POST
\* has created, false in what a PUT sends.  A page that was deleted meanwhile
\* comes back, with the default for the false `public'.
SavePage(c) ==
  /\ call[c].pc = "half" /\ call[c].page = "pages"
  /\ LET f == call[c].form
         i == call[c].id
     IN  \/ SlugTaken(f.slug, i) /\ GiveUp(c)
         \/ /\ ~SlugTaken(f.slug, i)
            /\ PageWritten(c, i, [title |-> f.title, slug |-> f.slug,
                                  public |-> Flag(c, call[c].op = "post"),
                                  monitors |-> table["pages"][i].monitors \cup call[c].read],
                           "ok")
            /\ gone' = [gone EXCEPT !["pages"] = @ \ {i}]
         \/ "half" \in tour.faults /\ GiveUp(c)

DeletePage(c) ==
  /\ Serves(c, "pages", "delete")
  /\ SoftDelete(c) \/ MayFail(c)

PageRoutes(c) ==
  PostPage(c) \/ ReadStatusPage(c) \/ ReplaceMonitors(c) \/ SavePage(c) \/ DeletePage(c)
=============================================================================
