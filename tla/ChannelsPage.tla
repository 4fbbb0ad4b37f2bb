---------------------------- MODULE ChannelsPage ----------------------------
(* The notification channels page and its routes.                            *)
EXTENDS AdminPage

\* "bad" stands for a config that is no JSON.
ChannelForms == [name : Text, type : {"webhook", "email"}, config : {"", "json", "bad"},
                 enabled : BOOLEAN]

BlankChannel == [name |-> "", type |-> "webhook", config |-> "json", enabled |-> TRUE]

\* Variant: the config is not parsed.
ValidChannelAny(f) == f.name # "" /\ f.config # ""

\* handleOpen(channel), and what the schema asks for.
FormOfChannel(r) == r
ValidChannel(f) == f.name # "" /\ f.config = "json"

\* The valid forms: the dialog has no switch for `enabled'.
FilledChannel(f) == {g \in ChannelForms : ValidChannel(g) /\ g.enabled = f.enabled}

ChannelsPageStep(t) ==
  LET start == IF tab[t].base = NoRow THEN BlankChannel ELSE FormOfChannel(tab[t].base)
  IN  \/ OpenNew(t, "channels", BlankChannel)
      \/ \E i \in Id : OpenEdit(t, "channels", i, FormOfChannel(cached[t]["channels"][i]))
      \/ Fill(t, "channels", start, FilledChannel(start))
      \/ \E c \in Call : Submit(t, c, "channels", ValidChannel(tab[t].form))
      \/ \E c \in Call, i \in Id : PressRow(t, c, "channels", "delete", i)

-----------------------------------------------------------------------------
PostChannel(c) ==
  /\ Serves(c, "channels", "post")
  /\ Insert(c, call[c].form) \/ MayFail(c)

ReadChannel(c) == Read(c, "channels", {})

SaveChannel(c) ==
  /\ HasRead(c, "channels")
  /\ Save(c, [call[c].form EXCEPT !.enabled = Flag(c, @)])

DeleteChannel(c) ==
  /\ Serves(c, "channels", "delete")
  /\ SoftDelete(c) \/ MayFail(c)

ChannelRoutes(c) ==
  PostChannel(c) \/ ReadChannel(c) \/ SaveChannel(c) \/ DeleteChannel(c)
=============================================================================
