----------------------------- MODULE TemplatePanel -----------------------------
(***************************************************************************)
(* The saved prompt templates of a chat page: the template panel of        *)
(* src/src/lib/vanilla.js over the templates the server keeps for the user *)
(* (ChatStore).  A template gives the composer its text and the chat its   *)
(* persona; a page without a chat holds the persona until the first        *)
(* question makes one.  The answer to a question is in AppChatPage: a      *)
(* question is over here when its chat is ready for it.                    *)
(***************************************************************************)
EXTENDS PageRequests

VARIABLES
    templates,  \* the state of the panel
    shelf       \* server: the templates, and the persona of each chat

templateVars == <<templates, shelf>>

NoPersona == "none"
Personas == {NoPersona, "persona"}

\* An empty text is refused.  The search finds one of the others.
Texts == {"", "found", "other"}
Searches == {"", "found"}
ImportedTexts == {<<"found", "other">>, <<"found", "">>}

Finds(query, t) == query \in {"", t.text}

(***************************************************************************)
(* Rows stay until the next list is asked for; each answer adds its own.   *)
(* chat is 0 while the page has none.                                      *)
(***************************************************************************)
OpenedTemplates ==
    [open |-> FALSE, query |-> "", rows |-> <<>>, error |-> FALSE, input |-> "",
     chat |-> 0, sending |-> FALSE, pending |-> NoPersona, pill |-> FALSE]

EmptyShelf == [templates |-> <<>>, last |-> 0, personas |-> <<>>]

TemplateWish == [id |-> 0, texts |-> <<>>, persona |-> NoPersona, chat |-> 0, list |-> <<>>]

(***************************************************************************)
(* The server.                                                             *)
(***************************************************************************)
Places(s, id) == {i \in DOMAIN s.templates : s.templates[i].id = id}

\* One text takes the place of the template with its id; a new one goes behind.
Upserted(s, id, text, persona) ==
    IF Places(s, id) # {}
    THEN [s EXCEPT !.templates = [t \in DOMAIN @ |-> IF t \in Places(s, id) THEN [@[t] EXCEPT !.text = text, !.persona = persona] ELSE @[t]]]
    ELSE [s EXCEPT !.last = @ + 1, !.templates = Append(@, [id |-> s.last + 1, text |-> text, persona |-> persona])]

\* No template has the id 0, with which texts are saved or imported: they go behind, in order.
Imported(s, texts, persona) ==
    [s EXCEPT !.last = @ + Len(texts),
              !.templates = @ \o [i \in DOMAIN texts |-> [id |-> s.last + i, text |-> texts[i], persona |-> persona]]]

ServeTemplates ==
    \E r \in net :
        LET arg == r.arg
        IN  /\ r.state = "sent"
            /\ \/ /\ r.op = "templates" /\ Answered(r, [arg EXCEPT !.list = shelf.templates]) /\ UNCHANGED shelf
               \/ /\ r.op = "keep" /\ "" \notin ToSet(arg.texts)
                  /\ shelf' = IF arg.id = 0 THEN Imported(shelf, arg.texts, arg.persona)
                                            ELSE Upserted(shelf, arg.id, arg.texts[1], arg.persona)
                  /\ Answered(r, arg)
               \/ /\ r.op = "discard" /\ Places(shelf, arg.id) # {}
                  /\ shelf' = [shelf EXCEPT !.templates = Taken(@, DOMAIN @ \ Places(shelf, arg.id))]
                  /\ Answered(r, arg)
               \/ /\ r.op = "use"
                  /\ \E i \in Places(shelf, arg.id) : Answered(r, [arg EXCEPT !.list = <<shelf.templates[i]>>])
                  /\ UNCHANGED shelf
               \/ /\ \/ r.op = "keep" /\ "" \in ToSet(arg.texts)
                     \/ r.op \in {"discard", "use"} /\ Places(shelf, arg.id) = {}
                  /\ Refused(r) /\ UNCHANGED shelf
               \/ /\ r.op = "newchat" /\ shelf' = [shelf EXCEPT !.personas = Append(@, NoPersona)]
                  /\ Answered(r, [arg EXCEPT !.chat = Len(shelf.personas) + 1])
               \/ /\ r.op \in {"persona", "pending"}
                  /\ shelf' = [shelf EXCEPT !.personas[arg.chat] = arg.persona]
                  /\ Answered(r, arg)
            /\ UNCHANGED <<templates, task, clicks, faults>>

(***************************************************************************)
(* renderTemplates(): the rows go when the list is asked for.              *)
(***************************************************************************)
ListAsks == <<Ask("templates", TRUE, TemplateWish)>>
Rendering(p) == [p EXCEPT !.rows = <<>>]

ToggleTemplates ==
    /\ templates' = IF templates.open THEN [templates EXCEPT !.open = FALSE] ELSE [Rendering(templates) EXCEPT !.open = TRUE]
    /\ Click("panel", IF templates.open THEN <<>> ELSE ListAsks)
    /\ UNCHANGED shelf

SearchTemplates ==
    \E query \in Searches \ {templates.query} :
        /\ templates.open
        /\ templates' = [Rendering(templates) EXCEPT !.query = query]
        /\ Click("search", ListAsks)
        /\ UNCHANGED shelf

(* The search in the field now picks the rows, not that of the request. *)
Shown(p, list) == Taken(list, {i \in DOMAIN list : Finds(p.query, list[i])})

TemplatesBack ==
    \E r \in Back("templates") :
        /\ templates' = IF r.state = "failed" THEN [templates EXCEPT !.error = TRUE]
                        ELSE [templates EXCEPT !.rows = @ \o Shown(templates, r.got.list)]
        /\ React({r}, <<>>)
        /\ UNCHANGED shelf

(***************************************************************************)
(* Writes.  The questions a click asks the user are part of the click.     *)
(***************************************************************************)
SaveTemplate ==
    \E persona \in Personas :
        /\ templates.open /\ templates.input # ""
        /\ Click("save", <<Ask("keep", FALSE, [TemplateWish EXCEPT !.texts = <<templates.input>>, !.persona = persona])>>)
        /\ UNCHANGED templateVars

ImportTemplates ==
    \E texts \in ImportedTexts :
        /\ templates.open
        /\ Click("import", <<Ask("keep", FALSE, [TemplateWish EXCEPT !.texts = texts])>>)
        /\ UNCHANGED templateVars

EditTemplate ==
    \E i \in DOMAIN templates.rows, text \in Texts, persona \in Personas :
        /\ templates.open
        /\ Click("edit", <<Ask("keep", FALSE, [TemplateWish EXCEPT !.id = templates.rows[i].id, !.texts = <<text>>, !.persona = persona])>>)
        /\ UNCHANGED templateVars

RemoveTemplate ==
    \E i \in DOMAIN templates.rows :
        /\ templates.open
        /\ Click("remove", <<Ask("discard", FALSE, [TemplateWish EXCEPT !.id = templates.rows[i].id])>>)
        /\ UNCHANGED templateVars

WriteBack ==
    \E r \in Back("keep") \cup Back("discard") :
        /\ IF r.state = "failed"
           THEN templates' = [templates EXCEPT !.error = TRUE] /\ React({r}, <<>>)
           ELSE templates' = Rendering(templates) /\ React({r}, ListAsks)
        /\ UNCHANGED shelf

(***************************************************************************)
(* Use.  Its text replaces what the composer holds when the answer comes,  *)
(* and its persona goes to the chat the page has then.                     *)
(***************************************************************************)
UseTemplate ==
    \E i \in DOMAIN templates.rows :
        /\ templates.open
        /\ Click("use", <<Ask("use", FALSE, [TemplateWish EXCEPT !.id = templates.rows[i].id])>>)
        /\ UNCHANGED templateVars

Used(p) == [Rendering(p) EXCEPT !.open = FALSE]

UseBack ==
    \E r \in Back("use") :
        LET t == r.got.list[1]
            p == [templates EXCEPT !.input = t.text]
        IN  /\ IF r.state = "failed" THEN templates' = [templates EXCEPT !.error = TRUE] /\ React({r}, <<>>)
               ELSE IF t.persona = NoPersona THEN templates' = Used(p) /\ React({r}, ListAsks)
               ELSE IF p.chat = 0
               THEN templates' = [Used(p) EXCEPT !.pending = t.persona, !.pill = TRUE] /\ React({r}, ListAsks)
               ELSE /\ templates' = p
                    /\ React({r}, <<Ask("persona", FALSE, [TemplateWish EXCEPT !.chat = p.chat, !.persona = t.persona])>>)
            /\ UNCHANGED shelf

PersonaBack ==
    \E r \in Back("persona") :
        /\ IF r.state = "failed" THEN templates' = [templates EXCEPT !.error = TRUE] /\ React({r}, <<>>)
           ELSE templates' = [Used(templates) EXCEPT !.pill = TRUE] /\ React({r}, ListAsks)
        /\ UNCHANGED shelf

(***************************************************************************)
(* ensureChat(): a chat, and the persona that waits for it.                *)
(***************************************************************************)
TypeText ==
    \E text \in Texts \ {templates.input} :
        templates' = [templates EXCEPT !.input = text] /\ Click("type", <<>>) /\ UNCHANGED shelf

PendingAsks(p) == <<Ask("pending", FALSE, [TemplateWish EXCEPT !.chat = p.chat, !.persona = p.pending])>>

SendQuestion ==
    /\ templates.input # "" /\ ~templates.sending
    /\ LET p == [templates EXCEPT !.input = "", !.sending = TRUE]
       IN  IF p.chat = 0 THEN templates' = p /\ Click("send", <<Ask("newchat", FALSE, TemplateWish)>>)
           ELSE IF p.pending # NoPersona THEN templates' = p /\ Click("send", PendingAsks(p))
           ELSE templates' = [p EXCEPT !.sending = FALSE] /\ Click("send", <<>>)
    /\ UNCHANGED shelf

ChatMade ==
    \E r \in Back("newchat") :
        LET p == [templates EXCEPT !.chat = r.got.chat]
        IN  /\ IF r.state = "answered" /\ p.pending # NoPersona
               THEN templates' = p /\ React({r}, PendingAsks(p))
               ELSE templates' = [p EXCEPT !.sending = FALSE] /\ React({r}, <<>>)
            /\ UNCHANGED shelf

PendingBack ==
    \E r \in Back("pending") :
        /\ templates' = IF r.state = "failed" THEN [templates EXCEPT !.sending = FALSE]
                        ELSE [templates EXCEPT !.sending = FALSE, !.pending = NoPersona, !.pill = TRUE]
        /\ React({r}, <<>>)
        /\ UNCHANGED shelf

InitTemplates ==
    /\ templates = OpenedTemplates
    /\ \E texts \in {<<>>, <<"found">>, <<"found", "other">>}, persona \in Personas :
          shelf = Imported(EmptyShelf, texts, persona)
    /\ net = {}

NextTemplates ==
    \/ ServeTemplates \/ ToggleTemplates \/ SearchTemplates \/ TemplatesBack \/ SaveTemplate \/ ImportTemplates
    \/ EditTemplate \/ RemoveTemplate \/ WriteBack \/ UseTemplate \/ UseBack \/ PersonaBack
    \/ TypeText \/ SendQuestion \/ ChatMade \/ PendingBack

=============================================================================
