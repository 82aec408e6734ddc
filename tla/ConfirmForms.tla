------------------------------ MODULE ConfirmForms ------------------------------
(***************************************************************************)
(* The panel in which the user reviews and approves what the model wants   *)
(* to do: lib/confirmForms.js in the app's page (vanilla.js), and the two  *)
(* forms of standalone-chat.js.  A panel shows a form, or the blocks of a  *)
(* file change, or the bare arguments; its fields stay editable while the  *)
(* approval waits for its placeholder to be stored.                        *)
(*                                                                         *)
(* A value is a string; "" is a field that is empty or was not proposed.   *)
(* The optional text and number fields of a form are one field, "rest".    *)
(***************************************************************************)
EXTENDS PageRequests, Functions

CONSTANTS
    Tools,          \* bound: tools whose approval is modelled
    MaxProposed,    \* bound: arguments a model proposes
    Calendars       \* calendars the user may write to, as the server lists them

VARIABLES confirm       \* the panel

confirmVars == <<confirm>>

\* The fields of f, and those of g that f does not have.
Above(f, g) == [k \in DOMAIN f \cup DOMAIN g |-> IF k \in DOMAIN f THEN f[k] ELSE g[k]]

(***************************************************************************)
(* FORMS.  kinds: the share types for which a field is shown, {} for all.  *)
(***************************************************************************)
Field(type, must) == [type |-> type, must |-> must, kinds |-> {}]
Must == Field("text", TRUE)
Rest == Field("text", FALSE)
OnlyFor(kinds, field) == [field EXCEPT !.kinds = kinds]

Identified(key) == [k \in {key} |-> Must]
IdentifiedAnd(key, fields) == Above(Identified(key), fields)

Forms ==
    [run_terminal_command |-> IdentifiedAnd("command", [rest |-> Rest]),
     run_terminal_sequence |-> [commands |-> Field("list", TRUE), stdin |-> Field("list", FALSE), rest |-> Rest],
     create_share |->
        [path |-> Must, type |-> Field("share", FALSE), target |-> OnlyFor({"user", "group"}, Must),
         write |-> Field("checkbox", FALSE), password |-> OnlyFor({"link"}, Rest),
         expiration |-> OnlyFor({"link"}, Field("date", FALSE)), rest |-> Rest],
     update_share |-> IdentifiedAnd("share_id", [expiration |-> Field("date", FALSE), rest |-> Rest]),
     delete_share |-> Identified("share_id"),
     create_calendar_event |->
        [summary |-> Must, start |-> Field("date", TRUE), start_time |-> Field("time", FALSE),
         end |-> Field("date", FALSE), end_time |-> Field("time", FALSE),
         calendar |-> Field("calendar", FALSE), rest |-> Rest],
     update_calendar_event |->
        IdentifiedAnd("event_id", [start |-> Field("datetime", FALSE), end |-> Field("datetime", FALSE), rest |-> Rest]),
     delete_calendar_event |-> Identified("event_id"),
     create_task |-> IdentifiedAnd("title", [due |-> Field("datetime", FALSE), rest |-> Rest]),
     update_task |->
        IdentifiedAnd("task_id", [status |-> Field("status", FALSE), due |-> Field("datetime", FALSE), rest |-> Rest]),
     complete_task |-> Identified("task_id"),
     delete_task |-> Identified("task_id"),
     create_file |-> IdentifiedAnd("path", Identified("content")),
     create_note |-> IdentifiedAnd("title", Identified("content")),
     create_folder |-> Identified("path"),
     rename_file |-> IdentifiedAnd("path", Identified("new_name")),
     delete_file |-> Identified("path"),
     update_knowledge |-> Identified("fact"),
     create_contact |-> IdentifiedAnd("name", [rest |-> Rest]),
     update_contact |-> IdentifiedAnd("query", [rest |-> Rest]),
     delete_contact |-> Identified("query"),
     update_profile |-> [rest |-> Rest]]

ASSUME ToolsAssumption == Tools \subseteq DOMAIN Forms

Options == [share |-> <<"link", "user", "group">>, status |-> <<"NEEDS-ACTION", "COMPLETED">>]

NoArgs == [k \in {} |-> ""]
Given(args, k) == IF k \in DOMAIN args THEN args[k] ELSE ""

(***************************************************************************)
(* A time is a day, a day with a time of day, a time of day, or words that *)
(* no picker takes.                                                        *)
(***************************************************************************)
DayOf(v) == IF v = "day time" THEN "day" ELSE v
Together(day, time) == IF day = "" \/ time = "" THEN day ELSE day \o " " \o time

(* The start and the end of every proposal are taken apart. *)
TimeOf == [start |-> "start_time", end |-> "end_time"]

Apart(args) ==
    LET split == {k \in DOMAIN TimeOf : Given(args, k) = "day time"}
        times == [k \in {TimeOf[n] : n \in split} |-> "time"]
    IN  Above(times, Above([k \in split |-> "day"], args))

Normal(tool, args) ==
    LET type == Given(args, "type")
        public == type = "public" \/ (tool = "create_share" /\ type = "")
    IN  Apart(IF public THEN Above([type |-> "link"], args) ELSE args)

(* What the control of a field shows of the value v (toPickerValue()).  The *)
(* app takes words as text; a date control of the other page stays empty.  *)
Shows(side, field, v) ==
    CASE field.type = "date" -> IF side = "standalone" /\ v = "words" THEN "" ELSE DayOf(v)
      [] field.type = "time" -> IF v = "time" THEN v ELSE ""
      [] field.type \in DOMAIN Options ->
            IF v = "" THEN Head(Options[field.type])
            ELSE IF v \in Range(Options[field.type]) THEN v ELSE ""
      [] OTHER -> v

(***************************************************************************)
(* The panel.  args: the state of the form, or the arguments themselves    *)
(* where a page edits them in place.  shown: the controls.  hunks: the     *)
(* blocks of a file change that are ticked.  Not in the code: seen, what   *)
(* the controls held when the user approved.                               *)
(***************************************************************************)
Fields(side, tool) ==
    IF side = "app" THEN Forms[tool]
    ELSE CASE tool = "create_share" -> Forms[tool]
           [] tool = "create_calendar_event" ->
                Restrict(Forms[tool], {"start", "start_time", "end", "end_time", "calendar"})
           [] OTHER -> [k \in {} |-> Rest]

FieldsOf(c) == IF c.preview THEN [k \in {} |-> Rest] ELSE Fields(c.side, c.tool)

\* The app's form goes by the state of the form, which holds the proposed type until another one is chosen.
KindOf(c) == IF c.side = "app" THEN Given(c.args, "type") ELSE c.shown["type"]
Visible(c) == {k \in DOMAIN FieldsOf(c) : FieldsOf(c)[k].kinds = {} \/ KindOf(c) \in FieldsOf(c)[k].kinds}

Missing(c) == {k \in Visible(c) : FieldsOf(c)[k].must /\ c.shown[k] = ""}

InitialPanel(side, tool, preview, args) ==
    LET state == IF preview \/ DOMAIN Fields(side, tool) = {} THEN args ELSE Normal(tool, args)
        shown == [k \in DOMAIN Fields(side, tool) |->
                    IF side = "standalone" /\ k = "calendar" THEN "Loading"
                    ELSE Shows(side, Fields(side, tool)[k], Given(state, k))]
    IN  [side |-> side, tool |-> tool, preview |-> preview, args |-> state, shown |-> IF preview THEN NoArgs ELSE shown,
         hunks |-> IF preview THEN {1, 2} ELSE {}, listed |-> {}, phase |-> "open", error |-> FALSE,
         approved |-> NoArgs, ticked |-> {}, seen |-> NoArgs, seenHunks |-> {}]

\* getArguments(): what is shown goes over the state, and what is hidden goes.
Combined(c, out) ==
    IF c.tool = "create_calendar_event"
    THEN Restrict([out EXCEPT !["start"] = Together(@, out["start_time"]), !["end"] = Together(@, out["end_time"])],
                  DOMAIN out \ {"start_time", "end_time"})
    ELSE IF c.tool = "create_share" /\ out["type"] = "link" THEN [out EXCEPT !["type"] = "public"] ELSE out

Collected(c) ==
    IF DOMAIN FieldsOf(c) = {} THEN c.args
    ELSE Combined(c, Above(Restrict(c.shown, Visible(c)), Restrict(c.args, DOMAIN c.args \ DOMAIN FieldsOf(c))))

\* __sync() of the two forms writes the controls into the arguments.
Synced(c) ==
    LET shown == c.shown
        event == [start |-> Together(shown["start"], shown["start_time"]),
                  end |-> Together(shown["end"], shown["end_time"]), calendar |-> shown["calendar"]]
    IN  CASE c.tool = "create_share" -> [c EXCEPT !.args = Above(shown, @)]
          [] c.tool = "create_calendar_event" -> [c EXCEPT !.args = Above(event, @)]
          [] OTHER -> c

OpenedPanel(side, tool, preview, args) ==
    LET c == InitialPanel(side, tool, preview, args)
    IN  IF side = "standalone" /\ tool = "create_share" THEN Synced(c) ELSE c

NoApproval == [args |-> NoArgs, hunks |-> {}]

(***************************************************************************)
(* The user edits a field, or ticks a block.                               *)
(***************************************************************************)
EditChoices(c, k) ==
    LET type == FieldsOf(c)[k].type
    IN  CASE type \in DOMAIN Options -> Range(Options[type])
          [] type = "calendar" -> c.listed
          [] type = "date" -> {"", "day"}
          [] type = "datetime" -> {"", "day time"}
          [] type = "time" -> {"", "time"}
          [] type = "checkbox" -> {"", "yes"}
          [] OTHER -> {"", "typed"}

EditField ==
    \E k \in Visible(confirm) : \E v \in EditChoices(confirm, k) \ {confirm.shown[k]} :
        /\ confirm.phase # "done"
        /\ LET c == [confirm EXCEPT !.shown[k] = v]
           IN  confirm' = IF c.side = "app" THEN [c EXCEPT !.args = Above([n \in {k} |-> v], @)]
                          ELSE IF c.tool = "create_share" THEN Synced(c) ELSE c
        /\ Click("edit", <<>>)

TickHunk ==
    \E h \in {1, 2} :
        /\ confirm.preview /\ confirm.phase # "done"
        /\ confirm' = [confirm EXCEPT !.hunks = IF h \in @ THEN @ \ {h} ELSE @ \cup {h}]
        /\ Click("edit", <<>>)

\* The calendars arrive.  An error that is JSON too is a list without calendars; after another one the select stays.
CalendarsBack ==
    \E r \in Back("calendars"), json \in BOOLEAN :
        LET calendars == IF r.state = "failed" THEN <<>> ELSE Calendars
            wish == Given(confirm.args, "calendar")
            first == IF calendars = <<>> THEN "" ELSE Head(calendars)
            c == [confirm EXCEPT !.listed = Range(calendars),
                     !.shown["calendar"] = IF wish = "" THEN first ELSE IF wish \in Range(calendars) THEN wish ELSE ""]
        IN  /\ confirm' = IF r.state = "failed" /\ ~json THEN confirm
                          ELSE IF c.side = "app" THEN [c EXCEPT !.args = Above([calendar |-> c.shown["calendar"]], @)]
                          ELSE c
            /\ React({r}, <<>>)

(***************************************************************************)
(* Approval.  The app collects the arguments and the blocks at once; the   *)
(* standalone page does when its request is sent.                          *)
(***************************************************************************)
Approve ==
    /\ confirm.phase = "open"
    /\ LET c == IF confirm.side = "app" \/ Missing(confirm) # {} THEN confirm ELSE Synced(confirm)
       IN  confirm' = IF Missing(c) # {} THEN [c EXCEPT !.error = c.side = "app"]
                      ELSE [c EXCEPT !.error = FALSE, !.phase = "waiting", !.approved = Collected(c), !.ticked = c.hunks,
                                     !.seen = Restrict(c.shown, Visible(c)), !.seenHunks = c.hunks]
    /\ Click("approve", <<>>)

(* Slip: the arguments are read from the form when the request is sent. *)
CollectedLate(c) == [args |-> Collected(c), hunks |-> c.hunks]
Approval(c) ==
    IF c.side = "app" THEN [args |-> c.approved, hunks |-> c.ticked] ELSE [args |-> c.args, hunks |-> c.hunks]

PlaceholderStored ==
    /\ confirm.phase = "waiting" /\ Open("placeholder") \subseteq Back("placeholder")
    /\ LET stored == \A r \in Open("placeholder") : r.state = "answered"
       IN  IF confirm.side = "app" /\ ~stored
           THEN confirm' = [confirm EXCEPT !.phase = "blocked", !.error = TRUE] /\ React(Open("placeholder"), <<>>)
           ELSE /\ confirm' = [confirm EXCEPT !.phase = "running"]
                /\ React(Open("placeholder"), <<Ask("confirm", FALSE, Approval(confirm))>>)

ConfirmBack ==
    \E r \in Back("confirm") :
        /\ confirm' = IF confirm.side = "app" /\ r.state = "failed"
                      THEN [confirm EXCEPT !.phase = "open", !.error = TRUE]
                      ELSE [confirm EXCEPT !.phase = "done"]
        /\ React({r}, <<>>)

Cancel ==
    /\ confirm.phase \in {"open", "blocked"}
    /\ confirm' = [confirm EXCEPT !.phase = "done"]
    /\ Click("cancel", <<>>)

ServePanel ==
    /\ \E r \in net : r.state = "sent" /\ Answered(r, r.arg)
    /\ UNCHANGED <<confirm, task, clicks, faults>>

(***************************************************************************)
(* What a model proposes.  A file change has a preview.                    *)
(***************************************************************************)
Proposed(k, type) ==
    CASE type \in {"date", "datetime"} -> {"", "day time", "words"}
      [] type = "share" -> {"", "public", "user", "email"}
      [] type = "status" -> {"", "COMPLETED"}
      [] type = "calendar" -> {"", "gone"}
      [] k = "rest" \/ type \in {"checkbox", "time"} -> {""}
      [] OTHER -> {"", "text"}

Proposals(tool) ==
    LET form == Forms[tool]
        values == UNION {Proposed(k, form[k].type) : k \in DOMAIN form}
        all == {f \in [DOMAIN form -> values] : \A k \in DOMAIN form : f[k] \in Proposed(k, form[k].type)}
        proposed(f) == {k \in DOMAIN f : f[k] # ""}
    IN  {Restrict(f, proposed(f)) : f \in {g \in all : Cardinality(proposed(g)) <= MaxProposed}}

InitPanel ==
    \E side \in {"app", "standalone"}, tool \in Tools, preview \in BOOLEAN, restored \in BOOLEAN : \E args \in Proposals(tool) :
        /\ preview => tool \in {"create_file", "create_note", "delete_file"}
        /\ confirm = OpenedPanel(side, tool, preview, args)
        /\ LET asks == (IF "calendar" \in DOMAIN confirm.shown THEN <<Ask("calendars", FALSE, NoApproval)>> ELSE <<>>)
                       \o (IF restored THEN <<>> ELSE <<Ask("placeholder", FALSE, NoApproval)>>)
           IN  net = Sent(asks, [i \in DOMAIN asks |-> i])

NextPanel ==
    \/ ServePanel \/ EditField \/ TickHunk \/ CalendarsBack \/ Approve \/ PlaceholderStored \/ ConfirmBack \/ Cancel

=============================================================================
