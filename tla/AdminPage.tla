------------------------------- MODULE AdminPage -------------------------------
(***************************************************************************)
(* The administration page of the app: js/admin-settings.js.  It has its   *)
(* own api(), which tries nothing again.  A form is saved by one button,   *)
(* which is disabled while its request is under way; its fields are not.   *)
(*                                                                         *)
(* A secret is a number, new each time one is typed; 0 is an empty field.  *)
(***************************************************************************)
EXTENDS PageRequests

VARIABLES
    admin,      \* the state of the page
    instance    \* server: the key of the web search, its other settings, and the running passes;
                \* not in the code: the keys it was told to keep, in order

adminVars == <<admin, instance>>

Sections == {"index", "websearch"}
SearchModes == {"web", "images"}

(***************************************************************************)
(* typed: the value in the fields of a section.  key, remove: the secret   *)
(* field and its checkbox.  query, mode: the fields of the search test.    *)
(* box: what the test shows.  stop: the button that stops the indexing.    *)
(* tools: loadState of the optional storage tools, a bundle of their own.  *)
(***************************************************************************)
OpenedAdmin ==
    [saving |-> {}, status |-> [s \in Sections |-> "none"], typed |-> [s \in Sections |-> 0],
     key |-> 0, remove |-> FALSE, query |-> 0, mode |-> "web", testing |-> FALSE, box |-> "hidden", of |-> 0,
     stop |-> "ready", open |-> FALSE, tools |-> "none", rows |-> {}]

NoInstance == [settings |-> [s \in Sections |-> 0], key |-> 0, keys |-> <<>>, stopped |-> FALSE]

AdminCall == [section |-> "index", value |-> 0, key |-> 0, remove |-> FALSE, query |-> 0, mode |-> "web", answer |-> "ok"]

AdminAsks(op, arg) == <<Ask(op, FALSE, arg)>>
AdminDoes(act, p, asks) == admin' = p /\ Click(act, asks) /\ UNCHANGED instance
AdminTurns(p, r) == admin' = p /\ React({r}, <<>>) /\ UNCHANGED instance

(***************************************************************************)
(* The server.  Settings may fail their validation.                        *)
(***************************************************************************)
SearchAnswers == {"off", "failed", "none", "unusable", "results"}

ServeAdmin ==
    /\ \E r \in net :
          /\ r.state = "sent"
          /\ \/ /\ r.op = "settings"
                /\ instance' = [instance EXCEPT
                      !.settings[r.arg.section] = r.arg.value,
                      !.key = IF r.arg.remove THEN 0 ELSE IF r.arg.key # 0 THEN r.arg.key ELSE @,
                      !.keys = IF r.arg.remove \/ r.arg.key = 0 THEN @ ELSE Append(@, r.arg.key)]
                /\ Answered(r, r.arg)
             \/ r.op = "settings" /\ Refused(r) /\ UNCHANGED instance
             \/ /\ r.op = "search"
                /\ \E a \in SearchAnswers : Answered(r, [r.arg EXCEPT !.answer = a])
                /\ UNCHANGED instance
             \/ r.op = "stop" /\ instance' = [instance EXCEPT !.stopped = TRUE] /\ Answered(r, r.arg)
             \/ r.op = "bundle" /\ Answered(r, r.arg) /\ UNCHANGED instance
    /\ UNCHANGED <<admin, task, clicks, faults>>

(***************************************************************************)
(* bindSave().  A field that is empty keeps the stored secret.             *)
(***************************************************************************)
TypeAdmin ==
    \/ \E s \in Sections : AdminDoes("type", [admin EXCEPT !.typed[s] = clicks + 1], <<>>)
    \/ AdminDoes("key", [admin EXCEPT !.key = clicks + 1], <<>>)
    \/ AdminDoes("remove", [admin EXCEPT !.remove = ~@], <<>>)

Payload(s) ==
    [AdminCall EXCEPT !.section = s, !.value = admin.typed[s],
        !.key = IF s = "websearch" THEN admin.key ELSE 0, !.remove = s = "websearch" /\ admin.remove]

SaveSection ==
    \E s \in Sections :
        /\ s \notin admin.saving
        /\ AdminDoes("save", [admin EXCEPT !.saving = @ \cup {s}, !.status[s] = "info"],
                     AdminAsks("settings", Payload(s)))

ClearSecret(p) == [p EXCEPT !.key = 0, !.remove = FALSE]

SectionSaved ==
    \E r \in Back("settings") :
        LET s == r.arg.section
            p == [admin EXCEPT !.saving = @ \ {s}, !.status[s] = IF r.state = "answered" THEN "success" ELSE "error"]
        IN  AdminTurns(IF r.state = "answered" /\ s = "websearch" THEN ClearSecret(p) ELSE p, r)

(***************************************************************************)
(* The test of the web search; an empty query is refused.                  *)
(***************************************************************************)
TypeQuery == \E m \in SearchModes : AdminDoes("query", [admin EXCEPT !.query = clicks + 1, !.mode = m], <<>>)

RunTest ==
    /\ ~admin.testing
    /\ IF admin.query = 0 THEN AdminDoes("test", admin, <<>>)
       ELSE AdminDoes("test", [admin EXCEPT !.testing = TRUE],
                      AdminAsks("search", [AdminCall EXCEPT !.query = admin.query, !.mode = admin.mode]))

\* What renderSearchTest() shows of an answer.
SearchTest(mode, answer) ==
    CASE answer = "off" -> {"problem", "hint"}
      [] answer = "failed" -> {"problem"}
      [] answer = "none" -> {"summary", "nothing"} \cup IF mode = "web" THEN {"browser"} ELSE {}
      [] mode = "images" /\ answer = "unusable" -> {"summary", "gallery", "unusable"}
      [] mode = "images" -> {"summary", "gallery", "cards"}
      [] OTHER -> {"summary", "browser", "table"}

TestBack ==
    \E r \in Back("search") :
        AdminTurns([admin EXCEPT !.testing = FALSE, !.of = r.arg.query, !.box = "shown",
                       !.rows = SearchTest(r.arg.mode, IF r.state = "failed" THEN "failed" ELSE r.got.answer)], r)

(***************************************************************************)
(* Stopping the indexing reloads the page a while later; an error gives    *)
(* the button back.                                                        *)
(***************************************************************************)
StopBackground ==
    /\ admin.stop = "ready"
    /\ AdminDoes("stop", [admin EXCEPT !.stop = "asked"], AdminAsks("stop", AdminCall))

StopAnswer ==
    \E r \in Back("stop") : AdminTurns([admin EXCEPT !.stop = IF r.state = "answered" THEN "reloads" ELSE "ready"], r)

ReloadAdmin ==
    /\ admin.stop = "reloads"
    /\ admin' = OpenedAdmin
    /\ React(net, <<>>)
    /\ UNCHANGED instance

(***************************************************************************)
(* The storage tools are loaded when they are opened for the first time,   *)
(* and again when they could not be loaded.                                *)
(***************************************************************************)
ToggleTools ==
    LET p == [admin EXCEPT !.open = ~@]
    IN  IF p.open /\ admin.tools = "none"
        THEN AdminDoes("tools", [p EXCEPT !.tools = "loading"], AdminAsks("bundle", AdminCall))
        ELSE AdminDoes("tools", p, <<>>)

ToolsLoaded ==
    \E r \in Back("bundle") : AdminTurns([admin EXCEPT !.tools = IF r.state = "answered" THEN "loaded" ELSE "none"], r)

InitAdmin ==
    /\ admin = OpenedAdmin
    /\ instance = NoInstance
    /\ net = {}

NextAdmin ==
    \/ ServeAdmin \/ TypeAdmin \/ SaveSection \/ SectionSaved \/ TypeQuery \/ RunTest \/ TestBack
    \/ StopBackground \/ StopAnswer \/ ReloadAdmin \/ ToggleTools \/ ToolsLoaded

=============================================================================
