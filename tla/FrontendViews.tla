----------------------------- MODULE FrontendViews -----------------------------
(***************************************************************************)
(* The pages of the app around the chat, each with its own state and its   *)
(* requests to the server: navigation, documents, settings, the            *)
(* administration of the storage and of the app, the approval of actions,  *)
(* usage metrics, the chat about files, background requests, and export.   *)
(* The pages share api() (PageRequests) and nothing else that changes, so  *)
(* a behaviour is that of one page; its task says which page, what the     *)
(* user does there, and how often.                                         *)
(***************************************************************************)
EXTENDS ChatNavigation, DocumentsView, SettingsForm, StoragePanels,
        ConfirmForms, AdminPage, MetricsView, FileContextChat, AgentRuns, ChatExport,
        TemplatePanel, PromptHistory

pageVars == <<navVars, documentVars, settingsVars, panelVars, confirmVars, adminVars, metricsVars, fileChatVars, runsVars, exportVars,
              templateVars, promptVars>>

vars == <<requestVars, pageVars>>

(***************************************************************************)
(* A page that is not open.                                                *)
(***************************************************************************)
NoNavigation ==
    nav = FirstNav("no") /\ changed = [c \in ListedChats |-> 0] /\ blank = {} /\ visited = {}
NoDocuments == page = OpenedPage /\ indexed = {} /\ run = "idle"
NoSettings == form = OpenedForm /\ account = [settings |-> ZeroKeys, knowledge |-> 0, run |-> "idle"]
NoPanels ==
    panel = OpenedPanels /\ storage = [made |-> {}, enabled |-> FALSE, points |-> FALSE, jobs |-> <<>>]
NoPanel == confirm = InitialPanel("app", CHOOSE t \in Tools : TRUE, TRUE, NoArgs)
NoAdmin == admin = OpenedAdmin /\ instance = NoInstance
NoMetrics == metrics = OpenedMetrics /\ rates = [m \in Models |-> 0]
NoFileChat == fileChat = EmptyFileChat
NoRunsPage == runs = OpenedRuns /\ work = NoRuns
NoExport == library = [c \in ExportChats |-> <<>>] /\ exporter = OpenedExport("app", CHOOSE c \in ExportChats : TRUE)
NoTemplates == templates = OpenedTemplates /\ shelf = EmptyShelf
NoPrompts == remembered = EmptyStore /\ panes = [tab \in PromptTabs |-> ClosedPane]

Init ==
    \/ /\ InitRequests("chats") /\ InitNavigation
       /\ NoDocuments /\ NoSettings /\ NoPanels /\ NoPanel /\ NoAdmin
       /\ NoMetrics /\ NoFileChat /\ NoRunsPage /\ NoExport /\ NoTemplates /\ NoPrompts
    \/ /\ InitRequests("documents") /\ InitDocuments
       /\ NoNavigation /\ NoSettings /\ NoPanels /\ NoPanel /\ NoAdmin
       /\ NoMetrics /\ NoFileChat /\ NoRunsPage /\ NoExport /\ NoTemplates /\ NoPrompts
    \/ /\ InitRequests("settings") /\ InitSettings
       /\ NoNavigation /\ NoDocuments /\ NoPanels /\ NoPanel /\ NoAdmin
       /\ NoMetrics /\ NoFileChat /\ NoRunsPage /\ NoExport /\ NoTemplates /\ NoPrompts
    \/ /\ InitRequests("panels") /\ InitPanels
       /\ NoNavigation /\ NoDocuments /\ NoSettings /\ NoPanel /\ NoAdmin
       /\ NoMetrics /\ NoFileChat /\ NoRunsPage /\ NoExport /\ NoTemplates /\ NoPrompts
    \/ /\ InitRequests("approval") /\ InitPanel
       /\ NoNavigation /\ NoDocuments /\ NoSettings /\ NoPanels /\ NoAdmin
       /\ NoMetrics /\ NoFileChat /\ NoRunsPage /\ NoExport /\ NoTemplates /\ NoPrompts
    \/ /\ InitRequests("admin") /\ InitAdmin
       /\ NoNavigation /\ NoDocuments /\ NoSettings /\ NoPanels /\ NoPanel
       /\ NoMetrics /\ NoFileChat /\ NoRunsPage /\ NoExport /\ NoTemplates /\ NoPrompts
    \/ /\ InitRequests("metrics") /\ InitMetrics
       /\ NoNavigation /\ NoDocuments /\ NoSettings /\ NoPanels /\ NoPanel
       /\ NoAdmin /\ NoFileChat /\ NoRunsPage /\ NoExport /\ NoTemplates /\ NoPrompts
    \/ /\ InitRequests("filechat") /\ InitFileChat
       /\ NoNavigation /\ NoDocuments /\ NoSettings /\ NoPanels /\ NoPanel
       /\ NoAdmin /\ NoMetrics /\ NoRunsPage /\ NoExport /\ NoTemplates /\ NoPrompts
    \/ /\ InitRequests("runs") /\ InitRuns
       /\ NoNavigation /\ NoDocuments /\ NoSettings /\ NoPanels /\ NoPanel
       /\ NoAdmin /\ NoMetrics /\ NoFileChat /\ NoExport /\ NoTemplates /\ NoPrompts
    \/ /\ InitRequests("export") /\ InitExport
       /\ NoNavigation /\ NoDocuments /\ NoSettings /\ NoPanels /\ NoPanel
       /\ NoAdmin /\ NoMetrics /\ NoFileChat /\ NoRunsPage /\ NoTemplates /\ NoPrompts
    \/ /\ InitRequests("templates") /\ InitTemplates
       /\ NoNavigation /\ NoDocuments /\ NoSettings /\ NoPanels /\ NoPanel
       /\ NoAdmin /\ NoMetrics /\ NoFileChat /\ NoRunsPage /\ NoExport /\ NoPrompts
    \/ /\ InitRequests("prompts") /\ InitPrompts
       /\ NoNavigation /\ NoDocuments /\ NoSettings /\ NoPanels /\ NoPanel
       /\ NoAdmin /\ NoMetrics /\ NoFileChat /\ NoRunsPage /\ NoExport /\ NoTemplates

Next ==
    \/ /\ task.view = "chats" /\ NextNavigation
       /\ UNCHANGED <<documentVars, settingsVars, panelVars, confirmVars, adminVars, metricsVars, fileChatVars, runsVars, exportVars, templateVars, promptVars>>
    \/ /\ task.view = "documents" /\ NextDocuments
       /\ UNCHANGED <<navVars, settingsVars, panelVars, confirmVars, adminVars, metricsVars, fileChatVars, runsVars, exportVars, templateVars, promptVars>>
    \/ /\ task.view = "settings" /\ NextSettings
       /\ UNCHANGED <<navVars, documentVars, panelVars, confirmVars, adminVars, metricsVars, fileChatVars, runsVars, exportVars, templateVars, promptVars>>
    \/ /\ task.view = "panels" /\ NextPanels
       /\ UNCHANGED <<navVars, documentVars, settingsVars, confirmVars, adminVars, metricsVars, fileChatVars, runsVars, exportVars, templateVars, promptVars>>
    \/ /\ task.view = "approval" /\ NextPanel
       /\ UNCHANGED <<navVars, documentVars, settingsVars, panelVars, adminVars, metricsVars, fileChatVars, runsVars, exportVars, templateVars, promptVars>>
    \/ /\ task.view = "admin" /\ NextAdmin
       /\ UNCHANGED <<navVars, documentVars, settingsVars, panelVars, confirmVars, metricsVars, fileChatVars, runsVars, exportVars, templateVars, promptVars>>
    \/ /\ task.view = "metrics" /\ NextMetrics
       /\ UNCHANGED <<navVars, documentVars, settingsVars, panelVars, confirmVars, adminVars, fileChatVars, runsVars, exportVars, templateVars, promptVars>>
    \/ /\ task.view = "filechat" /\ NextFileChat
       /\ UNCHANGED <<navVars, documentVars, settingsVars, panelVars, confirmVars, adminVars, metricsVars, runsVars, exportVars, templateVars, promptVars>>
    \/ /\ task.view = "runs" /\ NextRuns
       /\ UNCHANGED <<navVars, documentVars, settingsVars, panelVars, confirmVars, adminVars, metricsVars, fileChatVars, exportVars, templateVars, promptVars>>
    \/ /\ task.view = "export" /\ NextExport
       /\ UNCHANGED <<navVars, documentVars, settingsVars, panelVars, confirmVars, adminVars, metricsVars, fileChatVars, runsVars, templateVars, promptVars>>
    \/ /\ task.view = "templates" /\ NextTemplates
       /\ UNCHANGED <<navVars, documentVars, settingsVars, panelVars, confirmVars, adminVars, metricsVars, fileChatVars, runsVars, exportVars, promptVars>>
    \/ /\ task.view = "prompts" /\ NextPrompts
       /\ UNCHANGED <<navVars, documentVars, settingsVars, panelVars, confirmVars, adminVars, metricsVars, fileChatVars, runsVars, exportVars, templateVars>>
    \/ FailAttempt /\ UNCHANGED pageVars

Spec == Init /\ [][Next]_vars

(***************************************************************************)
(* Types.                                                                  *)
(***************************************************************************)
TypeOKRequests ==
    /\ task \in Tasks /\ clicks \in 0..task.clicks /\ faults \in 0..task.faults
    /\ \A r \in net : r.state \in {"sent", "answered", "failed"} /\ r.tries \in 0..MaxRetries /\ r.id \in Nat \ {0}
    /\ \A r, q \in net : r.id = q.id => r = q

TypeOKNavigation ==
    /\ nav.view \in Routes /\ nav.deep \in {"no", "fresh", "link"}
    /\ {nav.current, nav.made, nav.pane.chat, nav.dialog.chat} \subseteq ListedChats \cup {NoListed}
    /\ nav.list \in Seq(ListedChats) /\ ToSet(nav.sent) \subseteq 1..nav.typed /\ nav.prompt \in 0..nav.typed
    /\ nav.pane.state \in {"none", "loading", "ready", "failed"} /\ nav.dialog.mode \in {"none", "rename", "delete"}
    /\ {nav.filter, nav.results.query} \subseteq Queries \cup {NoQuery} /\ nav.results.chats \subseteq ListedChats
    /\ {nav.loading, nav.more, nav.error, nav.busy, nav.timer, nav.dialog.busy} \subseteq BOOLEAN
    /\ changed \in [ListedChats -> Nat] /\ blank \subseteq ListedChats /\ visited \subseteq ListedChats

TypeOKDocuments ==
    /\ page.list \in Seq(1..MaxListed) /\ page.total \in 0..MaxListed /\ page.expanded \subseteq 1..MaxListed
    /\ page.status \in Runs \cup {"unknown"} /\ page.stop \in {"no", "asked", "waiting", "polling"}
    /\ page.polls \in 0..StopPolls /\ page.mounting \in 0..2 /\ page.epoch \in Nat
    /\ \A d \in 1..MaxListed :
          page.cache[d].status \in {"none", "loading", "ready", "error"} /\ Len(page.cache[d].pages) <= ChunkPages
    /\ indexed \subseteq 1..MaxListed /\ run \in Runs

TypeOKSettings ==
    /\ form.f \in [SettingKeys -> Nat] /\ form.kept \in [SettingKeys -> Nat] /\ account.settings \in [SettingKeys -> Nat]
    /\ \A i \in DOMAIN form.saves : form.saves[i].state \in IF i = 1 THEN {"sent", "empty", "invalid"} ELSE {"waits"}
    /\ form.does \subseteq {"checking", "indexing", "resetting", "deleting", "exporting", "stopping"}
    /\ form.run \in {"idle", "running", "stopping"} /\ account.run \in {"idle", "running", "stopping"}
    /\ form.polls \in 0..StatusPolls /\ form.section \in {"general", "automation", "personal", "advanced"}
    /\ form.busy \subseteq {"provider", "connectors", "keys", "plugins"} /\ form.know.state \in {"none", "loading", "ready", "error"}

TypeOKPanels ==
    /\ panel.users \in {"none", "loading", "loaded", "error"} /\ panel.owner \in Owners \cup {NoOwner}
    /\ panel.selected \in Generations \cup {NoGeneration} /\ panel.notice \in Generations \cup {NoGeneration}
    /\ panel.rows \subseteq [gen : Generations, by : {"load", "create"}] /\ panel.epoch \in Nat
    /\ \A j \in Jobs : panel.watch[j].shown \in JobStates \cup {"unknown"} /\ panel.watch[j].num \in Nat
    /\ {panel.loading, panel.checking, panel.creating, panel.comparing, panel.refreshing, panel.busy} \subseteq BOOLEAN
    /\ storage.made \subseteq Owners

TypeOKPanel ==
    /\ confirm.tool \in Tools /\ confirm.phase \in {"open", "waiting", "running", "blocked", "done"}
    /\ confirm.hunks \subseteq {1, 2} /\ confirm.ticked \subseteq {1, 2} /\ confirm.listed \subseteq Range(Calendars)
    /\ DOMAIN confirm.shown = DOMAIN FieldsOf(confirm) /\ DOMAIN confirm.seen \subseteq DOMAIN confirm.shown

TypeOKAdmin ==
    /\ admin.saving \subseteq Sections /\ admin.status \in [Sections -> {"none", "info", "success", "error"}]
    /\ admin.box \in {"hidden", "shown"} /\ admin.mode \in SearchModes /\ admin.tools \in {"none", "loading", "loaded"}
    /\ admin.stop \in {"ready", "asked", "reloads"} /\ {admin.key, instance.key} \subseteq Nat /\ instance.keys \in Seq(Nat \ {0})

TypeOKMetrics ==
    /\ metrics.days \in Periods /\ {metrics.user, metrics.of.user} \subseteq Subjects /\ metrics.of.days \in Periods \cup {0}
    /\ metrics.prices \in [Models -> Nat] /\ rates \in [Models -> Nat] /\ metrics.edited \subseteq Models
    /\ {metrics.loading, metrics.error, metrics.loaded, metrics.saving, metrics.filter} \subseteq BOOLEAN

TypeOKFileChat ==
    /\ {fileChat.ids, fileChat.files} \subseteq Selections \cup {0}
    /\ ToSet(fileChat.messages) \subseteq [ids : Selections, role : {"user", "assistant", "error"}]
    /\ {fileChat.loading, fileChat.loaded, fileChat.error, fileChat.input, fileChat.busy} \subseteq BOOLEAN

TypeOKRuns ==
    /\ runs.busy \subseteq Requests /\ DOMAIN runs.items \subseteq Requests /\ Range(runs.items) \subseteq RunStatuses
    /\ Range(work) \subseteq Queueables /\ (task.view = "runs" => runs.flying = (Open("runs") # {}))

TypeOKExport ==
    /\ DOMAIN library \subseteq ExportChats /\ exporter.chat \in ExportChats /\ exporter.phase \in {"idle", "busy"}
    /\ exporter.format \in Formats /\ {exporter.from, exporter.to} \subseteq Days /\ exporter.picked \subseteq Nat
    /\ ToSet(exporter.list) \subseteq ExportChats /\ Len(exporter.got) <= Cardinality(ExportChats)

TypeOKTemplates ==
    /\ templates.query \in Searches /\ templates.input \in Texts /\ templates.pending \in Personas
    /\ {templates.open, templates.error, templates.sending, templates.pill} \subseteq BOOLEAN
    /\ ToSet(templates.rows) \cup ToSet(shelf.templates) \subseteq [id : 1..shelf.last, text : Texts \ {""}, persona : Personas]
    /\ templates.chat \in 0..Len(shelf.personas) /\ ToSet(shelf.personas) \subseteq Personas
    /\ IsInjective([i \in DOMAIN shelf.templates |-> shelf.templates[i].id])

TypeOKPrompts ==
    /\ Len(remembered.items) <= MaxPrompts /\ remembered.last \in Nat
    /\ \A tab \in PromptTabs :
          /\ panes[tab].open \in BOOLEAN /\ panes[tab].query \in PromptSearches /\ panes[tab].input \in PromptTexts \cup {""}
          /\ ToSet(panes[tab].rows) \cup ToSet(remembered.items) \subseteq
                [id : 1..remembered.last, text : PromptTexts, favorite : BOOLEAN, category : Categories]

(* Every page keeps its state within its types, no two requests under way  *)
(* share a number, and only the first write of the settings is ever sent.  *)
TypeOK ==
    /\ TypeOKRequests /\ TypeOKNavigation /\ TypeOKDocuments /\ TypeOKSettings /\ TypeOKPanels
    /\ TypeOKPanel /\ TypeOKAdmin /\ TypeOKMetrics /\ TypeOKFileChat /\ TypeOKRuns /\ TypeOKExport
    /\ TypeOKTemplates /\ TypeOKPrompts

(***************************************************************************)
(* Once.                                                                   *)
(***************************************************************************)
(* The list names a chat once, although the chats move between its pages   *)
(* whenever a turn is stored (loadMoreChats() of App.vue), and an archive  *)
(* holds every chat of its list once, whichever worker fetched it and      *)
(* whatever names the files want (exportAllChats(), createChatArchive()).  *)
(* A question stands in the history of its browser once, whichever pages   *)
(* ask and mark it (record() and update() of prompt-history.js).           *)
ListedOnce ==
    /\ \A i, j \in DOMAIN nav.list : nav.list[i] = nav.list[j] => i = j
    /\ \A i, j \in DOMAIN remembered.items : remembered.items[i].text = remembered.items[j].text => i = j
    /\ exporter.archive # NoArchive /\ exporter.phase = "idle" /\ ~exporter.error =>
          /\ {entry.chat : entry \in Range(exporter.archive)} = ToSet(exporter.list)
          /\ Cardinality(DOMAIN exporter.archive) = Len(exporter.list)

(* What is consumed is not sent again: a prompt typed on the dashboard,    *)
(* however often its chat is left and shown (onInitialPromptConsumed()),   *)
(* and, while no answer is lost, a key that was stored (bindSave()).       *)
SentOnce ==
    /\ \A i, j \in DOMAIN nav.sent : nav.sent[i] = nav.sent[j] => i = j
    /\ faults = 0 => \A i, j \in DOMAIN instance.keys : instance.keys[i] = instance.keys[j] => i = j

(***************************************************************************)
(* Late answers.                                                           *)
(***************************************************************************)
(* What is shown belongs to what is chosen, in whatever order the answers  *)
(* to older choices arrive: the results of a search to the text in the     *)
(* field, unless the next search is about to begin (searchMessages());     *)
(* generations to their owner, check and progress to their generation (the *)
(* epochs of load(), check() and request()); usage to its user and period, *)
(* unless an error says that it is not (requestId of load()); and files to *)
(* the selection (statusRequestId of loadStatus()).                        *)
LateAnswersAreIgnored ==
    /\ nav.results.query # NoQuery => nav.results.query = nav.filter \/ nav.timer
    /\ \A row \in panel.rows : row.by = "load" => row.gen[1] = panel.owner
    /\ panel.notice \in {NoGeneration, panel.selected}
    /\ \A j \in Jobs : /\ panel.watch[j].of \in {NoGeneration, panel.selected}
                       /\ panel.watch[j].from \in {NoGeneration, panel.watch[j].of}
    /\ ~metrics.loading /\ ~metrics.error => metrics.of = [user |-> metrics.user, days |-> metrics.days]
    /\ fileChat.files \in {NoFiles, fileChat.ids}

(***************************************************************************)
(* Documents.                                                              *)
(***************************************************************************)
(* The chunks shown belong to the list shown: a spinner has a request of   *)
(* this list, an answer fills only what waits for it, and pages come once  *)
(* and in order (loadDocuments() and loadChunks()).                        *)
ChunksFollowTheList ==
    /\ [](\A d \in 1..MaxListed : page.cache[d].status = "loading" =>
              page.disposed \/ \E r \in net : r.op = "chunks" /\ r.arg.doc = d /\ r.arg.epoch = page.epoch)
    /\ [][\A d \in 1..MaxListed :
              LET old == page.cache[d]
                  new == page'.cache[d]
              IN  /\ new.status = "ready" => old.status \in {"loading", "ready"}
                  /\ new.pages # old.pages => new.pages = <<>> \/ new.pages = Append(old.pages, Len(old.pages))]_vars

(***************************************************************************)
(* Settings.                                                               *)
(***************************************************************************)
\* With nothing under way and no request lost, the rows hold every template
\* that the search finds.
TemplatesAreListed ==
    templates.open /\ net = {} /\ faults = 0
    => \A i \in DOMAIN shelf.templates :
          Finds(templates.query, shelf.templates[i]) => shelf.templates[i] \in ToSet(templates.rows)

\* A persona the page names waits for its chat or is stored with it.
PersonaIsThere ==
    templates.pill =>
        \/ templates.pending # NoPersona
        \/ templates.chat # 0 /\ shelf.personas[templates.chat] # NoPersona

(* "Settings are up to date" is true: with no write waiting or under way   *)
(* and no request lost, a field that equals what the page believes to be   *)
(* stored equals what is stored.  late leaves out the one way it is not:   *)
(* a status sent before a write and answered after it.                     *)
SettingsAreSaved ==
    (/\ form.ready /\ form.saves = <<>> /\ Open("save") = {} /\ faults = 0 /\ ~form.late
     /\ \A r \in Open("status") : r.arg.keys = {})
    => \A k \in SettingKeys : form.f[k] = form.kept[k] => account.settings[k] = form.f[k]

UpToDateIsTrue == SettingsAreSaved /\ TemplatesAreListed /\ PersonaIsThere

(* The answer to a write changes no field typed since the write was sent   *)
(* (fill() with the submitted values as its base).                         *)
EditsSurviveSaves ==
    [][\A r \in net \ net' : r.op = "save" /\ r.state = "answered" =>
           \A k \in SettingKeys : form'.f[k] # form.f[k] => form.typed[k] <= r.arg.at]_vars

(* A stored price changes only for a model whose price the user edited,    *)
(* although every save replaces all of them and the loads that fetch them  *)
(* overtake each other (load() and savePricing()).  faults leaves out the  *)
(* save after the prices could not be read.                                *)
PricesAreKept ==
    [][faults' = 0 => \A m \in Models : rates'[m] # rates[m] => m \in metrics.edited]_vars

(***************************************************************************)
(* Approval.                                                               *)
(***************************************************************************)
TimesOfDay(tool) == IF tool = "create_calendar_event" THEN Range(TimeOf) ELSE {}

AsShown(c, k) ==
    CASE k \in DOMAIN TimeOf /\ c.tool = "create_calendar_event" -> Together(c.seen[k], c.seen[TimeOf[k]])
      [] k = "type" /\ c.seen[k] = "link" -> "public"
      [] OTHER -> c.seen[k]

(* The app's page sends what its panel showed when the user approved, also *)
(* when the placeholder was not stored yet and the user edits meanwhile:   *)
(* every visible field and ticked block, nothing that was hidden, and no   *)
(* required field empty (getArguments() and the approval of renderMsg()).  *)
ApprovedAsShown ==
    \A r \in Open("confirm") : task.view = "approval" /\ confirm.side = "app" =>
        /\ r.arg.hunks = confirm.seenHunks
        /\ ~confirm.preview =>
              /\ \A k \in DOMAIN confirm.seen \ TimesOfDay(confirm.tool) : r.arg.args[k] = AsShown(confirm, k)
              /\ DOMAIN r.arg.args \cap DOMAIN Forms[confirm.tool] \subseteq DOMAIN confirm.seen
              /\ \A k \in DOMAIN confirm.seen : Forms[confirm.tool][k].must => confirm.seen[k] # ""

=============================================================================
