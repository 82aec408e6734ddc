----------------------------- MODULE SettingsForm -----------------------------
(***************************************************************************)
(* The settings of an account: src/composables/useEvaSettings.js with the  *)
(* briefings, the personal knowledge and the integrations, and the         *)
(* provider list, which writes through savePatch().  One form is kept for  *)
(* all sections.  Every write of it waits for the one before; the reply    *)
(* fills in only what was not changed meanwhile.                           *)
(*                                                                         *)
(* A value is a number, new each time the user types one; 0 is the value   *)
(* of the beginning and Invalid fails validate().                          *)
(***************************************************************************)
EXTENDS PageRequests

CONSTANT StatusPolls    \* bound: polls of the status after a stop (30 in the code)

ASSUME SettingsAssumption == StatusPolls \in Nat

VARIABLES
    form,       \* the state of the page
    account     \* server: settings, indexing and knowledge of the account

settingsVars == <<form, account>>

\* plain stands for every typed field; the others have a writer of their own.
SettingKeys == {"plain", "briefings", "exclude", "provider"}
Invalid == 99

(***************************************************************************)
(* f, kept: the form, and what the server confirmed (persistedSettings).   *)
(* saves: the queue of writes, the first under way.  does: the flags of    *)
(* long actions.  asked: the number of the last request of each kind of    *)
(* which only the newest answer counts.  busy: panels whose chain of       *)
(* requests is under way.  typed, late: not in the code; when a field was  *)
(* last typed, and whether a status older than a save was filled in.       *)
(***************************************************************************)
Newest == {"status", "models", "health"}
NoKnowledge == [text |-> 0, original |-> 0, state |-> "none", saving |-> FALSE]
ZeroKeys == [k \in SettingKeys |-> 0]

OpenedForm ==
    [f |-> ZeroKeys, kept |-> ZeroKeys, ready |-> FALSE, loadError |-> FALSE, statusError |-> FALSE,
     saves |-> <<>>, does |-> {}, run |-> "idle", polls |-> 0, waits |-> FALSE, timer |-> FALSE, polling |-> FALSE,
     asked |-> [n \in Newest |-> IF n = "status" THEN 1 ELSE 0], url |-> FALSE, loading |-> {},
     section |-> "general", opened |-> {}, know |-> NoKnowledge, busy |-> {},
     typed |-> ZeroKeys, late |-> FALSE]

Blank == [keys |-> {}, vals |-> ZeroKeys, ready |-> FALSE, then |-> "nothing", num |-> 0, run |-> "idle", at |-> 0]

\* A step of the page takes it to o.p and sends o.asks.
Out(p, asks) == [p |-> p, asks |-> asks]
Also(o, asks) == [o EXCEPT !.asks = @ \o asks]

Indexes(p) == "indexing" \in p.does \/ p.run # "idle"
Busy(p) == p.saves # <<>> \/ p.does \cap {"checking", "indexing", "resetting", "deleting", "stopping"} # {}
SettingsLocked(p) == Busy(p) \/ Indexes(p)
FormLocked(p) == ~p.ready \/ p.does \ {"exporting"} # {} \/ Indexes(p)
BriefingsLocked(p) == ~p.ready \/ p.saves # <<>> \/ p.does \cap {"checking", "resetting", "deleting", "stopping"} # {}
ChangedKeys(p) == {k \in SettingKeys : p.f[k] # p.kept[k]}

(***************************************************************************)
(* The server.                                                             *)
(***************************************************************************)
Stores(r) == [k \in SettingKeys |-> IF k \in r.arg.keys THEN r.arg.vals[k] ELSE account.settings[k]]

ServeSettings ==
    /\ \E r \in net :
          /\ r.state = "sent"
          /\ account' = [account EXCEPT
                !.settings = IF r.op = "save" THEN Stores(r) ELSE @,
                !.knowledge = IF r.op = "putknowledge" THEN r.arg.num ELSE @,
                !.run = CASE r.op = "start" -> "running"
                          [] r.op = "stop" /\ @ = "running" -> "stopping"
                          [] OTHER -> @]
          /\ Answered(r, [Blank EXCEPT !.vals = account'.settings, !.run = account'.run, !.num = account'.knowledge])
    /\ UNCHANGED <<form, task, clicks, faults>>

RunEnds ==
    /\ account.run # "idle"
    /\ account' = [account EXCEPT !.run = "idle"]
    /\ UNCHANGED <<form, requestVars>>

(***************************************************************************)
(* fill(): a value is taken over when the field still is what it was in    *)
(* base.                                                                   *)
(***************************************************************************)
(* Slip: every confirmed value is written into the form. *)
FillAll(p, keys, vals, base) ==
    [p EXCEPT !.f = [k \in SettingKeys |-> IF k \in keys THEN vals[k] ELSE @[k]],
              !.kept = [k \in SettingKeys |-> IF k \in keys THEN vals[k] ELSE @[k]]]
Fill(p, keys, vals, base) ==
    [p EXCEPT !.f = [k \in SettingKeys |-> IF k \in keys /\ @[k] = base[k] THEN vals[k] ELSE @[k]],
              !.kept = [k \in SettingKeys |-> IF k \in keys THEN vals[k] ELSE @[k]]]

LoadStatus(p, sync, then) ==
    IF ~sync /\ ~p.ready THEN Out(p, <<>>)
    ELSE LET n == p.asked["status"] + 1
         IN  Out([p EXCEPT !.asked["status"] = n, !.loadError = @ /\ ~sync],
                 <<Ask("status", TRUE, [Blank EXCEPT !.keys = IF sync THEN SettingKeys ELSE {}, !.vals = p.kept,
                                            !.ready = p.ready, !.then = then, !.num = n])>>)

\* loadHealth(), discoverModels(): the newest answer counts.
Probe(p, kind) ==
    LET n == p.asked[kind] + 1
    IN  Out([p EXCEPT !.asked[kind] = n, !.loading = @ \cup {kind}], <<Ask(kind, TRUE, [Blank EXCEPT !.num = n])>>)

(***************************************************************************)
(* The lazy loading of a section, once the form is ready.  The lists of    *)
(* connectors, keys and plugins are one request here.                      *)
(***************************************************************************)
ListAsk(panel) == Ask("list", TRUE, [Blank EXCEPT !.then = panel])

Opened(o) ==
    LET p == o.p
        q == [p EXCEPT !.opened = @ \cup {p.section}]
    IN  IF ~p.ready \/ p.section \in p.opened THEN o
        ELSE CASE p.section = "automation" -> Also([o EXCEPT !.p = q], <<ListAsk("history")>>)
               [] p.section = "personal" ->
                    Also([o EXCEPT !.p = [q EXCEPT !.know.state = "loading"]], <<Ask("knowledge", TRUE, Blank)>>)
               [] p.section = "advanced" ->
                    Also([o EXCEPT !.p = Probe(q, "health").p],
                         <<ListAsk("integrations")>> \o Probe(q, "health").asks)
               [] OTHER -> [o EXCEPT !.p = q]

(***************************************************************************)
(* The queue of writes.  What a write holds is read when its turn comes.   *)
(***************************************************************************)
Save(kind, keys, then) == [kind |-> kind, keys |-> keys, val |-> 0, then |-> then, state |-> "waits"]

KeysOf(p, s) == IF s.kind = "changed" THEN ChangedKeys(p) ELSE s.keys
Valid(p, s) == s.kind = "patch" \/ \A k \in KeysOf(p, s) : p.f[k] # Invalid
Values(p, s) == IF s.kind = "patch" THEN [p.f EXCEPT !["provider"] = s.val] ELSE p.f

Sends(p, s, at) ==
    <<Ask("save", FALSE, [Blank EXCEPT !.keys = KeysOf(p, s), !.vals = Values(p, s), !.at = at])>>

\* The turn of the first write: it is sent, has nothing to send, or holds a value that validate() refuses.
Begin(p, at) ==
    IF p.saves = <<>> THEN Out(p, <<>>)
    ELSE LET s == Head(p.saves)
             state == IF KeysOf(p, s) = {} THEN "empty" ELSE IF Valid(p, s) THEN "sent" ELSE "invalid"
         IN  Out([p EXCEPT !.saves[1].state = state], IF state = "sent" THEN Sends(p, s, at) ELSE <<>>)

(* Slip: a write does not wait for the one before. *)
EnqueueAtOnce(p, s) ==
    LET at == clicks + 1
        q == [p EXCEPT !.saves = Append(@, [s EXCEPT !.state = "sent"])]
    IN  IF p.saves = <<>> THEN Begin([p EXCEPT !.saves = <<s>>], at) ELSE Out(q, Sends(p, s, at))
Enqueue(p, s) ==
    LET q == [p EXCEPT !.saves = Append(@, s)]
    IN  IF p.saves = <<>> THEN Begin(q, clicks + 1) ELSE Out(q, <<>>)

\* What the caller of save() does when its turn is over.
After(o, s, ok) ==
    LET p == o.p
    IN  CASE s.then = "exclude" -> IF ok THEN o ELSE [o EXCEPT !.p.f["exclude"] = s.val]
          [] s.then = "check" ->
                IF ok THEN Also(o, <<Ask("check", FALSE, Blank)>>) ELSE [o EXCEPT !.p.does = @ \ {"checking"}]
          [] s.then = "start" ->
                IF ok THEN Also([o EXCEPT !.p.does = @ \cup {"indexing"}], <<Ask("start", FALSE, Blank)>>) ELSE o
          [] s.then = "provider" ->
                LET q == LoadStatus([p EXCEPT !.busy = @ \ {"provider"}], TRUE, "nothing")
                IN  IF ok THEN Also([o EXCEPT !.p = q.p], q.asks) ELSE [o EXCEPT !.p.busy = @ \ {"provider"}]
          [] OTHER -> o

\* The turn of the first write is over, and the next begins before the caller goes on.
Over(p, ok) == After(Begin([p EXCEPT !.saves = Tail(@)], clicks), Head(p.saves), ok)

Does(o, done) == form' = o.p /\ React(done, o.asks) /\ UNCHANGED account
Clicked(act, o) == form' = o.p /\ Click(act, o.asks) /\ UNCHANGED account

SaveBack ==
    \E r \in Back("save") :
        LET base == IF Head(form.saves).kind = "patch" THEN form.kept ELSE r.arg.vals
        IN  /\ form.saves # <<>>
            /\ Does(Over(IF r.state = "failed" THEN form ELSE Fill(form, r.arg.keys, r.got.vals, base),
                         r.state = "answered"), {r})

SaveSkipped ==
    /\ form.saves # <<>> /\ Head(form.saves).state \in {"empty", "invalid"}
    /\ Does(Over(form, Head(form.saves).state = "empty"), {})

(***************************************************************************)
(* What the user does with the form.                                       *)
(***************************************************************************)
New == clicks + 1
Typed(k, v) == [form EXCEPT !.f[k] = v, !.typed[k] = New]

TypeField ==
    \E k \in {"plain", "briefings"}, v \in {New, 0, Invalid} :
        /\ IF k = "briefings" THEN ~BriefingsLocked(form) /\ v # Invalid ELSE ~FormLocked(form)
        /\ v # form.f[k]
        /\ Clicked("type", Out(Typed(k, v), <<>>))

SaveNow ==
    /\ form.ready /\ ChangedKeys(form) # {} /\ ~Busy(form)
    /\ Indexes(form) => ChangedKeys(form) \subseteq {"briefings"}
    /\ Clicked("save", Enqueue(form, Save("changed", {}, "nothing")))

\* A briefing is added, changed, toggled or removed.
PersistBriefings ==
    /\ ~BriefingsLocked(form)
    /\ Clicked("brief", Enqueue(Typed("briefings", New), Save("only", {"briefings"}, "nothing")))

\* A folder is excluded or no longer so; Enter in the field is not held back by a save.
PersistExcludes ==
    /\ ~FormLocked(form)
    /\ Clicked("exclude", Enqueue(Typed("exclude", New),
                             [Save("only", {"exclude"}, "exclude") EXCEPT !.val = form.f["exclude"]]))

\* A provider is selected, saved or removed.
PatchProvider ==
    /\ form.ready /\ ~SettingsLocked(form) /\ "provider" \notin form.busy
    /\ Clicked("provider", Enqueue([form EXCEPT !.busy = @ \cup {"provider"}],
                              [Save("patch", {"provider"}, "provider") EXCEPT !.val = New]))

CheckOllama ==
    /\ ~Busy(form) /\ ~FormLocked(form)
    /\ Clicked("check", Enqueue([form EXCEPT !.does = @ \cup {"checking"}], Save("changed", {}, "check")))

StartIndex ==
    /\ ~SettingsLocked(form) /\ form.ready
    /\ Clicked("start", Enqueue(form, Save("changed", {}, "start")))

\* Deletes of the index or of all chats, once they were confirmed.
LongAction ==
    \E op \in {"resetting", "deleting", "exporting"} :
        /\ op \notin form.does /\ ~FormLocked(form)
        /\ Clicked("long", Out([form EXCEPT !.does = @ \cup {op}],
                               <<Ask("long", op = "exporting", [Blank EXCEPT !.then = op])>>))

ActionBack ==
    \E r \in Back("check") \cup Back("start") \cup Back("long") :
        LET p == [form EXCEPT !.does = @ \ {CASE r.op = "check" -> "checking" [] r.op = "start" -> "indexing" [] OTHER -> r.arg.then},
                              !.run = IF r.op = "start" /\ r.state = "answered" THEN r.got.run ELSE @]
            o == LoadStatus(form, FALSE, "resetting")
        IN  Does(IF r.arg.then = "resetting" /\ r.state = "answered" /\ o.asks # <<>> THEN o ELSE Out(p, <<>>), {r})

(***************************************************************************)
(* stopIndex(): the status is asked again every second for a while.        *)
(***************************************************************************)
StopIndex ==
    /\ "stopping" \notin form.does /\ Indexes(form) /\ form.run # "stopping"
    /\ Clicked("stop", Out([form EXCEPT !.does = @ \cup {"stopping"}, !.polls = 0], <<Ask("stop", FALSE, Blank)>>))

StopLoop(p) ==
    IF p.polls < StatusPolls /\ p.run = "stopping" THEN Out([p EXCEPT !.waits = TRUE], <<>>)
    ELSE LoadStatus([p EXCEPT !.does = @ \ {"stopping"}], FALSE, "nothing")

StopAnswered ==
    \E r \in Back("stop") :
        LET p == [form EXCEPT !.does = @ \ {"stopping"}]
        IN  Does(IF r.state = "answered" THEN StopLoop([form EXCEPT !.run = r.got.run])
                                         ELSE LoadStatus(p, FALSE, "nothing"), {r})

StopPoll ==
    /\ form.waits
    /\ LET p == [form EXCEPT !.waits = FALSE, !.polls = @ + 1]
           o == LoadStatus(p, FALSE, "stopping")
       IN  Does(IF o.asks = <<>> THEN StopLoop(p) ELSE o, {})

(***************************************************************************)
(* The status.                                                             *)
(***************************************************************************)
Current(r) == r.arg.num = form.asked[r.op]

SyncStatus ==
    /\ form.loadError
    /\ Clicked("retry", LoadStatus(form, TRUE, "nothing"))

RefreshStatus ==
    /\ form.ready
    /\ Clicked("refresh", LoadStatus(form, FALSE, "nothing"))

SettingsStatusBack ==
    \E r \in Back("status") :
        LET sync == r.arg.keys # {}
            base == IF r.arg.ready THEN r.arg.vals ELSE form.f
            p == IF ~Current(r) THEN form
                 ELSE IF r.state = "failed"
                 THEN [form EXCEPT !.loadError = @ \/ sync, !.ready = @ /\ ~sync, !.statusError = @ \/ ~sync]
                 ELSE [(IF sync THEN Fill(form, SettingKeys, r.got.vals, base) ELSE form)
                         EXCEPT !.run = r.got.run, !.statusError = FALSE, !.ready = @ \/ sync,
                                !.late = @ \/ (sync /\ r.got.vals # account.settings)]
            q == [p EXCEPT !.timer = @ \/ r.arg.then = "mount", !.does = @ \ ({r.arg.then} \cap {"resetting"})]
        IN  Does(IF r.arg.then = "stopping" THEN StopLoop(q) ELSE Opened(Out(q, <<>>)), {r})

\* loadIndexStatus(), every 10 s while indexing.
ProgressTick ==
    /\ form.timer /\ Indexes(form) /\ ~form.polling
    /\ Does(Out([form EXCEPT !.polling = TRUE], <<Ask("progress", TRUE, Blank)>>), {})

ProgressBack ==
    \E r \in Back("progress") :
        Does(Out([form EXCEPT !.polling = FALSE, !.statusError = r.state = "failed",
                      !.run = IF r.state = "answered" THEN r.got.run ELSE @], <<>>), {r})

(***************************************************************************)
(* Models of the endpoint, 500 ms after it was typed, and the diagnosis.   *)
(***************************************************************************)
TypeUrl == ~FormLocked(form) /\ Clicked("url", Out([Typed("plain", New) EXCEPT !.url = TRUE], <<>>))
DiscoverModels == form.url /\ Does(Probe([form EXCEPT !.url = FALSE], "models"), {})
LoadHealth == form.section = "advanced" /\ "health" \notin form.loading /\ Clicked("health", Probe(form, "health"))

ProbeBack ==
    \E r \in Back("models") \cup Back("health") :
        Does(Out([form EXCEPT !.loading = IF Current(r) THEN @ \ {r.op} ELSE @], <<>>), {r})

(***************************************************************************)
(* Sections, the personal knowledge, and the panels of the integrations.   *)
(***************************************************************************)
OpenSection ==
    \E s \in {"automation", "personal", "advanced"} :
        /\ s # form.section
        /\ Clicked("section", Opened(Out([form EXCEPT !.section = s], <<>>)))

KnowledgeBack ==
    \E r \in Back("knowledge") :
        Does(Out([form EXCEPT !.know = IF r.state = "failed" THEN [@ EXCEPT !.state = "error"]
                     ELSE [@ EXCEPT !.state = "ready", !.text = r.got.num, !.original = r.got.num]], <<>>), {r})

RetryKnowledge ==
    /\ form.section = "personal" /\ form.know.state = "error" /\ ~FormLocked(form)
    /\ Clicked("know", Out([form EXCEPT !.know.state = "loading"], <<Ask("knowledge", TRUE, Blank)>>))

EditKnowledge ==
    /\ form.section = "personal" /\ form.know.state = "ready" /\ ~SettingsLocked(form) /\ ~FormLocked(form)
    /\ Clicked("know", Out([form EXCEPT !.know.text = New], <<>>))

\* What was typed while the save was under way counts as saved.
SaveKnowledge ==
    /\ form.section = "personal" /\ form.know.state = "ready" /\ ~SettingsLocked(form) /\ ~FormLocked(form)
    /\ form.know.text # form.know.original /\ ~form.know.saving
    /\ Clicked("know", Out([form EXCEPT !.know.saving = TRUE],
                           <<Ask("putknowledge", FALSE, [Blank EXCEPT !.num = form.know.text])>>))

KnowledgeSaved ==
    \E r \in Back("putknowledge") :
        Does(Out([form EXCEPT !.know.saving = FALSE,
                      !.know.original = IF r.state = "answered" THEN form.know.text ELSE @], <<>>), {r})

(* A panel is busy until its chain of requests is through; a list that     *)
(* does not load ends no chain.                                            *)
ChainOf(panel) ==
    CASE panel = "connectors" -> {<<"put", "list", "discover", "list">>, <<"delete", "list">>, <<"discover", "list">>, <<"test">>}
      [] panel = "keys" -> {<<"create", "list">>, <<"revoke", "list">>}
      [] OTHER -> {<<"put">>}

ChainAsk(panel, steps) == Ask("chain", Head(steps) = "list", [Blank EXCEPT !.then = panel, !.num = Len(steps)])

StartChain ==
    \E panel \in {"connectors", "keys", "plugins"} : \E steps \in ChainOf(panel) :
        /\ form.section = "advanced" /\ ~FormLocked(form) /\ panel \notin form.busy
        /\ Clicked("chain", Out([form EXCEPT !.busy = @ \cup {panel}], <<ChainAsk(panel, steps)>>))

ChainBack ==
    \E r \in Back("chain") : \E steps \in ChainOf(r.arg.then) :
        /\ Len(steps) >= r.arg.num
        /\ LET rest == SubSeq(steps, Len(steps) - r.arg.num + 2, Len(steps))
           IN  Does(IF rest # <<>> /\ (r.state = "answered" \/ r.get) THEN Out(form, <<ChainAsk(r.arg.then, rest)>>)
                    ELSE Out([form EXCEPT !.busy = @ \ {r.arg.then}], <<>>), {r})

ListsBack == \E r \in Back("list") : Does(Out(form, <<>>), {r})

InitSettings ==
    /\ form = OpenedForm
    /\ account \in [settings: {ZeroKeys}, knowledge: {0}, run: {"idle", "running"}]
    /\ account.run = "running" => "stop" \in task.acts
    /\ net = Sent(<<Ask("status", TRUE, [Blank EXCEPT !.keys = SettingKeys, !.vals = ZeroKeys, !.then = "mount", !.num = 1])>>, <<1>>)

NextSettings ==
    \/ ServeSettings \/ RunEnds \/ SaveBack \/ SaveSkipped
    \/ TypeField \/ SaveNow \/ PersistBriefings \/ PersistExcludes \/ PatchProvider
    \/ CheckOllama \/ StartIndex \/ LongAction \/ ActionBack \/ StopIndex \/ StopAnswered \/ StopPoll
    \/ SyncStatus \/ RefreshStatus \/ SettingsStatusBack \/ ProgressTick \/ ProgressBack
    \/ TypeUrl \/ DiscoverModels \/ LoadHealth \/ ProbeBack
    \/ OpenSection \/ KnowledgeBack \/ RetryKnowledge \/ EditKnowledge \/ SaveKnowledge \/ KnowledgeSaved
    \/ StartChain \/ ChainBack \/ ListsBack

=============================================================================
