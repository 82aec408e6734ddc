----------------------------- MODULE StoragePanels -----------------------------
(***************************************************************************)
(* The administration of the vector storage: views/AdminView.vue and the   *)
(* components VectorStorageStatus, VectorConnectionSettings,               *)
(* GenerationEmbeddingSettings, GenerationBuildSettings,                   *)
(* GenerationVerificationSettings and GenerationShadowSettings.  No        *)
(* request here is tried again, and all but the creation of a generation   *)
(* are aborted when a newer one of the same panel takes their place; what  *)
(* an aborted request brings is ignored.                                   *)
(*                                                                         *)
(* An owner has one SQL generation and at most one Qdrant generation;      *)
(* whether one is active or still being built does not gate a button here. *)
(***************************************************************************)
EXTENDS PageRequests

CONSTANTS Owners, NoOwner

ASSUME OwnerAssumption == NoOwner \notin Owners

VARIABLES
    panel,      \* the state of the page
    storage     \* server: generations, builds, verifications and delivery

panelVars == <<panel, storage>>

Generations == Owners \X {"sql", "qdrant"}
NoGeneration == <<NoOwner, "none">>
Jobs == {"build", "verification"}
JobStates == {"not_started", "running", "paused", "done"}

(***************************************************************************)
(* rows: the generations listed, and whether a load or a creation put them *)
(* there.  epoch: the number of the newest request for the list or for a   *)
(* check.  watch: the panels of the selected generation's build and        *)
(* verification.  status: what is known of the delivery.                   *)
(***************************************************************************)
NoWatch == [of |-> NoGeneration, shown |-> "unknown", from |-> NoGeneration, loading |-> FALSE, busy |-> FALSE, num |-> 0]
NoStatus == [known |-> FALSE, enabled |-> FALSE, points |-> FALSE]

OpenedPanels ==
    [users |-> "none", owner |-> NoOwner, rows |-> {}, selected |-> NoGeneration, epoch |-> 0,
     loading |-> FALSE, checking |-> FALSE, notice |-> NoGeneration, creating |-> FALSE, comparing |-> FALSE,
     watch |-> [j \in Jobs |-> NoWatch],
     status |-> NoStatus, refreshing |-> TRUE, error |-> FALSE, saving |-> FALSE,
     busy |-> FALSE, ready |-> FALSE]

Query == [owner |-> NoOwner, gen |-> NoGeneration, job |-> "build", num |-> 0, do |-> "load",
          rows |-> {}, state |-> "unknown", status |-> NoStatus, flag |-> FALSE]

Asked(op, arg) == <<Ask(op, FALSE, arg)>>

(***************************************************************************)
(* The server.  A verification needs a build that is done.                 *)
(***************************************************************************)
Prepared(owner) == {g \in Generations : g[1] = owner /\ (g[2] = "sql" \/ owner \in storage.made)}

JobAfter(now, do) ==
    CASE do \in {"start", "resume"} /\ now # "done" -> "running"
      [] do = "pause" /\ now = "running" -> "paused"
      [] OTHER -> now

\* A generation is found under its owner only.
IsForeign(r) == r.op \in {"watch", "prepare", "checkmodel"} /\ r.arg.gen[1] # r.arg.owner

ServePanels ==
    /\ \E r \in net :
          /\ r.state = "sent"
          /\ storage' = CASE IsForeign(r) -> storage
                          [] r.op = "create" -> [storage EXCEPT !.made = @ \cup {r.arg.owner}]
                          [] r.op = "watch" -> [storage EXCEPT !.jobs[r.arg.gen][r.arg.job] = JobAfter(@, r.arg.do)]
                          [] r.op = "points" -> [storage EXCEPT !.points = r.arg.flag]
                          [] r.op = "connection" /\ r.arg.do # "load" -> [storage EXCEPT !.enabled = r.arg.flag]
                          [] OTHER -> storage
          /\ IF IsForeign(r) THEN Refused(r)
             ELSE Answered(r, [Query EXCEPT
                !.rows = IF r.arg.owner \in Owners THEN Prepared(r.arg.owner) ELSE {},
                !.gen = r.arg.gen,
                !.state = IF r.arg.gen \in Generations THEN storage'.jobs[r.arg.gen][r.arg.job] ELSE "unknown",
                !.status = [known |-> TRUE, enabled |-> storage'.enabled, points |-> storage'.points]])
    /\ UNCHANGED <<panel, task, clicks, faults>>

JobEnds ==
    /\ \E g \in Generations, j \in Jobs :
          /\ storage.jobs[g][j] = "running"
          /\ storage' = [storage EXCEPT !.jobs[g][j] = "done"]
    /\ UNCHANGED <<panel, requestVars>>

Pressed(act, p, asks) == panel' = p /\ Click(act, asks) /\ UNCHANGED storage
Turns(p, done, asks) == panel' = p /\ React(done, asks) /\ UNCHANGED storage

(***************************************************************************)
(* The accounts, and the generations of the selected one.                  *)
(***************************************************************************)
LoadUsers ==
    /\ panel.users \in {"none", "error"}
    /\ Pressed("users", [panel EXCEPT !.users = "loading"], <<Ask("users", TRUE, Query)>>)

UsersBack ==
    \E r \in Back("users") :
        Turns([panel EXCEPT !.users = IF r.state = "answered" THEN "loaded" ELSE "error"], {r}, <<>>)

\* load(): everything shown for the owner before goes away.
ListingFor(p, owner) ==
    [p EXCEPT !.owner = owner, !.epoch = @ + 1, !.loading = TRUE, !.checking = FALSE, !.selected = NoGeneration,
              !.notice = NoGeneration, !.rows = {}, !.watch = [j \in Jobs |-> NoWatch]]
ListAskFor(p) == Asked("list", [Query EXCEPT !.owner = p.owner, !.num = p.epoch])

\* An owner is chosen, or the list of the same one is loaded again.
ChooseOwner ==
    \E owner \in Owners :
        /\ panel.users = "loaded"
        /\ LET p == ListingFor(panel, owner) IN Pressed("owner", p, ListAskFor(p))

(* Slip: an answer is used although a newer request was sent. *)
IsNewestAlways(r) == TRUE
IsNewest(r) == r.arg.num = panel.epoch

GenerationsBack ==
    \E r \in Back("list") :
        Turns(IF ~IsNewest(r) THEN panel
              ELSE [panel EXCEPT !.loading = FALSE,
                       !.rows = IF r.state = "answered" THEN {[gen |-> g, by |-> "load"] : g \in r.got.rows} ELSE @],
              {r}, <<>>)

(***************************************************************************)
(* The panels of a generation watch its build and, once the build is done, *)
(* its verification.                                                       *)
(***************************************************************************)
WatchAsk(p, j, do) ==
    Asked("watch", [Query EXCEPT !.owner = p.owner, !.gen = p.watch[j].of, !.job = j,
                                 !.num = p.watch[j].num, !.do = do])

\* The requests of one panel do not overlap: num tells its requests from those of a panel that is gone.
FreshNumber ==
    LET used == {r.arg.num : r \in Open("watch") \cup Open("prepare")}
    IN  CHOOSE n \in (1..(Cardinality(net) + 1)) \ used : \A m \in 1..(n - 1) : m \in used

Requested(p, j) == [p EXCEPT !.watch[j].loading = TRUE]
MountedFor(p, j, g) == Requested([p EXCEPT !.watch[j] = [NoWatch EXCEPT !.of = g, !.num = FreshNumber]], j)

SelectedGeneration(p, g) ==
    MountedFor([p EXCEPT !.selected = g, !.notice = NoGeneration, !.watch["verification"] = NoWatch,
                   !.epoch = IF p.checking THEN @ + 1 ELSE @, !.checking = FALSE], "build", g)

SelectGeneration ==
    \E row \in panel.rows :
        /\ row.gen # panel.selected
        /\ LET p == SelectedGeneration(panel, row.gen) IN Pressed("generation", p, WatchAsk(p, "build", "load"))

WatchIdle(j) == panel.watch[j].of # NoGeneration /\ ~panel.watch[j].loading /\ ~panel.watch[j].busy

Control ==
    \E j \in Jobs, do \in {"load", "start", "pause", "resume"} :
        /\ WatchIdle(j)
        /\ CASE do = "start" -> panel.watch[j].shown = "not_started"
             [] do = "pause" -> panel.watch[j].shown = "running"
             [] do = "resume" -> panel.watch[j].shown = "paused"
             [] OTHER -> TRUE
        /\ LET p == [Requested(panel, j) EXCEPT !.watch[j].busy = do # "load"]
           IN  Pressed("control", p, WatchAsk(p, j, do))

WatchTick ==
    \E j \in Jobs :
        /\ WatchIdle(j) /\ panel.watch[j].shown = "running"
        /\ LET p == Requested(panel, j) IN Turns(p, {}, WatchAsk(p, j, "load"))

\* prepareCollection() asks for the build afterwards.
PrepareCollection ==
    /\ WatchIdle("build") /\ panel.selected[2] = "qdrant"
    /\ panel.watch["build"].shown \in {"not_started", "paused"}
    /\ Pressed("prepare", [panel EXCEPT !.watch["build"].busy = TRUE],
             Asked("prepare", [Query EXCEPT !.owner = panel.owner, !.gen = panel.selected, !.num = panel.watch["build"].num]))

PrepareBack ==
    \E r \in Back("prepare") :
        LET p == Requested(panel, "build")
        IN  IF r.arg.num # panel.watch["build"].num THEN Turns(panel, {r}, <<>>)
            ELSE IF r.state = "answered" THEN Turns(p, {r}, WatchAsk(p, "build", "load"))
            ELSE Turns([panel EXCEPT !.watch["build"].busy = FALSE], {r}, <<>>)

\* accept(); the verification is there while the build shows that it is done.
WatchBack ==
    \E r \in Back("watch") :
        LET j == r.arg.job
            p == [panel EXCEPT !.watch[j].loading = FALSE, !.watch[j].busy = FALSE,
                     !.watch[j].shown = IF r.state = "answered" THEN r.got.state ELSE @,
                     !.watch[j].from = IF r.state = "answered" THEN r.got.gen ELSE @]
            opens == p.watch["build"].shown = "done" /\ p.watch["verification"].of = NoGeneration
            v == MountedFor(p, "verification", p.watch["build"].of)
        IN  IF r.arg.num # panel.watch[j].num THEN Turns(panel, {r}, <<>>)
            ELSE IF opens THEN Turns(v, {r}, WatchAsk(v, "verification", "load"))
            ELSE Turns(IF p.watch["build"].shown # "done" THEN [p EXCEPT !.watch["verification"] = NoWatch] ELSE p,
                       {r}, <<>>)

(***************************************************************************)
(* check() and createQdrant().  The second has neither an epoch nor an     *)
(* owner in its answer's way.                                              *)
(***************************************************************************)
CheckGeneration ==
    /\ panel.selected # NoGeneration /\ ~panel.checking /\ ~panel.loading
    /\ LET p == [panel EXCEPT !.epoch = @ + 1, !.checking = TRUE, !.notice = NoGeneration]
       IN  Pressed("checkmodel", p, Asked("checkmodel", [Query EXCEPT !.owner = p.owner, !.gen = p.selected, !.num = p.epoch]))

CheckBack ==
    \E r \in Back("checkmodel") :
        Turns(IF ~IsNewest(r) THEN panel ELSE [panel EXCEPT !.checking = FALSE, !.notice = r.arg.gen], {r}, <<>>)

CreateQdrant ==
    /\ panel.selected = <<panel.owner, "sql">> /\ ~panel.creating
    /\ Pressed("create", [panel EXCEPT !.creating = TRUE], Asked("create", [Query EXCEPT !.owner = panel.owner]))

CreatedBack ==
    \E r \in Back("create") :
        LET g == <<r.arg.owner, "qdrant">>
            p == SelectedGeneration([panel EXCEPT !.creating = FALSE,
                     !.rows = {row \in @ : row.gen # g} \cup {[gen |-> g, by |-> "create"]}], g)
        IN  IF r.state = "answered" THEN Turns(p, {r}, WatchAsk(p, "build", "load"))
            ELSE Turns([panel EXCEPT !.creating = FALSE], {r}, <<>>)

\* compare(): a shadow comparison of the verified Qdrant generation.
Compare ==
    /\ panel.watch["verification"].shown = "done" /\ panel.selected[2] = "qdrant" /\ ~panel.comparing
    /\ Pressed("compare", [panel EXCEPT !.comparing = TRUE], Asked("compare", Query))

CompareBack == \E r \in Back("compare") : Turns([panel EXCEPT !.comparing = FALSE], {r}, <<>>)

(***************************************************************************)
(* The state of the delivery.  refresh() does nothing while one is under   *)
(* way.                                                                    *)
(***************************************************************************)
Refreshing(p) ==
    IF p.refreshing THEN p
    ELSE [p EXCEPT !.refreshing = TRUE, !.error = FALSE, !.status = NoStatus]
RefreshAsks(p) == IF p.refreshing THEN <<>> ELSE Asked("delivery", Query)

RefreshDelivery ==
    /\ ~panel.refreshing
    /\ Pressed("delivery", Refreshing(panel), RefreshAsks(panel))

DeliveryBack ==
    \E r \in Back("delivery") :
        Turns([panel EXCEPT !.refreshing = FALSE, !.error = r.state = "failed",
                  !.status = IF r.state = "answered" THEN r.got.status ELSE @], {r}, <<>>)

SetPointDelivery ==
    /\ panel.status.known /\ ~panel.saving /\ ~panel.refreshing
    /\ Pressed("points", [panel EXCEPT !.saving = TRUE], Asked("points", [Query EXCEPT !.flag = ~panel.status.points]))

PointsBack ==
    \E r \in Back("points") :
        LET p == [panel EXCEPT !.saving = FALSE] IN Turns(Refreshing(p), {r}, RefreshAsks(p))

\* One action of the connection at a time: load, save, disable or check.
UseConnection ==
    \E do \in {"load", "save", "disable", "check"}, enable \in BOOLEAN :
        /\ ~panel.busy
        /\ CASE do = "load" -> ~panel.ready /\ ~enable
             [] do = "save" -> panel.ready
             [] do = "check" -> panel.status.enabled /\ enable
             [] OTHER -> ~enable
        /\ Pressed("connection", [panel EXCEPT !.busy = TRUE],
                 Asked("connection", [Query EXCEPT !.do = do, !.flag = IF do = "check" THEN storage.enabled ELSE enable]))

ConnectionBack ==
    \E r \in Back("connection") :
        LET p == [panel EXCEPT !.busy = FALSE,
                     !.ready = CASE r.arg.do = "load" -> @ \/ r.state = "answered"
                                 [] r.arg.do = "save" -> r.state = "answered"
                                 [] OTHER -> @]
        IN  IF r.arg.do \in {"save", "disable"} THEN Turns(Refreshing(p), {r}, RefreshAsks(p)) ELSE Turns(p, {r}, <<>>)

\* Either no owner has a Qdrant generation yet, or every owner has one, whose build has ended or not begun.
InitPanels ==
    /\ panel = OpenedPanels
    /\ \E made \in {{}, Owners}, built \in BOOLEAN :
          storage = [made |-> made, enabled |-> FALSE, points |-> FALSE,
                     jobs |-> [g \in Generations |-> [j \in Jobs |->
                                 IF built /\ g[1] \in made /\ g[2] = "qdrant" /\ j = "build" THEN "done" ELSE "not_started"]]]
    /\ net = Sent(Asked("delivery", Query), <<1>>)

NextPanels ==
    \/ ServePanels \/ JobEnds \/ LoadUsers \/ UsersBack \/ ChooseOwner \/ GenerationsBack
    \/ SelectGeneration \/ Control \/ WatchTick \/ WatchBack \/ PrepareCollection \/ PrepareBack
    \/ CheckGeneration \/ CheckBack \/ CreateQdrant \/ CreatedBack \/ Compare \/ CompareBack
    \/ RefreshDelivery \/ DeliveryBack \/ SetPointDelivery \/ PointsBack \/ UseConnection \/ ConnectionBack

=============================================================================
