------------------------------- MODULE AgentRuns -------------------------------
(***************************************************************************)
(* The list of the background requests: src/views/AgentRunsView.vue, over  *)
(* the queue of BackgroundChat, whose items the server moves here in one   *)
(* step.  The page loads the whole list, and again after each action of    *)
(* the user and while something is queued or running.                      *)
(***************************************************************************)
EXTENDS PageRequests

CONSTANT Requests    \* bound: background requests of the user

VARIABLES
    runs,       \* the state of the page
    work        \* server: each request, and whether its cancellation is asked for

runsVars == <<runs, work>>

RunStatuses == {"pending", "running", "paused", "failed", "completed", "cancelled"}

Queued(status) == [status |-> status, stop |-> FALSE]
Queueables == [status: RunStatuses, stop: BOOLEAN]

NoRuns == [id \in {} |-> "pending"]

(***************************************************************************)
(* flying: a load is under way, and another one is not begun.  quiet: a    *)
(* minute passed since the last one began.                                 *)
(***************************************************************************)
OpenedRuns ==
    [items |-> NoRuns, loading |-> TRUE, loaded |-> FALSE, error |-> FALSE, busy |-> {}, flying |-> TRUE,
     quiet |-> FALSE, mounted |-> TRUE]

RunWish == [id |-> CHOOSE id \in Requests : TRUE, after |-> {}, items |-> NoRuns]

Allowed == [pause |-> {"pending"}, resume |-> {"paused"}, retry |-> {"failed"}, cancel |-> {"pending", "running", "paused"}]

(***************************************************************************)
(* The queue does what it can and answers "ok": a request that is not      *)
(* pending is not paused, one that runs is only marked to be cancelled, and *)
(* a retry asks for no status at all.                                      *)
(***************************************************************************)
Becomes(op, item) ==
    CASE op = "pause"  /\ item.status = "pending" -> [item EXCEPT !.status = "paused"]
      [] op = "resume" /\ item.status = "paused"  -> [item EXCEPT !.status = "pending"]
      [] op = "cancel" /\ item.status = "running" -> [item EXCEPT !.stop = TRUE]
      [] op = "cancel" /\ item.status # "running" -> [item EXCEPT !.status = "cancelled"]
      [] op = "retry" -> [item EXCEPT !.status = "pending"]
      [] OTHER -> item

\* A completed request is in the history only, where a retry finds it and does nothing.
InQueue(id) == work[id].status # "completed"

RunList == [id \in Requests |-> work[id].status]

ServeRuns ==
    /\ \E r \in net :
          LET id == r.arg.id
          IN  /\ r.state = "sent"
              /\ \/ /\ r.op = "runs"
                    /\ Answered(r, [r.arg EXCEPT !.items = RunList]) /\ UNCHANGED work
                 \/ /\ r.op # "runs" /\ InQueue(id)
                    /\ work' = [work EXCEPT ![id] = Becomes(r.op, @)] /\ Answered(r, r.arg)
                 \/ /\ r.op = "retry" /\ InQueue(id)    \* its attempts are used up
                    /\ work' = [work EXCEPT ![id].status = "failed"] /\ Refused(r)
                 \/ /\ r.op # "runs" /\ ~InQueue(id) /\ UNCHANGED work
                    /\ IF r.op = "retry" THEN Answered(r, r.arg) ELSE Refused(r)
    /\ UNCHANGED <<runs, task, clicks, faults>>

(***************************************************************************)
(* The job of the server works on them: a request is claimed, and answered, *)
(* stopped, failed or queued again; one to be cancelled whose worker died  *)
(* is cancelled by the next claim.                                         *)
(***************************************************************************)
Moves(item) ==
    CASE item.status = "pending" /\ ~item.stop -> {"running"}
      [] item.status = "running" -> {"completed", "failed", "pending"} \cup (IF item.stop THEN {"cancelled"} ELSE {})
      [] OTHER -> {}

WorkMoves ==
    \E id \in Requests :
        /\ "job" \in task.acts
        /\ \E s \in Moves(work[id]) : work' = [work EXCEPT ![id].status = s]
        /\ UNCHANGED <<runs, requestVars>>

(***************************************************************************)
(* load().  after: the action it follows, which is over when the load is.  *)
(***************************************************************************)
RunsAsk(after) == <<Ask("runs", TRUE, [RunWish EXCEPT !.after = after])>>
LoadsRuns(p) == [p EXCEPT !.flying = TRUE, !.loading = TRUE, !.quiet = FALSE]

RefreshRuns ==
    /\ runs.mounted /\ ~runs.flying
    /\ runs' = LoadsRuns(runs)
    /\ Click("runs", RunsAsk({}))
    /\ UNCHANGED work

RunsTick ==
    /\ runs.mounted /\ ~runs.flying
    /\ runs.quiet \/ \E id \in DOMAIN runs.items : runs.items[id] \in {"pending", "running"}
    /\ runs' = LoadsRuns(runs)
    /\ Click("tick", RunsAsk({}))
    /\ UNCHANGED work

MinutePasses == ~runs.quiet /\ runs' = [runs EXCEPT !.quiet = TRUE] /\ Click("tick", <<>>) /\ UNCHANGED work

(* Leaving the page makes every answer an old one. *)
RunsBack ==
    \E r \in Back("runs") :
        LET p == [runs EXCEPT !.flying = FALSE, !.busy = @ \ r.arg.after]
        IN  /\ runs' = IF ~p.mounted THEN p
                       ELSE IF r.state = "failed" THEN [p EXCEPT !.loading = FALSE, !.error = TRUE]
                       ELSE [p EXCEPT !.loading = FALSE, !.error = FALSE, !.loaded = TRUE, !.items = r.got.items]
            /\ React({r}, <<>>)
            /\ UNCHANGED work

(***************************************************************************)
(* act().  The list is loaded afterwards, unless a load is under way.      *)
(***************************************************************************)
Act ==
    \E op \in DOMAIN Allowed, id \in DOMAIN runs.items :
        /\ runs.mounted /\ runs.items[id] \in Allowed[op] /\ id \notin runs.busy
        /\ runs' = [runs EXCEPT !.busy = @ \cup {id}]
        /\ Click("act", <<Ask(op, FALSE, [RunWish EXCEPT !.id = id])>>)
        /\ UNCHANGED work

ActBack ==
    \E r \in net :
        LET id == r.arg.id
        IN  /\ r.op \in DOMAIN Allowed /\ r.state # "sent"
            /\ IF r.state = "answered" /\ ~runs.flying
               THEN runs' = LoadsRuns(runs) /\ React({r}, RunsAsk({id}))
               ELSE /\ runs' = [runs EXCEPT !.busy = @ \ {id}, !.error = @ \/ r.state = "failed"]
                    /\ React({r}, <<>>)
            /\ UNCHANGED work

LeaveRuns == runs.mounted /\ runs' = [runs EXCEPT !.mounted = FALSE] /\ Click("leave", <<>>) /\ UNCHANGED work

InitRuns ==
    /\ runs = OpenedRuns
    /\ work \in [Requests -> {Queued("pending"), Queued("failed")}]
    /\ net = Sent(RunsAsk({}), <<1>>)

NextRuns ==
    \/ ServeRuns \/ WorkMoves \/ RefreshRuns \/ RunsTick \/ MinutePasses \/ RunsBack \/ Act \/ ActBack \/ LeaveRuns

=============================================================================
