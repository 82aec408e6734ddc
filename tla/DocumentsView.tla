---------------------------- MODULE DocumentsView ----------------------------
(***************************************************************************)
(* The page of the indexed documents: src/views/DocumentsView.vue.  It     *)
(* loads pages of a filtered list, the chunks of the documents the user    *)
(* opens, and starts, stops and watches the indexing of the account.       *)
(*                                                                         *)
(* A document is a number, the newest first; one filter stands for the     *)
(* search, type, folder and size fields.  Chunks come in pages.            *)
(***************************************************************************)
EXTENDS PageRequests

CONSTANTS
    MaxListed,      \* bound: documents of the account
    ChunkPages,     \* bound: pages of chunks of a document
    StopPolls       \* bound: polls of the status after a stop (30 in the code)

ASSUME DocumentsAssumption ==
    MaxListed \in Nat /\ ChunkPages \in Nat \ {0} /\ StopPolls \in Nat

VARIABLES
    page,       \* the state of the page
    indexed,    \* server: the documents of the index
    run         \* server: the indexing of the account

documentVars == <<page, indexed, run>>

Filters == {"all", "odd"}
Runs == {"idle", "running", "stopping"}

(***************************************************************************)
(* status: what the page knows of the run.  stop: where stopIndex() is.    *)
(* timer: the next poll is scheduled.  cache: the chunks of a document and *)
(* the offsets of the pages loaded.  epoch counts the lists.               *)
(***************************************************************************)
NoChunks == [status |-> "none", pages |-> <<>>, more |-> FALSE]

OpenedPage ==
    [list |-> <<>>, total |-> 0, filter |-> "all", loading |-> TRUE, more |-> FALSE, hasMore |-> TRUE,
     status |-> "unknown", statusError |-> FALSE, asking |-> TRUE, indexing |-> FALSE,
     stop |-> "no", polls |-> 0, timer |-> FALSE, mounting |-> 2,
     expanded |-> {}, cache |-> [d \in 1..MaxListed |-> NoChunks], epoch |-> 0, disposed |-> FALSE]

Wish == [filter |-> "all", offset |-> 0, doc |-> 0, epoch |-> 0, then |-> "nothing",
         found |-> <<>>, total |-> 0, run |-> "idle"]

ListWish(p, more, then) ==
    Ask(IF more THEN "moredocuments" ELSE "documents", TRUE,
        [Wish EXCEPT !.filter = p.filter, !.offset = IF more THEN Len(p.list) ELSE 0, !.then = then])
StatusWish(then) == Ask("status", TRUE, [Wish EXCEPT !.then = then])

(***************************************************************************)
(* The server.  A page of the list holds one document.                     *)
(***************************************************************************)
Matches(filter) ==
    LET found == {d \in indexed : filter = "all" \/ d % 2 = 1}
    IN  Reverse(Ascending(found))

DocumentsPage(r) ==
    LET found == Matches(r.arg.filter)
    IN  [Wish EXCEPT !.total = Len(found),
            !.found = IF r.arg.offset < Len(found) THEN <<found[r.arg.offset + 1]>> ELSE <<>>]

RunAfter(op) ==
    CASE op = "start" -> "running"
      [] op = "stop" -> IF run = "running" THEN "stopping" ELSE run
      [] OTHER -> run

ServeDocuments ==
    /\ \E r \in net :
          /\ r.state = "sent"
          /\ run' = RunAfter(r.op)
          /\ Answered(r, CASE r.op \in {"documents", "moredocuments"} -> DocumentsPage(r)
                           [] OTHER -> [Wish EXCEPT !.run = run'])
    /\ UNCHANGED <<page, indexed, task, clicks, faults>>

\* The background job ends; a run that was not stopped has found a document.
IndexingEnds ==
    /\ run # "idle" /\ "indexer" \in task.acts
    /\ run' = "idle"
    /\ indexed' = IF run = "running" /\ Cardinality(indexed) < MaxListed
                  THEN indexed \cup {Cardinality(indexed) + 1} ELSE indexed
    /\ UNCHANGED <<page, requestVars>>

(***************************************************************************)
(* The list.                                                               *)
(***************************************************************************)
Idle(p) == ~p.loading /\ ~p.more
StartsLoad(p) == IF Idle(p) THEN [p EXCEPT !.loading = TRUE] ELSE p
LoadAsks(p) == IF Idle(p) THEN <<ListWish(p, FALSE, "nothing")>> ELSE <<>>

Load == /\ Idle(page)
        /\ Click("load", LoadAsks(page))
        /\ page' = StartsLoad(page)
        /\ UNCHANGED <<indexed, run>>

LoadMoreDocuments ==
    /\ Idle(page) /\ page.hasMore /\ page.list # <<>>
    /\ Click("moredocuments", <<ListWish(page, TRUE, "nothing")>>)
    /\ page' = [page EXCEPT !.more = TRUE]
    /\ UNCHANGED <<indexed, run>>

\* The text fields load nothing by themselves.
TypeSearch ==
    /\ Idle(page)
    /\ \E q \in Filters \ {page.filter} : page' = [page EXCEPT !.filter = q]
    /\ Click("search", <<>>)
    /\ UNCHANGED <<indexed, run>>

(* Slip: the list is replaced, and requests of the old one stay valid. *)
ReplacedOnly(p, found) ==
    [p EXCEPT !.list = found, !.expanded = {}, !.cache = [d \in 1..MaxListed |-> NoChunks]]
Replaced(p, found) ==
    [p EXCEPT !.list = found, !.expanded = {}, !.cache = [d \in 1..MaxListed |-> NoChunks], !.epoch = @ + 1]

\* The status is polled from the moment the first list and status are there.
Mounting(p, then) ==
    IF then # "mount" THEN p
    ELSE [p EXCEPT !.mounting = @ - 1, !.timer = p.mounting = 1 /\ ~p.disposed]

DocumentsBack ==
    \E r \in Back("documents") \cup Back("moredocuments") :
        LET more == r.op = "moredocuments"
            p == [page EXCEPT !.loading = FALSE, !.more = FALSE]
            q == IF more THEN [p EXCEPT !.list = @ \o r.got.found] ELSE Replaced(p, r.got.found)
            n == IF r.state = "failed" \/ page.disposed THEN p
                 ELSE [q EXCEPT !.total = r.got.total,
                          !.hasMore = r.got.found # <<>> /\ Len(q.list) < r.got.total]
        IN  /\ page' = Mounting(n, r.arg.then)
            /\ React({r}, <<>>)
            /\ UNCHANGED <<indexed, run>>

(***************************************************************************)
(* The chunks.  An answer is dropped when the list was replaced meanwhile. *)
(***************************************************************************)
ChunkWish(d, offset) == Ask("chunks", FALSE, [Wish EXCEPT !.doc = d, !.offset = offset, !.epoch = page.epoch])

ToggleDocument ==
    \E d \in ToSet(page.list) :
        LET opens == d \notin page.expanded
            loads == opens /\ page.cache[d].status \in {"none", "error"}
        IN  /\ page' = [page EXCEPT !.expanded = IF opens THEN @ \cup {d} ELSE @ \ {d},
                            !.cache[d] = IF loads THEN [NoChunks EXCEPT !.status = "loading"] ELSE @]
            /\ Click("open", IF loads THEN <<ChunkWish(d, 0)>> ELSE <<>>)
            /\ UNCHANGED <<indexed, run>>

RetryChunks ==
    \E d \in page.expanded :
        /\ page.cache[d].status = "error"
        /\ page' = [page EXCEPT !.cache[d] = [NoChunks EXCEPT !.status = "loading"]]
        /\ Click("retrychunks", <<ChunkWish(d, 0)>>)
        /\ UNCHANGED <<indexed, run>>

WantsMore(c) == c.status = "ready" /\ Len(c.pages) < ChunkPages /\ ~c.more

LoadMoreChunks ==
    \E d \in page.expanded :
        /\ WantsMore(page.cache[d])
        /\ page' = [page EXCEPT !.cache[d].more = TRUE]
        /\ Click("morechunks", <<ChunkWish(d, Len(page.cache[d].pages))>>)
        /\ UNCHANGED <<indexed, run>>

ChunksBack ==
    \E r \in Back("chunks") :
        LET d == r.arg.doc
            old == page.cache[d]
            new == IF r.state = "answered"
                   THEN [status |-> "ready", pages |-> IF r.arg.offset = 0 THEN <<0>> ELSE Append(old.pages, r.arg.offset),
                         more |-> FALSE]
                   ELSE IF r.arg.offset = 0 THEN [NoChunks EXCEPT !.status = "error"]
                   ELSE [old EXCEPT !.more = FALSE]
        IN  /\ page' = IF page.disposed \/ r.arg.epoch # page.epoch THEN page ELSE [page EXCEPT !.cache[d] = new]
            /\ React({r}, <<>>)
            /\ UNCHANGED <<indexed, run>>

(***************************************************************************)
(* Indexing.  One status request is under way at a time.                   *)
(***************************************************************************)
Locked == page.status # "idle" \/ page.statusError \/ page.indexing

StartIndexing ==
    \E kind \in {"files", "mail"} :     \* Talk is started as mail is
        /\ ~Locked
        /\ Click("start", <<Ask("start", FALSE, [Wish EXCEPT !.then = kind])>>)
        /\ page' = [page EXCEPT !.indexing = TRUE]
        /\ UNCHANGED <<indexed, run>>

StartBack ==
    \E r \in Back("start") :
        LET p == [page EXCEPT !.indexing = FALSE, !.status = IF r.state = "answered" THEN r.got.run ELSE @]
        IN  /\ page' = IF r.arg.then = "files" THEN StartsLoad(p) ELSE p
            /\ React({r}, IF r.arg.then = "files" THEN LoadAsks(p) ELSE <<>>)
            /\ UNCHANGED <<indexed, run>>

StopIndexing ==
    /\ page.stop = "no" /\ (page.indexing \/ page.status = "running")
    /\ Click("stop", <<Ask("stop", FALSE, Wish)>>)
    /\ page' = [page EXCEPT !.stop = "asked", !.polls = 0]
    /\ UNCHANGED <<indexed, run>>

(* loadStatus(): the requests it sends, and the page that has sent them. *)
StatusAsks(p, then) == IF p.asking THEN <<>> ELSE <<StatusWish(then)>>
Polls(p) == p.polls < StopPolls /\ p.status = "stopping"

\* The loop of stopIndex() and, when it ends, the last status and list.
GoesOn(p, done) ==
    IF Polls(p) THEN page' = [p EXCEPT !.stop = "waiting"] /\ React(done, <<>>)
    ELSE LET q == [p EXCEPT !.stop = "no"]
         IN  IF q.asking
             THEN page' = StartsLoad(q) /\ React(done, LoadAsks(q))
             ELSE page' = [q EXCEPT !.asking = TRUE] /\ React(done, <<StatusWish("load")>>)

StopBack ==
    \E r \in Back("stop") :
        /\ GoesOn([page EXCEPT !.status = IF r.state = "answered" THEN r.got.run ELSE @], {r})
        /\ UNCHANGED <<indexed, run>>

StopTick ==
    /\ page.stop = "waiting"
    /\ LET p == [page EXCEPT !.polls = @ + 1]
       IN  IF p.asking THEN GoesOn(p, {})
           ELSE page' = [p EXCEPT !.stop = "polling", !.asking = TRUE] /\ React({}, <<StatusWish("stop")>>)
    /\ UNCHANGED <<indexed, run>>

StatusTick ==
    /\ page.timer /\ ~page.disposed /\ "visible" \in task.acts
    /\ page' = [page EXCEPT !.timer = page.asking, !.asking = TRUE]
    /\ React({}, StatusAsks(page, "poll"))
    /\ UNCHANGED <<indexed, run>>

StatusBack ==
    \E r \in Back("status") :
        LET p == [page EXCEPT !.asking = FALSE, !.statusError = r.state = "failed",
                     !.status = IF r.state = "answered" THEN r.got.run ELSE @]
        IN  /\ CASE r.arg.then = "stop" -> GoesOn(p, {r})
                 [] r.arg.then = "load" -> page' = StartsLoad(p) /\ React({r}, LoadAsks(p))
                 [] r.arg.then = "poll" -> page' = [p EXCEPT !.timer = ~p.disposed] /\ React({r}, <<>>)
                 [] OTHER -> page' = Mounting(p, r.arg.then) /\ React({r}, <<>>)
            /\ UNCHANGED <<indexed, run>>

\* onUnmounted(): the request for the list is aborted, which api() does not retry.
CloseDocuments ==
    /\ ~page.disposed
    /\ Click("close", <<>>)
    /\ page' = [page EXCEPT !.disposed = TRUE, !.epoch = @ + 1, !.timer = FALSE]
    /\ UNCHANGED <<indexed, run>>

InitDocuments ==
    /\ page = OpenedPage
    /\ indexed \in {1..n : n \in 0..MaxListed}
    /\ run \in Runs /\ (run # "idle" => "indexer" \in task.acts)
    /\ net = Sent(<<ListWish(OpenedPage, FALSE, "mount"), StatusWish("mount")>>, <<1, 2>>)

NextDocuments ==
    \/ ServeDocuments \/ IndexingEnds
    \/ Load \/ LoadMoreDocuments \/ TypeSearch \/ DocumentsBack
    \/ ToggleDocument \/ RetryChunks \/ LoadMoreChunks \/ ChunksBack
    \/ StartIndexing \/ StartBack \/ StopIndexing \/ StopBack \/ StopTick
    \/ StatusTick \/ StatusBack \/ CloseDocuments

=============================================================================
