-------------------------- MODULE IncrementalIndex --------------------------
(***************************************************************************)
(* How the classic index of one account follows its files: the hooks that   *)
(* queue a change, the job that reindexes one queued file                   *)
(* (lib/BackgroundJob/ReindexFileJob.php, Indexer::reindexFile), the full   *)
(* pass that is the safety net (Indexer::run, started by cron or on         *)
(* request), the index lock they share and the request to stop a pass.      *)
(*                                                                         *)
(* A document is replaced in steps: a row without chunks is staged, its     *)
(* text is embedded, the chunks are published, the old row is removed.      *)
(* Any other process may step in between.  Content hashes are compared as   *)
(* contents, and every write is given an mtime of its own.  Files that are  *)
(* out of scope or excluded look like deleted ones, and a pass flushes its  *)
(* batch after every file.                                                  *)
(***************************************************************************)
EXTENDS DirtyIndexStore, FiniteSetsExt

CONSTANTS
    Contents,     \* what a file may contain
    Gone,         \* the file does not exist
    Workers,      \* background processes
    MaxWrites,    \* bound on the number of file operations
    MaxDocs,      \* bound on document ids
    FaultSets     \* what may go wrong together: sets of FaultKinds

FaultKinds ==
    {"crash",       \* a background process dies
     "stop",        \* somebody stops a running pass
     "lostmark",    \* the hook could not queue the change
     "embedding",   \* extraction or the embedding service fails
     "unembeddable",\* the model refuses one document
     "leftover"}    \* the old version could not be removed

ASSUME IndexAssumption ==
    /\ Gone \notin Contents
    /\ FaultSets \subseteq SUBSET FaultKinds
    /\ MaxWrites \in Nat /\ MaxWrites <= MaxMarks
    /\ MaxDocs \in Nat

VARIABLES
    disk,      \* the account's files
    writes,    \* number of file operations so far
    unmarked,  \* file operations whose hook has not run yet, by file
    docs,      \* eva_ai_documents; "chunks": its chunks are searchable
    lock,      \* the index lock: also when its holder died, or its row expired
    running,   \* index_running; "abandoned" once its heartbeat is too old
    cancel,    \* index_cancel_requested
    worker,
    faults     \* what may go wrong in this behaviour

fileVars == <<disk, writes, unmarked, faults>>
runVars  == <<lock, running, cancel>>
vars     == <<dirty, marks, disk, writes, unmarked, docs, lock, running, cancel, worker, faults>>

-----------------------------------------------------------------------------
Kinds   == {"job", "cron", "request"}
Phases  == {"idle", "waiting", "claimed", "looking", "read", "staged", "embedded", "published",
            "finished", "released"}
Results == {"ok", "error", "deferred"}
Version == [content : Contents \cup {Gone}, mtime : 0..MaxWrites]
DocIds  == 1..MaxDocs
Doc     == [id : DocIds, file : Files, content : Contents, mtime : 0..MaxWrites, chunks : BOOLEAN]

(* What a process remembers: its claim; the version it read, the row it will  *)
(* replace and the row it staged (0: none); for a pass, the rows it found at  *)
(* its start and the files it still has to visit or did not find.  "stop" is  *)
(* AppConfig's cache of index_cancel_requested: it is read once per pass and  *)
(* once per reindexed file, and answers every later look at the flag.         *)
Idle == [kind |-> "job", phase |-> "idle", file |-> Gone, stamp |-> 0, content |-> Gone, mtime |-> 0,
         old |-> 0, new |-> 0, result |-> "ok", stop |-> "unread", snapshot |-> {}, todo |-> {}, missing |-> {}]

TypeOK ==
    /\ DirtyTypeOK
    /\ disk \in [Files -> Version]
    /\ writes \in 0..MaxWrites
    /\ faults \in FaultSets
    /\ unmarked \in [Files -> 0..MaxWrites]
    /\ docs \subseteq Doc
    /\ \A d, e \in docs : d.id = e.id => d = e
    /\ lock \in {"free", "held", "orphaned", "expired"}
    /\ running \in {"no", "yes", "abandoned"}
    /\ cancel \in BOOLEAN
    /\ \A w \in Workers :
          /\ worker[w].kind \in Kinds
          /\ worker[w].phase \in Phases
          /\ worker[w].result \in Results
          /\ worker[w].stop \in {"unread", "no", "yes"}
          /\ {worker[w].old, worker[w].new} \subseteq 0..MaxDocs
          /\ worker[w].snapshot \subseteq Doc
          /\ worker[w].todo \cup worker[w].missing \subseteq Files

Init ==
    /\ DirtyInit
    /\ disk = [f \in Files |-> [content |-> Gone, mtime |-> 0]]
    /\ writes = 0
    /\ unmarked = [f \in Files |-> 0]
    /\ docs = {}
    /\ lock = "free"
    /\ running = "no"
    /\ cancel = FALSE
    /\ worker = [w \in Workers |-> Idle]
    /\ faults \in FaultSets

DocsOf(f)     == {d \in docs : d.file = f}
Searchable(f) == {d \in DocsOf(f) : d.chunks}
Scans(w)      == worker[w].kind # "job"
InPass(w)     == Scans(w) /\ worker[w].phase # "idle"
HoldsLock(w)  == worker[w].phase \notin {"idle", "waiting", "claimed", "released"}
Freed(id)     == {d \in docs : d.id # id}

(* An auto-increment id is larger than any that is in use or remembered.      *)
NextId == 1 + Max({0} \cup {d.id : d \in docs}
                      \cup (UNION {{worker[w].old, worker[w].new} : w \in Workers})
                      \cup (UNION {{d.id : d \in worker[w].snapshot} : w \in Workers}))

-----------------------------------------------------------------------------
(* The user's files, and the hooks behind them. *)

Write(f) ==
    /\ writes < MaxWrites
    /\ \E c \in Contents \cup {Gone} :
          /\ c = Gone => disk[f].content # Gone
          /\ disk' = [disk EXCEPT ![f] = [content |-> c, mtime |-> writes + 1]]
    /\ writes' = writes + 1
    /\ unmarked' = [unmarked EXCEPT ![f] = @ + 1]
    /\ UNCHANGED <<dirtyVars, docs, runVars, worker, faults>>

Mark(f) ==
    /\ unmarked[f] > 0
    /\ MarkFile(f)
    /\ unmarked' = [unmarked EXCEPT ![f] = @ - 1]
    /\ UNCHANGED <<disk, writes, docs, runVars, worker, faults>>

(* The listener never breaks the user's operation: its failure is silent.     *)
MarkLost(f) ==
    /\ "lostmark" \in faults
    /\ unmarked[f] > 0
    /\ unmarked' = [unmarked EXCEPT ![f] = @ - 1]
    /\ UNCHANGED <<dirtyVars, disk, writes, docs, runVars, worker, faults>>

(* stopIndex(), or an administrator stopping the periodic run.                *)
Stop ==
    /\ "stop" \in faults
    /\ running = "yes"
    /\ cancel' = TRUE
    /\ UNCHANGED <<dirtyVars, fileVars, docs, lock, running, worker>>

-----------------------------------------------------------------------------
(* The index lock, LockGuard::acquireIndexLock. *)

(* Slip: the row is reclaimed from an idle run without looking at its age. *)
LockObtainableWhenIdle == lock = "free" \/ running # "yes"

LockObtainable ==
    \/ lock = "free"
    \/ lock = "expired" /\ running # "yes"
    \/ running = "no" /\ cancel

-----------------------------------------------------------------------------
(* The job that drains the queue. *)

Claim(w, f) ==
    /\ worker[w].phase = "idle"
    /\ Due(f)
    /\ dirty' = Claimed(f)
    /\ worker' = [worker EXCEPT ![w] = [Idle EXCEPT !.phase = "claimed", !.file = f,
                                                    !.stamp = dirty[f].stamp]]
    /\ UNCHANGED <<marks, fileVars, docs, runVars>>

AcquireLock(w) ==
    /\ worker[w].phase = "claimed"
    /\ IF LockObtainable
       THEN /\ lock' = "held"
            /\ worker' = [worker EXCEPT ![w].phase = "looking"]
       ELSE /\ worker' = [worker EXCEPT ![w].phase = "released", ![w].result = "error"]
            /\ UNCHANGED lock
    /\ UNCHANGED <<dirtyVars, fileVars, docs, running, cancel>>

ReleaseLock(w) ==
    /\ worker[w].phase = "finished"
    /\ lock' = "free"
    /\ worker' = [worker EXCEPT ![w].phase = "released"]
    /\ UNCHANGED <<dirtyVars, fileVars, docs, running, cancel>>

(* Acknowledge, requeue or defer the claim.                                   *)
Settle(w) ==
    LET f == worker[w].file
        s == worker[w].stamp
    IN  /\ worker[w].phase = "released"
        /\ dirty' = CASE worker[w].result = "ok"       -> Acknowledged(f, s)
                      [] worker[w].result = "error"    -> Requeued(f, s)
                      [] worker[w].result = "deferred" -> Deferred(f, s)
        /\ worker' = [worker EXCEPT ![w] = Idle]
        /\ UNCHANGED <<marks, fileVars, docs, runVars>>

-----------------------------------------------------------------------------
(* Full passes. *)

(* stateForUser(): one row per file, the last one.                            *)
Snapshot == {d \in docs : \A e \in DocsOf(d.file) : e.id <= d.id}

(* recoverAbandonedRun(), which every entry point calls.                      *)
Recover ==
    /\ running = "abandoned"
    /\ running' = "no"
    /\ cancel' = FALSE
    /\ UNCHANGED <<dirtyVars, fileVars, docs, lock, worker>>

(* queueIndex(): the run is claimed under the lock, which is given back before *)
(* the job that carries it out starts.  Only this clears a request to stop.   *)
RequestPass(w) ==
    /\ worker[w].phase = "idle"
    /\ LockObtainable
    /\ running = "no"
    /\ lock' = "free"
    /\ running' = "yes"
    /\ cancel' = FALSE
    /\ worker' = [worker EXCEPT ![w] = [Idle EXCEPT !.kind = "request", !.phase = "waiting"]]
    /\ UNCHANGED <<dirtyVars, fileVars, docs>>

Started(w, kind) ==
    [worker EXCEPT ![w] = [Idle EXCEPT !.kind = kind, !.phase = "looking",
                                       !.snapshot = Snapshot, !.todo = Files]]

StartRequested(w) ==
    /\ worker[w].phase = "waiting"
    /\ ~cancel
    /\ LockObtainable
    /\ lock' = "held"
    /\ worker' = Started(w, "request")
    /\ UNCHANGED <<dirtyVars, fileVars, docs, running, cancel>>

StartPeriodic(w) ==
    /\ worker[w].phase = "idle"
    /\ LockObtainable
    /\ running = "no"
    /\ lock' = "held"
    /\ running' = "yes"
    /\ worker' = Started(w, "cron")
    /\ UNCHANGED <<dirtyVars, fileVars, docs, cancel>>

(* All slots of the scheduler are taken: the claim of the run stays behind.   *)
Queued(w) ==
    /\ worker[w].phase = "idle"
    /\ LockObtainable
    /\ running = "no"
    /\ lock' = "free"
    /\ running' = "abandoned"
    /\ UNCHANGED <<dirtyVars, fileVars, docs, cancel, worker>>

(* cancellationRequested(), through the cache.                                *)
SeesStop(w) == worker[w].stop = "yes" \/ (worker[w].stop = "unread" /\ cancel)
CutShort(w) == SeesStop(w) \/ worker[w].result = "deferred"

(* Slip: rows of files that are gone stay. *)
CleanedUpNever(w, removed) == removed = {}

(* A pass that saw every file removes a row of each file it did not find.     *)
CleanedUp(w, removed) ==
    IF CutShort(w)
    THEN removed = {}
    ELSE \A f \in Files :
            Cardinality({d \in removed : d.file = f}) =
                IF f \in worker[w].missing /\ DocsOf(f) # {} THEN 1 ELSE 0

EndPeriodic(w) ==
    /\ worker[w].kind = "cron"
    /\ worker[w].phase = "looking"
    /\ worker[w].todo = {} \/ CutShort(w)
    /\ \E removed \in SUBSET docs : CleanedUp(w, removed) /\ docs' = docs \ removed
    /\ running' = "no"
    /\ lock' = "free"
    /\ worker' = [worker EXCEPT ![w] = Idle]
    /\ UNCHANGED <<dirtyVars, fileVars, cancel>>

(* A requested pass that made way for a chat goes on after it.                *)
EndRequested(w) ==
    /\ worker[w].kind = "request"
    /\ \/ worker[w].phase = "waiting" /\ cancel
       \/ worker[w].phase = "looking" /\ (worker[w].todo = {} \/ CutShort(w))
    /\ \E removed \in SUBSET docs : CleanedUp(w, removed) /\ docs' = docs \ removed
    /\ lock' = IF worker[w].phase = "looking" THEN "free" ELSE lock
    /\ IF worker[w].result = "deferred" /\ ~SeesStop(w)
       THEN /\ worker' = [worker EXCEPT ![w] = [Idle EXCEPT !.kind = "request", !.phase = "waiting"]]
            /\ UNCHANGED <<running, cancel>>
       ELSE /\ worker' = [worker EXCEPT ![w] = Idle]
            /\ running' = "no"
            /\ cancel' = FALSE
    /\ UNCHANGED <<dirtyVars, fileVars>>

-----------------------------------------------------------------------------
(* One file, for the job and for a pass alike. *)

(* The process is done with its file.                                         *)
Finished(w, result) ==
    IF Scans(w)
    THEN [worker EXCEPT ![w] = [Idle EXCEPT !.kind = worker[w].kind, !.phase = "looking",
                                            !.snapshot = worker[w].snapshot,
                                            !.todo = worker[w].todo \ {worker[w].file},
                                            !.missing = worker[w].missing,
                                            !.stop = worker[w].stop,
                                            !.result = IF result = "deferred" THEN result ELSE "ok"]]
    ELSE [worker EXCEPT ![w] = [Idle EXCEPT !.phase = "finished", !.file = worker[w].file,
                                            !.stamp = worker[w].stamp, !.result = result]]

(* The row of the file that the process compares its content with.            *)
KnownRows(w, f) ==
    IF Scans(w) THEN {d \in worker[w].snapshot : d.file = f} ELSE DocsOf(f)

(* A pass turns to its next file.                                             *)
Visit(w, f) ==
    /\ Scans(w)
    /\ worker[w].phase = "looking"
    /\ worker[w].file = Gone
    /\ f \in worker[w].todo
    /\ ~CutShort(w)
    /\ \/ /\ disk[f].content = Gone
          /\ worker' = [worker EXCEPT ![w].todo = @ \ {f}, ![w].missing = @ \cup {f}, ![w].stop = "no"]
       \/ /\ disk[f].content # Gone
          /\ worker' = IF \E d \in KnownRows(w, f) : d.mtime = disk[f].mtime
                       THEN [worker EXCEPT ![w].todo = @ \ {f}, ![w].stop = "no"]
                       ELSE [worker EXCEPT ![w].file = f, ![w].stop = "no"]
    /\ UNCHANGED <<dirtyVars, fileVars, docs, runVars>>

Looks(w) == worker[w].phase = "looking" /\ worker[w].file # Gone

(* The file is gone: the job purges one of its rows, a pass does so at its end. *)
Purge(w) ==
    LET f == worker[w].file
    IN  /\ Looks(w)
        /\ disk[f].content = Gone
        /\ IF Scans(w)
           THEN /\ worker' = [Finished(w, "ok") EXCEPT ![w].missing = @ \cup {f}]
                /\ UNCHANGED docs
           ELSE /\ worker' = Finished(w, "ok")
                /\ IF DocsOf(f) = {} THEN UNCHANGED docs
                                     ELSE \E d \in DocsOf(f) : docs' = docs \ {d}
        /\ UNCHANGED <<dirtyVars, fileVars, runVars>>

(* A chat has priority.                                                       *)
YieldsToChat(w) ==
    /\ Looks(w)
    /\ disk[worker[w].file].content # Gone
    /\ worker' = Finished(w, "deferred")
    /\ UNCHANGED <<dirtyVars, fileVars, docs, runVars>>

ExtractionFails(w) ==
    /\ "embedding" \in faults
    /\ Looks(w)
    /\ disk[worker[w].file].content # Gone
    /\ worker' = Finished(w, "error")
    /\ UNCHANGED <<dirtyVars, fileVars, docs, runVars>>

(* The content is that of the row: only its metadata is refreshed.            *)
Unchanged(w) ==
    LET f == worker[w].file
    IN  /\ Looks(w)
        /\ \E d \in KnownRows(w, f) :
              /\ d.content = disk[f].content
              /\ IF DocsOf(f) = {}
                 THEN UNCHANGED docs
                 ELSE \E e \in DocsOf(f) :
                         /\ ~Scans(w) => e = d
                         /\ docs' = (docs \ {e}) \cup {[e EXCEPT !.mtime = disk[f].mtime]}
        /\ worker' = Finished(w, "ok")
        /\ UNCHANGED <<dirtyVars, fileVars, runVars>>

Read(w) ==
    LET f == worker[w].file
    IN  /\ Looks(w)
        /\ disk[f].content # Gone
        /\ \/ /\ KnownRows(w, f) = {}
              /\ worker' = [worker EXCEPT ![w].phase = "read", ![w].content = disk[f].content,
                                          ![w].mtime = disk[f].mtime]
           \/ \E d \in KnownRows(w, f) :
              /\ d.content # disk[f].content
              /\ worker' = [worker EXCEPT ![w].phase = "read", ![w].content = disk[f].content,
                                          ![w].mtime = disk[f].mtime, ![w].old = d.id]
        /\ UNCHANGED <<dirtyVars, fileVars, docs, runVars>>

(* Slip: the old row makes room before the new one can be found. *)
StageReplacing(w) ==
    /\ worker[w].phase = "read"
    /\ NextId <= MaxDocs
    /\ docs' = Freed(worker[w].old) \cup {[id |-> NextId, file |-> worker[w].file, content |-> worker[w].content,
                           mtime |-> worker[w].mtime, chunks |-> FALSE]}
    /\ worker' = [worker EXCEPT ![w].phase = "staged", ![w].new = NextId]
    /\ UNCHANGED <<dirtyVars, fileVars, runVars>>

Stage(w) ==
    /\ worker[w].phase = "read"
    /\ NextId <= MaxDocs
    /\ docs' = docs \cup {[id |-> NextId, file |-> worker[w].file, content |-> worker[w].content,
                           mtime |-> worker[w].mtime, chunks |-> FALSE]}
    /\ worker' = [worker EXCEPT ![w].phase = "staged", ![w].new = NextId]
    /\ UNCHANGED <<dirtyVars, fileVars, runVars>>

(* The flag is looked at before and after the call to the embedding service   *)
(* and before and after the chunks are written.  A stop is not an error.      *)
Discard(w) ==
    /\ worker[w].phase \in {"staged", "embedded", "published"}
    /\ SeesStop(w)
    /\ docs' = Freed(worker[w].new)
    /\ worker' = Finished(w, "ok")
    /\ UNCHANGED <<dirtyVars, fileVars, runVars>>

(* A chat became active before the batch of a pass was embedded.              *)
FlushDeferred(w) ==
    /\ Scans(w)
    /\ worker[w].phase = "staged"
    /\ ~SeesStop(w)
    /\ docs' = Freed(worker[w].new)
    /\ worker' = Finished(w, "deferred")
    /\ UNCHANGED <<dirtyVars, fileVars, runVars>>

EmbeddingFails(w) ==
    /\ "embedding" \in faults
    /\ worker[w].phase = "staged"
    /\ ~SeesStop(w)
    /\ docs' = Freed(worker[w].new)
    /\ worker' = Finished(w, "error")
    /\ UNCHANGED <<dirtyVars, fileVars, runVars>>

(* One document that the model refuses is skipped, which is no error.         *)
Unembeddable(w) ==
    /\ "unembeddable" \in faults
    /\ worker[w].phase = "staged"
    /\ ~SeesStop(w)
    /\ docs' = Freed(worker[w].new)
    /\ worker' = Finished(w, "ok")
    /\ UNCHANGED <<dirtyVars, fileVars, runVars>>

Embed(w) ==
    /\ worker[w].phase = "staged"
    /\ ~SeesStop(w)
    /\ worker' = [worker EXCEPT ![w].phase = "embedded", ![w].stop = "no"]
    /\ UNCHANGED <<dirtyVars, fileVars, docs, runVars>>

Publish(w) ==
    /\ worker[w].phase = "embedded"
    /\ ~SeesStop(w)
    /\ docs' = {IF d.id = worker[w].new THEN [d EXCEPT !.chunks = TRUE] ELSE d : d \in docs}
    /\ worker' = [worker EXCEPT ![w].phase = "published"]
    /\ UNCHANGED <<dirtyVars, fileVars, runVars>>

(* The old row goes last; a failure to remove it is logged and forgotten.     *)
RemoveOld(w) ==
    /\ worker[w].phase = "published"
    /\ ~SeesStop(w)
    /\ \/ docs' = Freed(worker[w].old)
       \/ "leftover" \in faults /\ UNCHANGED docs
    /\ worker' = Finished(w, "ok")
    /\ UNCHANGED <<dirtyVars, fileVars, runVars>>

-----------------------------------------------------------------------------
(* Crashes and time. *)

Dies(w) ==
    /\ "crash" \in faults
    /\ worker[w].phase # "idle"
    /\ lock' = IF HoldsLock(w) /\ lock = "held" THEN "orphaned" ELSE lock
    /\ running' = IF InPass(w) /\ running = "yes" THEN "abandoned" ELSE running
    /\ worker' = [worker EXCEPT ![w] = Idle]
    /\ UNCHANGED <<dirtyVars, fileVars, docs, cancel>>

LockExpires ==
    /\ lock = "orphaned"
    /\ lock' = "expired"
    /\ UNCHANGED <<dirtyVars, fileVars, docs, running, cancel, worker>>

ClaimExpires(f) ==
    /\ LeaseExpires(f)
    /\ UNCHANGED <<fileVars, docs, runVars, worker>>

-----------------------------------------------------------------------------
Look(w)     == Purge(w) \/ Unchanged(w) \/ Read(w)
FileStep(w) == Look(w) \/ Stage(w) \/ Embed(w) \/ Publish(w) \/ RemoveOld(w) \/ Discard(w)
JobStep(w)  == AcquireLock(w) \/ ReleaseLock(w) \/ Settle(w)
PassStep(w) == StartRequested(w) \/ EndPeriodic(w) \/ EndRequested(w) \/ \E f \in Files : Visit(w, f)
Setback(w)  ==
    \/ YieldsToChat(w) \/ FlushDeferred(w)
    \/ ExtractionFails(w) \/ EmbeddingFails(w) \/ Unembeddable(w)

Next ==
    \/ \E f \in Files : Write(f) \/ Mark(f) \/ MarkLost(f) \/ ClaimExpires(f)
    \/ \E w \in Workers, f \in Files : Claim(w, f)
    \/ \E w \in Workers : StartPeriodic(w) \/ RequestPass(w) \/ Queued(w)
    \/ \E w \in Workers : FileStep(w) \/ JobStep(w) \/ PassStep(w) \/ Setback(w) \/ Dies(w)
    \/ Stop \/ Recover \/ LockExpires

Spec == Init /\ [][Next]_vars

(* Cron starts the job and the periodic pass again and again, hooks end, time  *)
(* passes, chats end, and neither the services nor the processes fail every    *)
(* time.                                                                      *)
Fairness ==
    /\ WF_vars(Recover) /\ WF_vars(LockExpires)
    /\ \A f \in Files : WF_vars(Mark(f) \/ MarkLost(f)) /\ WF_vars(ClaimExpires(f))
    /\ \A w \in Workers :
          /\ WF_vars(FileStep(w) \/ JobStep(w) \/ PassStep(w))
          /\ SF_vars(Look(w)) /\ SF_vars(Embed(w)) /\ SF_vars(StartPeriodic(w))
          /\ \A f \in Files : SF_vars(Claim(w, f))

LiveSpec == Spec /\ Fairness

-----------------------------------------------------------------------------
(* Properties. *)

IsFresh(f) ==
    {d.content : d \in Searchable(f)} = {disk[f].content} \ {Gone}

(* When nothing about a file is queued, what can be found is what it contains, *)
(* as long as no mark is lost, no worker dies and no document is refused or    *)
(* left behind: then the full pass has to repair what the queue missed.        *)
CleanIsFresh ==
    faults \subseteq {"embedding", "stop"} =>
        \A f \in Files : dirty[f].status = "absent" /\ unmarked[f] = 0 => IsFresh(f)

(* What can be found of a file, without versions that are being published.    *)
Established(f) == {d \in Searchable(f) : \A w \in Workers : worker[w].new # d.id}

(* A file that could be found stays findable, whatever fails, as long as       *)
(* nobody stops a pass: only a file that is gone, or that a pass did not find, *)
(* loses its last version.                                                    *)
LastGoodIsKept ==
    [][\A f \in Files :
          "stop" \notin faults /\ Established(f) # {} /\ Searchable(f)' = {}
          => disk[f].content = Gone \/ \E w \in Workers : f \in worker[w].missing]_vars

(* Only one process works on the index of the account, as long as nobody stops *)
(* a pass: the flag of a stop makes the row of an idle run reclaimable.        *)
LockIsExclusive ==
    "stop" \notin faults =>
        \A v, w \in Workers : HoldsLock(v) /\ HoldsLock(w) => v = w

(* Once its files change no more the account's index becomes correct and stays *)
(* correct, also after marks that were lost and services that failed, as long  *)
(* as nobody stops a pass (the stop flag outlives it) and no worker dies.      *)
IndexConverges ==
    faults \subseteq {"lostmark", "embedding"} => <>[](\A f \in Files : IsFresh(f))

=============================================================================
