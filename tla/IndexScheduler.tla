--------------------------- MODULE IndexScheduler ---------------------------
(***************************************************************************)
(* The instance-wide limit on index passes (lib/Service/IndexScheduler.php)  *)
(* as Indexer::run() and the periodic IndexJob use it.  A pass belongs to    *)
(* one user: the user's own index lock admits one at a time.                 *)
(*                                                                         *)
(* Every operation holds the scheduler's global lock and is one step, but    *)
(* it reads the active slots through the request cache of its process's      *)
(* AppConfig: a value that was read and not written back is answered from    *)
(* there until the process changes its user or writes it.  A heartbeat is     *)
(* "fresh", or "stale" once it is older than STALE_SLOT_SECONDS.             *)
(***************************************************************************)
EXTENDS SequencesExt

CONSTANTS
    Users,
    Returning,        \* users for whom passes are started again and again
    MaxConcurrent     \* app setting index_max_concurrent

ASSUME SchedulerAssumption ==
    /\ Returning \subseteq Users
    /\ MaxConcurrent \in 1..16

ASSUME UsersAssumption == IsFiniteSet(Users)

VARIABLES
    active,   \* app value index_scheduler_active: the heartbeat of each slot
    queue,    \* app value index_scheduler_queue
    running,  \* users whose pass runs
    view,     \* what a running pass's process remembers of active
    drain,    \* queued users the periodic job is about to start
    lossy     \* whether passes may leave their slot behind or be late with a
              \* heartbeat; chosen once, for the whole behaviour

vars == <<active, queue, running, view, drain, lossy>>

Heartbeats == {"none", "fresh", "stale"}
Slots      == [Users -> Heartbeats]
NoView     == <<>>
Holders(a) == {u \in Users : a[u] # "none"}

TypeOK ==
    /\ active \in Slots
    /\ queue \in Seq(Users) /\ Len(queue) <= Cardinality(Users)
    /\ running \subseteq Users
    /\ view \in [Users -> Slots \cup {NoView}]
    /\ drain \in Seq(Users)
    /\ lossy \in BOOLEAN

Init ==
    /\ active = [u \in Users |-> "none"]
    /\ queue = <<>>
    /\ running = {}
    /\ view = [u \in Users |-> NoView]
    /\ drain = <<>>
    /\ lossy \in BOOLEAN

-----------------------------------------------------------------------------
(* Slip: a slot whose worker is gone is kept. *)
ReclaimedNever(a) == a

Reclaimed(a) == [u \in Users |-> IF a[u] = "stale" THEN "none" ELSE a[u]]

Read(u) == IF view[u] = NoView THEN active ELSE view[u]

(* The entries of a queue that are in S, in their order.                      *)
Kept(q, S) ==
    LET kept[n \in 0..Len(q)] ==
            IF n = 0 THEN <<>>
            ELSE IF q[n] \in S THEN Append(kept[n - 1], q[n]) ELSE kept[n - 1]
    IN  kept[Len(q)]

(* Slip: the queue entry of a user who got a slot stays. *)
DropUserNot(u) == queue

DropUser(u) == Kept(queue, Users \ {u})

(* Slip: every request adds an entry. *)
EnqueueAgain(u) == Append(queue, u)

(* Slip: a repeated request moves its user to the end. *)
EnqueueLast(u) == Append(DropUser(u), u)

Enqueue(u) == IF Contains(queue, u) THEN queue ELSE Append(queue, u)

(* Slip: the limit is compared after the slot is counted. *)
HasRoomForOneMore(a) == Cardinality(Holders(a)) <= MaxConcurrent

HasRoom(a) == Cardinality(Holders(a)) < MaxConcurrent

(* acquireSlot() at the start of a pass, which has just set its user: the      *)
(* slots are read afresh.  They stay remembered if they were not written.     *)
Acquire(u) ==
    LET slots == Reclaimed(active)
    IN  /\ u \notin running
        /\ IF slots[u] # "none" \/ HasRoom(slots)
           THEN /\ active' = [slots EXCEPT ![u] = IF @ = "none" THEN "fresh" ELSE @]
                /\ queue' = DropUser(u)
                /\ running' = running \cup {u}
                /\ view' = [view EXCEPT ![u] = IF active' = active THEN slots ELSE NoView]
           ELSE /\ active' = slots
                /\ queue' = Enqueue(u)
                /\ UNCHANGED <<running, view>>

(* touchHeartbeat() writes only if the pass still finds its slot.             *)
Touch(u) ==
    /\ u \in running
    /\ IF Read(u)[u] # "none"
       THEN /\ active' = [Read(u) EXCEPT ![u] = "fresh"]
            /\ view' = [view EXCEPT ![u] = NoView]
       ELSE /\ view' = [view EXCEPT ![u] = Read(u)]
            /\ UNCHANGED active
    /\ UNCHANGED <<queue, running, drain, lossy>>

Release(u) ==
    /\ u \in running
    /\ active' = [Read(u) EXCEPT ![u] = "none"]
    /\ running' = running \ {u}
    /\ view' = [view EXCEPT ![u] = NoView]
    /\ UNCHANGED <<queue, drain, lossy>>

(* The process is killed, or the scheduler's lock was busy twice.             *)
LeavesSlot(u) ==
    /\ lossy
    /\ u \in running
    /\ running' = running \ {u}
    /\ view' = [view EXCEPT ![u] = NoView]
    /\ UNCHANGED <<active, queue, drain, lossy>>

(* recoverStale(), activeUsers() and the read-only overviews.                 *)
RecoverStale ==
    /\ active' = Reclaimed(active)
    /\ active' # active
    /\ UNCHANGED <<queue, running, view, drain, lossy>>

Dequeue(u) ==
    /\ Contains(queue, u)
    /\ queue' = DropUser(u)
    /\ UNCHANGED <<active, running, view, drain, lossy>>

(* queuedUsers(10): the loop looks at its limit after it has taken a user.    *)
Drainable(a) ==
    LET waiting == Kept(queue, Users \ Holders(a))
        free    == Max({0, MaxConcurrent - Cardinality(Holders(a))})
    IN  SubSeq(waiting, 1, Min({Len(waiting), Max({1, Min({free, 10})})}))

PickQueued ==
    /\ drain = <<>>
    /\ active' = Reclaimed(active)
    /\ drain' = Drainable(active')
    /\ drain' # <<>>
    /\ UNCHANGED <<queue, running, view, lossy>>

(* The job's next queued user; a pass of that user may have begun meanwhile.  *)
StartQueued(u) ==
    /\ drain # <<>>
    /\ u = Head(drain)
    /\ drain' = Tail(drain)
    /\ \/ Acquire(u)
       \/ u \in running /\ UNCHANGED <<active, queue, running, view>>
    /\ UNCHANGED lossy

(* The job's budget is used up, or it is stopped.                             *)
StopDraining ==
    /\ drain # <<>>
    /\ drain' = <<>>
    /\ UNCHANGED <<active, queue, running, view, lossy>>

(* A requested pass, or the periodic job's turn of an enrolled user.          *)
Start(u) == Acquire(u) /\ UNCHANGED <<drain, lossy>>

(* Fifteen minutes pass for a heartbeat that was not refreshed.               *)
GoesStale(u) ==
    /\ active[u] = "fresh"
    /\ u \in running => lossy
    /\ active' = [active EXCEPT ![u] = "stale"]
    /\ view' = [v \in Users |-> IF view[v] # NoView /\ view[v][u] = "fresh"
                                THEN [view[v] EXCEPT ![u] = "stale"]
                                ELSE view[v]]
    /\ UNCHANGED <<queue, running, drain, lossy>>

Next ==
    \/ \E u \in Users : Start(u) \/ Touch(u) \/ Release(u) \/ LeavesSlot(u) \/ Dequeue(u) \/ GoesStale(u)
                       \/ StartQueued(u)
    \/ RecoverStale \/ PickQueued \/ StopDraining

Spec == Init /\ [][Next]_vars

(* Passes end and time passes; cron comes back to the users who are enrolled,  *)
(* at a moment it does not choose.                                            *)
Fairness ==
    /\ \A u \in Users : WF_vars(Release(u)) /\ WF_vars(GoesStale(u))
    /\ \A u \in Returning : WF_vars(Start(u))

LiveSpec == Spec /\ Fairness

-----------------------------------------------------------------------------
(* Properties. *)

(* The service bounds the number of index passes that run at the same time    *)
(* across all users, as long as passes refresh their heartbeats and release   *)
(* their slots.                                                               *)
PassesAreBounded == ~lossy => Cardinality(running) <= MaxConcurrent

(* The queue holds each user once and no one whose pass runs: a served user's *)
(* entry cannot linger in front of the others.                                *)
QueueHoldsWaiting == IsInjective(queue) /\ ToSet(queue) \cap running = {}

(* While a user waits, no other user who waited behind it gets ahead of it.    *)
PlaceIsKept ==
    [][\A u, v \in Users :
          /\ Contains(queue, u) /\ Contains(queue', u)
          /\ Contains(queue, v) /\ Contains(queue', v)
          /\ \E i, j \in DOMAIN queue : i < j /\ queue[i] = u /\ queue[j] = v
          => \E i, j \in DOMAIN queue' : i < j /\ queue'[i] = u /\ queue'[j] = v]_vars

(* A worker that is gone can never block the queue: slots that no live pass    *)
(* holds do not keep the limit reached.                                       *)
DeadSlotsFreeUp ==
    (running = {} /\ ~HasRoom(active)) ~> (running # {} \/ HasRoom(active))

=============================================================================
