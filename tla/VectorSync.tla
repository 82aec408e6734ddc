----------------------------- MODULE VectorSync -----------------------------
(***************************************************************************)
(* One remote vector generation of one account, from the canonical SQL     *)
(* mutations that record an intent in the journal to the workers that carry *)
(* it out on Qdrant, the explicit preparation of the remote collection, and *)
(* the erasure of the account.                                             *)
(*                                                                         *)
(* SQL transactions are atomic steps, but for the two that meet over the     *)
(* target of the generation: binding it and erasing the account are taken    *)
(* apart at the row locks they hold.  An HTTP request is never one step: the *)
(* worker passes its last guard, the request leaves later, it is applied     *)
(* later still, and perhaps after the worker gave up on it ("late").         *)
(***************************************************************************)
EXTENDS VectorOutbox, FiniteSets

CONSTANTS
    Preparers,      \* processes running the explicit prepare command
    Prepared,       \* whether the generation starts bound, with its collection
    FlagsMayChange  \* whether administrators switch the transport on and off

ASSUME SyncAssumption ==
    /\ FlagsMayChange \in BOOLEAN
    /\ Prepared \in BOOLEAN
    /\ IsFiniteSet(Chunks)

VARIABLES
    owner,       \* eva_ai_vec_owners.state of the account
    generation,  \* eva_ai_vec_generations.status, "deleted" when the row is gone
    bound,       \* storage_endpoint_hash is set
    txn,         \* the open transactions that bind the target or erase the account
    rows,        \* eva_ai_chunks: the generation's rows, by chunk id
    flags,       \* instance flags: "sync" (both transport flags), "points"
    worker,      \* the workers' own control state
    creating,    \* preparers whose create request passed its guard
    late,        \* requests a worker gave up on that may still be applied
    remote       \* the Qdrant collection

sqlVars == <<owner, generation, bound, txn, rows>>
restVars == <<owner, generation, bound, txn, rows, flags, worker, creating, late, remote>>
vars == <<journal, lastId, owner, generation, bound, txn, rows, flags, worker,
          creating, late, remote>>

-----------------------------------------------------------------------------
Owners      == {"open", "blocked"}
Statuses    == {"absent", "building", "active", "failed", "retired", "deleted"}
RowStates   == {"unborn", "pending", "delivered", "gone"}
Row         == [state : RowStates, revision : 0..MaxEvents]
Flags       == {"sync", "points"}
Phases      == {"idle", "selected", "claimed", "armed", "replied"}
Seen        == [state : States, attempts : 0..MaxAttempts, token : Workers \cup {None}]
NothingSeen == [state |-> "none", attempts |-> 0, token |-> None]
Local       == [phase : Phases, id : 0..MaxEvents, seen : Seen]
Idle        == [phase |-> "idle", id |-> 0, seen |-> NothingSeen]

(* binding: holds the owner's row.  locked: holds the generation's row.       *)
(* target: what the erasure read of the generation's target, if it has.       *)
Txn         == [binding : BOOLEAN, locked : BOOLEAN, target : {"unread", "none", "bound"}]
NoTxn       == [binding |-> FALSE, locked |-> FALSE, target |-> "unread"]

(* A remote point carries the revision that wrote it; revision 0 is no point. *)
Point       == [revision : 0..MaxEvents, deleted : BOOLEAN]
NoPoint     == [revision |-> 0, deleted |-> FALSE]
NoPoints    == [c \in Chunks |-> NoPoint]

TypeOK ==
    /\ OutboxTypeOK
    /\ owner \in Owners
    /\ generation \in Statuses
    /\ bound \in BOOLEAN
    /\ txn \in Txn
    /\ rows \in [Chunks -> Row]
    /\ flags \subseteq Flags
    /\ worker \in [Workers -> Local]
    /\ creating \subseteq Preparers
    /\ late \subseteq Ids
    /\ remote \in [present : BOOLEAN, points : [Chunks -> Point]]

Init ==
    /\ OutboxInit
    /\ owner = "open"
    /\ generation = IF Prepared THEN "building" ELSE "absent"
    /\ bound = Prepared
    /\ txn = NoTxn
    /\ rows = [c \in Chunks |-> [state |-> "unborn", revision |-> 0]]
    /\ flags = IF FlagsMayChange THEN {} ELSE Flags
    /\ worker = [w \in Workers |-> Idle]
    /\ creating = {}
    /\ late = {}
    /\ remote = [present |-> Prepared, points |-> NoPoints]

HasRow(c) == rows[c].state \in {"pending", "delivered"}

-----------------------------------------------------------------------------
(* The generation's own life cycle. *)

(* lockOpen() gets the owner's row. *)
OwnerOpen == owner = "open" /\ ~txn.binding

Create ==
    /\ generation = "absent"
    /\ OwnerOpen
    /\ generation' = "building"
    /\ UNCHANGED <<outboxVars, owner, bound, txn, rows, flags, worker, creating, late, remote>>

(* bindTarget() first touches the owner's row and keeps it locked, then it    *)
(* writes the generation's row, for which it waits while an erasure has it.   *)
(* A call that finds the target bound or no building changes nothing.        *)
BindLock ==
    /\ generation = "building" /\ ~bound
    /\ OwnerOpen
    /\ txn' = [txn EXCEPT !.binding = TRUE]
    /\ UNCHANGED <<outboxVars, owner, generation, bound, rows, flags, worker, creating, late, remote>>

BindTarget ==
    /\ txn.binding
    /\ ~txn.locked
    /\ generation = "building"
    /\ bound' = TRUE
    /\ txn' = [txn EXCEPT !.binding = FALSE]
    /\ UNCHANGED <<outboxVars, owner, generation, rows, flags, worker, creating, late, remote>>

(* Refused, failed or killed: nothing is left of it. *)
BindRollsBack ==
    /\ txn.binding
    /\ txn' = [txn EXCEPT !.binding = FALSE]
    /\ UNCHANGED <<outboxVars, owner, generation, bound, rows, flags, worker, creating, late, remote>>

FailBuilding ==
    /\ generation = "building"
    /\ ~txn.locked
    /\ generation' = "failed"
    /\ UNCHANGED <<outboxVars, owner, bound, txn, rows, flags, worker, creating, late, remote>>

(* Switching the account's primary generation to this one, and away from it. *)
Activate ==
    /\ generation = "building"
    /\ bound
    /\ OwnerOpen
    /\ generation' = "active"
    /\ UNCHANGED <<outboxVars, owner, bound, txn, rows, flags, worker, creating, late, remote>>

Retire ==
    /\ generation = "active"
    /\ OwnerOpen
    /\ generation' = "retired"
    /\ UNCHANGED <<outboxVars, owner, bound, txn, rows, flags, worker, creating, late, remote>>

-----------------------------------------------------------------------------
(* Canonical SQL mutations, each with its intent in the same transaction. *)

Enqueue(op, c) ==
    /\ lastId < MaxEvents
    /\ lastId' = lastId + 1
    /\ journal' = [journal EXCEPT ![lastId + 1] = NewEvent(op, c)]

(* A prepared chunk is inserted, or rewritten in place with a new revision. *)
PutChunk(c) ==
    /\ OwnerOpen
    /\ generation \in {"building", "active"}
    /\ bound
    /\ rows[c].state # "gone"
    /\ Enqueue("upsert", c)
    /\ rows' = [rows EXCEPT ![c] = [state |-> "pending", revision |-> lastId + 1]]
    /\ UNCHANGED <<owner, generation, bound, txn, flags, worker, creating, late, remote>>

(* Its source is removed or changed.  This path does not take the owner fence. *)
DeleteChunk(c) ==
    /\ HasRow(c)
    /\ Enqueue("delete_chunk", c)
    /\ rows' = [rows EXCEPT ![c].state = "gone"]
    /\ UNCHANGED <<owner, generation, bound, txn, flags, worker, creating, late, remote>>

(* The fence commits before the cleanup, and survives a failure of it. *)
BlockOwner ==
    /\ OwnerOpen
    /\ owner' = "blocked"
    /\ UNCHANGED <<outboxVars, generation, bound, txn, rows, flags, worker, creating, late, remote>>

(* The erasure takes the generations' rows, then reads where they are.  Until *)
(* it commits, others see the rows as they were.                             *)
EraseLock ==
    /\ owner = "blocked"
    /\ generation \notin {"absent", "deleted"}
    /\ ~txn.locked
    /\ txn' = [txn EXCEPT !.locked = TRUE]
    /\ UNCHANGED <<outboxVars, owner, generation, bound, rows, flags, worker, creating, late, remote>>

(* Slip: the destinations are read before the account is fenced off. *)
EraseReadFirst ==
    /\ generation \notin {"absent", "deleted"}
    /\ txn.target = "unread"
    /\ txn' = [txn EXCEPT !.target = IF bound THEN "bound" ELSE "none"]
    /\ UNCHANGED <<outboxVars, owner, generation, bound, rows, flags, worker, creating, late, remote>>

EraseRead ==
    /\ txn.locked
    /\ txn.target = "unread"
    /\ txn' = [txn EXCEPT !.target = IF bound THEN "bound" ELSE "none"]
    /\ UNCHANGED <<outboxVars, owner, generation, bound, rows, flags, worker, creating, late, remote>>

(* A failed cleanup leaves the fence, and may be repeated. *)
EraseRollsBack ==
    /\ txn.locked
    /\ txn' = [txn EXCEPT !.locked = FALSE, !.target = "unread"]
    /\ UNCHANGED <<outboxVars, owner, generation, bound, rows, flags, worker, creating, late, remote>>

(* Point intents die with the generation, one intent to erase the collection  *)
(* takes the next id, and the rows that are left get their tombstones after   *)
(* it, in some order.                                                         *)
EraseAccount ==
    LET left  == {c \in Chunks : HasRow(c)}
        first == IF txn.target = "bound" THEN lastId + 1 ELSE lastId
        last  == first + Cardinality(left)
    IN  /\ txn.locked
        /\ txn.target # "unread"
        /\ generation \notin {"absent", "deleted"}
        /\ last <= MaxEvents
        /\ \E order \in [(first + 1)..last -> left] :
              /\ \A c \in left : \E i \in (first + 1)..last : order[i] = c
              /\ journal' = [i \in Ids |->
                     IF i <= lastId THEN Superseded(journal[i])
                     ELSE IF i <= first THEN NewEvent("delete_generation", None)
                     ELSE IF i <= last THEN NewEvent("delete_chunk", order[i])
                     ELSE journal[i]]
        /\ lastId' = last
        /\ generation' = "deleted"
        /\ txn' = NoTxn
        /\ rows' = [c \in Chunks |-> IF HasRow(c) THEN [rows[c] EXCEPT !.state = "gone"]
                                                  ELSE rows[c]]
        /\ UNCHANGED <<owner, bound, flags, worker, creating, late, remote>>

-----------------------------------------------------------------------------
(* Explicit preparation of the collection. *)

(* isBuildingBound() passes right before the transfer of the create request. *)
PrepareArm(p) ==
    /\ p \notin creating
    /\ "sync" \in flags
    /\ generation = "building" /\ bound /\ owner = "open"
    /\ creating' = creating \cup {p}
    /\ UNCHANGED <<outboxVars, sqlVars, flags, worker, late, remote>>

PrepareLands(p) ==
    /\ p \in creating
    /\ creating' = creating \ {p}
    /\ remote' = [remote EXCEPT !.present = TRUE]
    /\ UNCHANGED <<outboxVars, sqlVars, flags, worker, late>>

PrepareLost(p) ==
    /\ p \in creating
    /\ creating' = creating \ {p}
    /\ UNCHANGED <<outboxVars, sqlVars, flags, worker, late, remote>>

-----------------------------------------------------------------------------
(* Claims, the same for both pools of workers. *)

Enabled(w) == "sync" \in flags /\ (w \in PointWorkers => "points" \in flags)

Become(w, phase) == worker' = [worker EXCEPT ![w].phase = phase]
GoIdle(w)        == worker' = [worker EXCEPT ![w] = Idle]

(* SELECT ... ORDER BY id LIMIT 1. *)
Select(w, i) ==
    /\ worker[w].phase = "idle"
    /\ Enabled(w)
    /\ journal[i].op \in ClaimsOf(w)
    /\ Claimable(journal[i])
    /\ \A j \in 1..(i - 1) : journal[j].op \in ClaimsOf(w) => ~Claimable(journal[j])
    /\ worker' = [worker EXCEPT ![w] = [phase |-> "selected", id |-> i, seen |-> CasKey(journal[i])]]
    /\ UNCHANGED <<outboxVars, sqlVars, flags, creating, late, remote>>

(* The UPDATE: the worker owns the row, buries it, or lost the race. *)
ClaimCas(w) ==
    LET i == worker[w].id
    IN  /\ worker[w].phase = "selected"
        /\ IF CasHolds(journal[i], worker[w].seen) /\ ~Exhausted(journal[i])
           THEN /\ journal' = [journal EXCEPT ![i] = Claimed(@, w)]
                /\ worker' = [worker EXCEPT ![w] = [phase |-> "claimed", id |-> i, seen |-> NothingSeen]]
           ELSE /\ journal' = IF CasHolds(journal[i], worker[w].seen)
                              THEN [journal EXCEPT ![i] = Released(@, "dead")]
                              ELSE journal
                /\ GoIdle(w)
        /\ UNCHANGED <<lastId, sqlVars, flags, creating, late, remote>>

-----------------------------------------------------------------------------
(* The guard of a point transfer: why the event must not be sent any more.   *)
Stale(w) == ~OwnsLease(journal[worker[w].id], w)

MustSupersede(i) ==
    \/ generation \in {"retired", "deleted"} /\ HasGenerationErasure
    \/ generation = "failed" /\ journal[i].op = "upsert"
    \/ /\ journal[i].op = "upsert"
       /\ generation \in {"building", "active"}
       /\ owner = "open"
       /\ ~(HasRow(journal[i].chunk) /\ rows[journal[i].chunk].revision = i)

MaySend(i) ==
    /\ generation \notin {"retired", "deleted"}
    /\ owner = "open"
    /\ journal[i].op = "upsert" =>
          /\ generation # "failed"
          /\ HasRow(journal[i].chunk)
          /\ rows[journal[i].chunk].revision = i

PointArm(w) ==
    /\ w \in PointWorkers
    /\ worker[w].phase = "claimed"
    /\ Enabled(w)
    /\ ~Stale(w)
    /\ MaySend(worker[w].id)
    /\ Become(w, "armed")
    /\ UNCHANGED <<outboxVars, sqlVars, flags, creating, late, remote>>

PointSupersede(w) ==
    LET i == worker[w].id
    IN  /\ w \in PointWorkers
        /\ worker[w].phase = "claimed"
        /\ Enabled(w)
        /\ ~Stale(w)
        /\ MustSupersede(i)
        /\ journal' = [journal EXCEPT ![i] = Superseded(@)]
        /\ GoIdle(w)
        /\ UNCHANGED <<lastId, sqlVars, flags, creating, late, remote>>

PointStale(w) ==
    /\ w \in PointWorkers
    /\ worker[w].phase = "claimed"
    /\ Stale(w)
    /\ GoIdle(w)
    /\ UNCHANGED <<outboxVars, sqlVars, flags, creating, late, remote>>

(* Slip: update_filter is not sent. *)
WrittenUnconditionally(points, i) ==
    [points EXCEPT ![journal[i].chunk] =
        [revision |-> i, deleted |-> journal[i].op = "delete_chunk"]]

(* What Qdrant does with a conditional write: insert a missing point, change *)
(* an existing one only when update_filter matches it.                       *)
Written(points, i) ==
    LET c == journal[i].chunk
        tombstone == journal[i].op = "delete_chunk"
        old == points[c]
        matches == old.revision <= i /\ (tombstone \/ ~old.deleted)
    IN  IF old = NoPoint \/ matches
        THEN [points EXCEPT ![c] = [revision |-> i, deleted |-> tombstone]]
        ELSE points

(* The request for event i reaches the store. *)
Apply(i) ==
    remote' = IF journal[i].op = "delete_generation"
              THEN [present |-> FALSE, points |-> NoPoints]
              ELSE IF remote.present
                   THEN [remote EXCEPT !.points = Written(@, i)]
                   ELSE remote

(* The store applies the request and the worker sees an affirmative answer.  *)
(* A point write to a missing collection is refused: that is WorkerFails.     *)
Reply(w) ==
    LET i == worker[w].id
    IN  /\ worker[w].phase = "armed"
        /\ w \in PointWorkers => remote.present
        /\ Apply(i)
        /\ Become(w, "replied")
        /\ UNCHANGED <<outboxVars, sqlVars, flags, creating, late>>

LateApply(i) ==
    /\ i \in late
    /\ Apply(i)
    /\ late' = late \ {i}
    /\ UNCHANGED <<outboxVars, sqlVars, flags, worker, creating>>

LateLost(i) ==
    /\ i \in late
    /\ late' = late \ {i}
    /\ UNCHANGED <<outboxVars, sqlVars, flags, worker, creating, remote>>

(* Slip: the chunk is marked without comparing its revision. *)
PointAckAnyRevision(w) ==
    LET i == worker[w].id
        c == journal[i].chunk
    IN  /\ w \in PointWorkers
        /\ worker[w].phase = "replied"
        /\ IF Stale(w)
           THEN UNCHANGED <<journal, rows>>
           ELSE /\ journal' = [journal EXCEPT ![i] = Completed(@)]
                /\ rows' = IF journal[i].op = "upsert" /\ HasRow(c)
                           THEN [rows EXCEPT ![c].state = "delivered"] ELSE rows
        /\ GoIdle(w)
        /\ UNCHANGED <<lastId, owner, generation, bound, txn, flags, creating, late, remote>>

(* completePoint(): the event first, then the chunk it was the revision of.  *)
PointAck(w) ==
    LET i == worker[w].id
        c == journal[i].chunk
    IN  /\ w \in PointWorkers
        /\ worker[w].phase = "replied"
        /\ IF Stale(w)
           THEN UNCHANGED <<journal, rows>>
           ELSE /\ journal' = [journal EXCEPT ![i] = Completed(@)]
                /\ rows' = IF journal[i].op = "upsert" /\ HasRow(c) /\ rows[c].revision = i
                           THEN [rows EXCEPT ![c].state = "delivered"] ELSE rows
        /\ GoIdle(w)
        /\ UNCHANGED <<lastId, owner, generation, bound, txn, flags, creating, late, remote>>

-----------------------------------------------------------------------------
(* The erasure worker. *)

(* The first claim only starts the grace period. *)
EraseDefer(w) ==
    LET i == worker[w].id
    IN  /\ w \in ErasureWorkers
        /\ worker[w].phase = "claimed"
        /\ journal[i].ready # "passed"
        /\ journal' = IF Stale(w) THEN journal ELSE [journal EXCEPT ![i] = Deferred(@)]
        /\ GoIdle(w)
        /\ UNCHANGED <<lastId, sqlVars, flags, creating, late, remote>>

(* Sixty seconds pass: twice the timeout of any preparation request, so none *)
(* that was sent before the grace started is still under way.                *)
GraceElapses(i) ==
    /\ journal[i].ready = "waiting"
    /\ creating = {}
    /\ journal' = [journal EXCEPT ![i].ready = "passed"]
    /\ UNCHANGED <<lastId, sqlVars, flags, worker, creating, late, remote>>

Retired == generation \in {"absent", "retired", "deleted"}

(* Slip: the collection is deleted on the first claim. *)
EraseArmAtOnce(w) ==
    /\ w \in ErasureWorkers
    /\ worker[w].phase = "claimed"
    /\ Enabled(w)
    /\ ~Stale(w)
    /\ Retired
    /\ Become(w, "armed")
    /\ UNCHANGED <<outboxVars, sqlVars, flags, creating, late, remote>>

EraseArm(w) ==
    /\ w \in ErasureWorkers
    /\ worker[w].phase = "claimed"
    /\ journal[worker[w].id].ready = "passed"
    /\ Enabled(w)
    /\ ~Stale(w)
    /\ Retired
    /\ Become(w, "armed")
    /\ UNCHANGED <<outboxVars, sqlVars, flags, creating, late, remote>>

(* complete(): the token is enough, the lease may have run out. *)
EraseAck(w) ==
    LET i == worker[w].id
    IN  /\ w \in ErasureWorkers
        /\ worker[w].phase = "replied"
        /\ journal' = IF HoldsToken(journal[i], w)
                      THEN [journal EXCEPT ![i] = Completed(@)] ELSE journal
        /\ GoIdle(w)
        /\ UNCHANGED <<lastId, sqlVars, flags, creating, late, remote>>

-----------------------------------------------------------------------------
(* Failures. *)

MayBeLate(w) ==
    IF worker[w].phase = "armed"
    THEN late' \in {late, late \cup {worker[w].id}} ELSE UNCHANGED late

(* Any error between the claim and the answer: a flag switched off, the source *)
(* or target unavailable, a refused, lost or timed-out request, SQL after it.  *)
WorkerFails(w) ==
    LET i == worker[w].id
    IN  /\ worker[w].phase \in {"claimed", "armed", "replied"}
        /\ journal' = IF HoldsToken(journal[i], w)
                      THEN [journal EXCEPT ![i] = Failed(@, w \in ErasureWorkers /\ ~Retired)]
                      ELSE journal
        /\ MayBeLate(w)
        /\ GoIdle(w)
        /\ UNCHANGED <<lastId, sqlVars, flags, creating, remote>>

(* The PHP process dies; its claim is found again when the lease runs out. *)
WorkerDies(w) ==
    /\ worker[w].phase # "idle"
    /\ MayBeLate(w)
    /\ GoIdle(w)
    /\ UNCHANGED <<outboxVars, sqlVars, flags, creating, remote>>

SetFlags ==
    /\ FlagsMayChange
    /\ flags' \in (SUBSET Flags) \ {flags}
    /\ UNCHANGED <<outboxVars, sqlVars, worker, creating, late, remote>>

-----------------------------------------------------------------------------
Binding   == BindLock \/ BindTarget \/ BindRollsBack
Erasing   == EraseLock \/ EraseRead \/ EraseRollsBack
Lifecycle == Create \/ Binding \/ FailBuilding \/ Activate \/ Retire \/ Erasing
Mutation  == \/ \E c \in Chunks : PutChunk(c) \/ DeleteChunk(c)
             \/ BlockOwner
             \/ EraseAccount
Prepare   == \E p \in Preparers : PrepareArm(p) \/ PrepareLands(p) \/ PrepareLost(p)

PointStep(w) ==
    \/ PointArm(w) \/ PointSupersede(w) \/ PointStale(w) \/ PointAck(w)
EraseStep(w) ==
    \/ EraseDefer(w) \/ EraseArm(w) \/ EraseAck(w)
WorkerStep(w) ==
    \/ \E i \in Ids : Select(w, i)
    \/ ClaimCas(w) \/ Reply(w) \/ PointStep(w) \/ EraseStep(w)

Environment ==
    \/ \E w \in Workers : WorkerFails(w) \/ WorkerDies(w)
    \/ \E i \in Ids : LateApply(i) \/ LateLost(i)
    \/ \E i \in Ids : (LeaseExpires(i) \/ RetryDead(i)) /\
           UNCHANGED restVars
    \/ \E i \in Ids : GraceElapses(i)
    \/ SetFlags

Next == Lifecycle \/ Mutation \/ Prepare \/ (\E w \in Workers : WorkerStep(w)) \/ Environment

Spec == Init /\ [][Next]_vars

(* Cron starts the workers again and again, requests end in an answer or a    *)
(* timeout, and leases and grace periods run out.  A claim may die between    *)
(* its SELECT and its UPDATE, but not every time (strong fairness).           *)
Fairness ==
    /\ \A w \in Workers : /\ WF_vars(WorkerStep(w) \/ WorkerFails(w))
                          /\ SF_vars(ClaimCas(w))
    /\ \A i \in Ids : /\ WF_vars(LeaseExpires(i) /\ UNCHANGED restVars)
                      /\ WF_vars(GraceElapses(i))
    /\ \A p \in Preparers : WF_vars(PrepareLands(p) \/ PrepareLost(p))

(* Administrators may requeue dead letters for ever; liveness is stated for a  *)
(* system that is left to itself in the end.                                  *)
Unattended == \A i \in Ids : journal[i].state = "dead" => journal'[i] = journal[i] \/ journal'[i].state = "superseded"

LiveSpec == Spec /\ Fairness

-----------------------------------------------------------------------------
(* Properties. *)

(* Once the erasure of the collection has been acknowledged the collection is *)
(* gone, and no preparation that is still under way can bring it back.        *)
ErasureIsFinal ==
    (\E i \in Ids : journal[i].op = "delete_generation" /\ journal[i].state = "delivered")
        => ~remote.present /\ creating = {}

(* The erasure of a bound generation always survives as a journal row: it is  *)
(* never superseded together with the point events it outranks.               *)
ErasureIntentKept ==
    generation = "deleted" /\ bound => HasGenerationErasure

(* A chunk whose deletion has been acknowledged is not served any more, no    *)
(* matter which older upload arrives afterwards.                              *)
DeletedChunkNotServed ==
    \A i \in Ids :
        journal[i].op = "delete_chunk" /\ journal[i].state = "delivered"
            => ~remote.present \/ remote.points[journal[i].chunk].deleted

(* A chunk row marked "delivered" is what the store serves for it.            *)
DeliveredIsServed ==
    \A c \in Chunks :
        rows[c].state = "delivered"
            => /\ remote.present
               /\ remote.points[c] = [revision |-> rows[c].revision, deleted |-> FALSE]

(* Delivered and superseded rows are final: no late worker acknowledges,      *)
(* fails or revives one.                                                      *)
SettledIsFinal ==
    [][\A i \in Ids : journal[i].state \in {"delivered", "superseded"}
            => journal'[i] = journal[i]]_vars

(* Only the worker that holds the row's token, and only after the store has   *)
(* answered it, acknowledges the row.                                         *)
OnlyAnsweredHolderAcks ==
    [][\A i \in Ids : journal[i].state # "delivered" /\ journal'[i].state = "delivered"
            => \E w \in Workers : /\ journal[i].token = w
                                  /\ worker[w] = [phase |-> "replied", id |-> i, seen |-> NothingSeen]]_vars

(* The index as retrieval sees it keeps the promises of VectorIndexContract:   *)
(* it is erased when the account is and no creation can bring it back.         *)
Contract == INSTANCE VectorIndexContract WITH
    Revisions <- Ids,
    index     <- remote.points,
    erased    <- generation = "deleted" /\ creating = {} /\ ~remote.present

KeepsContract == Contract!Spec

(* While the transport stays on, an erasure intent is carried out or ends as a *)
(* dead letter that an administrator can see.                                  *)
ErasureSettles ==
    <>[]("sync" \in flags) /\ <>[][Unattended]_vars =>
        \A i \in Ids : journal[i].op = "delete_generation" /\ journal[i].state = "pending"
            ~> journal[i].state \in {"delivered", "dead"}

(* The same for point events: none waits behind the others for ever.          *)
PointEventsSettle ==
    <>[](flags = Flags) /\ <>[][Unattended]_vars =>
        \A i \in Ids : journal[i].op \in PointOps /\ journal[i].state = "pending"
            ~> journal[i].state \in {"delivered", "dead", "superseded"}

=============================================================================
